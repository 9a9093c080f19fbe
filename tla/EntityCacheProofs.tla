------------------------- MODULE EntityCacheProofs -------------------------
(***************************************************************************)
(* Theorems about EntityCache, for any requests, records, queries, list    *)
(* keys and number of writes, with Redis failing or not.                   *)
(***************************************************************************)
EXTENDS EntityCache, TLAPS

Served == {NoAnswer} \union [query : Queries, data : Answers]

\* The answer to a query is made of the records it selects.
LEMMA AnswerType ==
  ASSUME NEW q \in Queries, NEW d \in [Ids -> Versions]
  PROVE  Answer(q, d) \in Answers
<1> DEFINE S == {j \in Window[q] : d[j] # 0}
<1>1. S \in SUBSET Ids
  BY EntityCacheAssumption DEF EntityCacheAssumption
<1>2. \A i \in S : d[i] \in Versions
  BY <1>1
<1>3. Answer(q, d) = [i \in S |-> d[i]]
  BY DEF Answer
<1> HIDE DEF S
<1>4. [i \in S |-> d[i]] \in [S -> Versions]
  BY <1>2
<1> QED BY <1>1, <1>3, <1>4 DEF Answers

LEMMA NothingIsAnAnswer == [i \in {} |-> 0] \in Answers
<1>1. {} \in SUBSET Ids
  OBVIOUS
<1>2. [i \in {} |-> 0] \in [{} -> Versions]
  OBVIOUS
<1> QED BY <1>1, <1>2 DEF Answers

\* A list that is excused keeps its type.
LEMMA ExcusedType ==
  ASSUME lists \in [Keys -> Lists], NEW S
  PROVE  /\ Excused(S) \in [Keys -> Lists]
         /\ \A k \in Keys : k \notin S => Excused(S)[k] = lists[k]
         /\ \A k \in Keys : Excused(S)[k] # NoList /\ k \in S
                              => Excused(S)[k].excused
<1>1. ASSUME NEW k \in Keys, lists[k] # NoList
      PROVE  /\ [lists[k] EXCEPT !.excused = TRUE] \in Lists
             /\ [lists[k] EXCEPT !.excused = TRUE].excused
  <2>1. lists[k] \in [query : Queries, data : Answers, excused : BOOLEAN]
    BY <1>1 DEF Lists
  <2> QED BY <2>1 DEF Lists
<1> QED BY <1>1 DEF Excused

-----------------------------------------------------------------------------
\* The variables always have their types: what a reader caches and serves is
\* an answer, and a scan goes over the entity's own list keys.
THEOREM TypeCorrect == Spec => []TypeOK
<1> USE EntityCacheAssumption DEF EntityCacheAssumption, Versions
<1>1. Init => TypeOK
  <2> SUFFICES ASSUME Init
               PROVE  TypeOK
    OBVIOUS
  <2>1. query \in [Readers -> Queries] /\ target \in [Writers -> Ids]
    BY DEF Init
  <2>2. lists \in [Keys -> Lists] /\ buffered \in Seq(Ids \X {"create", "update", "delete"})
    BY DEF Init, Lists
  <2>3. snap \in [Readers -> Answers]
    BY NothingIsAnAnswer DEF Init
  <2>4. policy \in [Readers -> Policies]
    BY DEF Init, Policies
  <2> QED BY <2>1, <2>2, <2>3, <2>4 DEF Init, TypeOK
<1>2. TypeOK /\ [Next]_vars => TypeOK'
  <2> SUFFICES ASSUME TypeOK, [Next]_vars
               PROVE  TypeOK'
    OBVIOUS
  <2> USE DEF reader, writer, backend, redis, recordCache, Go
  <2>1. ASSUME NEW r \in Readers, NEW q \in Queries, NEW p \in Policies,
               Ask(r, q, p)
        PROVE  TypeOK'
    <3>1. [query |-> q, data |-> [i \in {} |-> 0]] \in Served
          /\ NoAnswer \in Served
      BY NothingIsAnAnswer DEF Served
    <3>2. served \in [Readers -> Served]
      BY DEF TypeOK, Served
    <3>3. served' \in [Readers -> Served]
      BY <2>1, <3>1, <3>2 DEF Ask
    <3> QED BY <2>1, <3>3 DEF TypeOK, Ask, Served
  <2>2. ASSUME NEW r \in Readers, GetList(r)
        PROVE  TypeOK'
    <3>1. KeyOf[query[r]] \in Keys
      BY DEF TypeOK
    <3>2. CASE /\ lists[KeyOf[query[r]]] # NoList
               /\ Serve(r, lists[KeyOf[query[r]]].data)
      <4>1. lists[KeyOf[query[r]]].data \in Answers
        BY <3>1, <3>2 DEF TypeOK, Lists
      <4> QED BY <2>2, <3>2, <4>1 DEF TypeOK, GetList, Serve
    <3>3. CASE Go(r, "query") /\ UNCHANGED served
      BY <2>2, <3>3 DEF TypeOK, GetList
    <3> QED BY <2>2, <3>2, <3>3 DEF GetList
  <2>3. ASSUME NEW r \in Readers, QueryBackend(r)
        PROVE  TypeOK'
    <3>1. Answer(query[r], db) \in Answers
      BY AnswerType DEF TypeOK
    <3>2. snap' \in [Readers -> Answers] /\ raced' \in [Readers -> BOOLEAN]
      <4>1. /\ snap \in [Readers -> Answers]
            /\ raced \in [Readers -> BOOLEAN]
        BY DEF TypeOK
      <4>2. \/ /\ snap' = [snap EXCEPT ![r] = Answer(query[r], db)]
               /\ raced' = [raced EXCEPT ![r] = FALSE]
            \/ UNCHANGED <<snap, raced>>
        BY <2>3 DEF QueryBackend
      <4>3. CASE UNCHANGED <<snap, raced>>
        BY <4>1, <4>3
      <4>4. CASE /\ snap' = [snap EXCEPT ![r] = Answer(query[r], db)]
                 /\ raced' = [raced EXCEPT ![r] = FALSE]
        BY <3>1, <4>1, <4>4
      <4> QED BY <4>2, <4>3, <4>4
    <3>3. at' \in [Readers \union Writers ->
                    {"idle", "get", "query", "set", "cache", "record", "scan"}]
      BY <2>3 DEF TypeOK, QueryBackend, Serve
    <3>4. served' \in [Readers -> Served]
      <4>1. [query |-> query[r], data |-> snap'[r]] \in Served
        BY <3>2 DEF TypeOK, Served
      <4>2. served \in [Readers -> Served]
        BY DEF TypeOK, Served
      <4>3. \/ UNCHANGED served
            \/ served' = [served EXCEPT
                             ![r] = [query |-> query[r], data |-> snap'[r]]]
        BY <2>3 DEF QueryBackend, Serve
      <4> QED BY <4>1, <4>2, <4>3
    <3> QED BY <2>3, <3>2, <3>3, <3>4 DEF TypeOK, QueryBackend, Served
  <2>4. ASSUME NEW r \in Readers, SetList(r)
        PROVE  TypeOK'
    <3>1. [query |-> query[r], data |-> snap[r], excused |-> raced[r]] \in Lists
      BY DEF TypeOK, Lists
    <3>2. lists' \in [Keys -> Lists]
      <4> DEFINE e == [query |-> query[r], data |-> snap[r],
                       excused |-> raced[r]]
      <4>1. lists' = [lists EXCEPT ![KeyOf[query[r]]] = e] \/ lists' = lists
        BY <2>4 DEF SetList
      <4>2. e \in Lists
        BY <3>1
      <4> HIDE DEF e
      <4>3. lists \in [Keys -> Lists]
        BY DEF TypeOK
      <4> QED BY <4>1, <4>2, <4>3
    <3>3. served' \in [Readers -> Served]
      <4>1. [query |-> query[r], data |-> snap[r]] \in Served
        BY DEF TypeOK, Served
      <4>2. served' = [served EXCEPT
                          ![r] = [query |-> query[r], data |-> snap[r]]]
        BY <2>4 DEF SetList, Serve
      <4>3. served \in [Readers -> Served]
        BY DEF TypeOK, Served
      <4> QED BY <4>1, <4>2, <4>3
    <3> QED BY <2>4, <3>2, <3>3 DEF TypeOK, SetList, Serve, Served
  <2>5. ASSUME NEW i \in Ids, NEW op \in {"create", "update", "delete"},
               Commit(i, op)
        PROVE  /\ db' \in [Ids -> Versions] /\ writes' \in Versions
               /\ raced' \in [Readers -> BOOLEAN]
    BY <2>5 DEF TypeOK, Commit, Written
  <2>6. ASSUME NEW w \in Writers, NEW i \in Ids,
               NEW op \in {"create", "update", "delete"}, WriteRecord(w, i, op)
        PROVE  TypeOK'
    BY <2>5, <2>6 DEF TypeOK, WriteRecord
  <2>7. ASSUME NEW i \in Ids, NEW op \in {"create", "update", "delete"},
               BufferWrite(i, op)
        PROVE  TypeOK'
    <3>1. buffered' \in Seq(Ids \X {"create", "update", "delete"})
      BY <2>7 DEF TypeOK, BufferWrite
    <3> QED BY <2>7, <3>1 DEF TypeOK, BufferWrite
  <2>8. CASE FlushItem
    <3> DEFINE Ops == {"create", "update", "delete"}
    <3>1. Head(buffered) \in Ids \X Ops /\ Tail(buffered) \in Seq(Ids \X Ops)
      BY <2>8 DEF TypeOK, FlushItem
    <3>2. /\ db' \in [Ids -> Versions] /\ writes' \in Versions
          /\ raced' \in [Readers -> BOOLEAN]
      <4>1. CASE Commit(Head(buffered)[1], Head(buffered)[2])
        <5> DEFINE i == Head(buffered)[1]
                   op == Head(buffered)[2]
        <5>1. i \in Ids /\ op \in {"create", "update", "delete"}
          BY <3>1
        <5> HIDE DEF i, op
        <5>2. Commit(i, op)
          BY <4>1 DEF i, op
        <5> QED BY ONLY <2>5, <5>1, <5>2
      <4>2. CASE UNCHANGED <<db, writes, raced>>
        BY <4>2 DEF TypeOK
      <4> QED BY <2>8, <4>1, <4>2 DEF FlushItem
    <3> QED BY <2>8, <3>1, <3>2 DEF TypeOK, FlushItem
  <2>9. ASSUME NEW w \in Writers, SetRecord(w) \/ DelRecord(w)
        PROVE  TypeOK'
    <3>1. CASE SetRecord(w)
      BY <3>1 DEF TypeOK, SetRecord
    <3>2. CASE DelRecord(w)
      <4>1. records' = [records EXCEPT ![target[w]] = 0] \/ records' = records
        BY <3>2 DEF DelRecord
      <4>2. 0 \in Versions
        OBVIOUS
      <4> HIDE DEF Versions
      <4>3. records' \in [Ids -> Versions]
        BY <4>1, <4>2 DEF TypeOK
      <4>4. Keys \in SUBSET Keys
        OBVIOUS
      <4>5. todo' = [todo EXCEPT ![w] = Keys]
        BY <3>2 DEF DelRecord, ScannedKeys
      <4>6. todo' \in [Writers -> SUBSET Keys]
        BY <4>4, <4>5 DEF TypeOK
      <4>7. undeleted' \in SUBSET Ids
        BY <3>2 DEF TypeOK, DelRecord
      <4> QED BY <3>2, <4>3, <4>6, <4>7 DEF TypeOK, DelRecord
    <3> QED BY <2>9, <3>1, <3>2
  <2>10. ASSUME NEW w \in Writers, NEW page \in SUBSET Keys, DelPage(w, page)
         PROVE  TypeOK'
    <3>1. lists' \in [Keys -> Lists]
      BY <2>10, ExcusedType DEF TypeOK, DelPage, Lists
    <3> QED BY <2>10, <3>1 DEF TypeOK, DelPage
  <2>11. ASSUME NEW w \in Writers, ScanDone(w)
         PROVE  TypeOK'
    <3>1. lists' \in [Keys -> Lists]
      BY <2>11, ExcusedType DEF TypeOK, ScanDone
    <3> QED BY <2>11, <3>1 DEF TypeOK, ScanDone
  <2>12. ASSUME NEW k \in Keys, ExpireList(k)
         PROVE  TypeOK'
    BY <2>12 DEF TypeOK, ExpireList, Lists
  <2>13. ASSUME NEW i \in Ids, ExpireRecord(i)
         PROVE  TypeOK'
    BY <2>13 DEF TypeOK, ExpireRecord
  <2>14. CASE UNCHANGED vars
    BY <2>14 DEF TypeOK, vars
  <2> QED
    BY <2>1, <2>2, <2>3, <2>4, <2>6, <2>7, <2>8, <2>9, <2>10, <2>11,
       <2>12, <2>13, <2>14 DEF Next, Reader, Writer
<1> QED BY <1>1, <1>2, PTL DEF Spec

-----------------------------------------------------------------------------
(***************************************************************************)
(* Staleness.  Inductive together with what a reader holds between the     *)
(* backend and the cache: old data only if it knows itself raced.          *)
(***************************************************************************)
SnapOldOnlyIfRaced ==
  \A r \in Readers :
    at[r] = "set" /\ snap[r] # Answer(query[r], db) => raced[r]

\* Only write-behind buffers anything.
NothingBuffered == strategy # "write_behind" => buffered = <<>>

\* Unless writes are buffered, a cached list is stale only while its invalidation is
\* under way, or because its reader raced a write or Redis failed: for any
\* number of concurrent readers and writers.
THEOREM StalenessIsAccountedFor == Spec => []StaleOnlyIfOwedOrExcused
<1> USE EntityCacheAssumption DEF EntityCacheAssumption
<1>0. [Next]_vars => strategy' = strategy
  BY DEF Next, Ask, Reader, GetList, QueryBackend, SetList, BufferWrite,
         WriteRecord, Writer, SetRecord, DelRecord, DelPage, ScanDone,
         FlushItem, ExpireList, ExpireRecord, vars
<1>1. Init => /\ NothingBuffered
              /\ SnapOldOnlyIfRaced
              /\ StaleOnlyIfOwedOrExcused
  BY DEF Init, NothingBuffered, SnapOldOnlyIfRaced, StaleOnlyIfOwedOrExcused,
         Stale
<1>2. NothingBuffered /\ [Next]_vars => NothingBuffered'
  BY <1>0 DEF NothingBuffered, Next, Ask, Reader, GetList, QueryBackend,
         SetList, BufferWrite, WriteRecord, Writer, SetRecord, DelRecord, DelPage,
         ScanDone, FlushItem, ExpireList, ExpireRecord, backend, vars
<1>3. TypeOK /\ SnapOldOnlyIfRaced /\ [Next]_vars => SnapOldOnlyIfRaced'
  <2> SUFFICES ASSUME TypeOK, SnapOldOnlyIfRaced, [Next]_vars
               PROVE  SnapOldOnlyIfRaced'
    OBVIOUS
  <2>1. ASSUME UNCHANGED <<db, query, snap, raced>>,
               \A r \in Readers : at'[r] = "set" => at[r] = "set"
        PROVE  SnapOldOnlyIfRaced'
    BY <2>1 DEF SnapOldOnlyIfRaced, Answer
  <2>2. ASSUME NEW r \in Readers, NEW q \in Queries, NEW p \in Policies,
               Ask(r, q, p)
        PROVE  SnapOldOnlyIfRaced'
    <3>1. /\ UNCHANGED <<db, snap, raced>> /\ at'[r] # "set"
          /\ \A s \in Readers \ {r} : at'[s] = at[s] /\ query'[s] = query[s]
      BY <2>2 DEF TypeOK, Ask, Go, backend
    <3> QED BY <3>1 DEF SnapOldOnlyIfRaced, Answer
  <2>3. ASSUME NEW r \in Readers, GetList(r) \/ SetList(r)
        PROVE  SnapOldOnlyIfRaced'
    <3>1. UNCHANGED <<db, query, snap, raced>>
      BY <2>3 DEF GetList, SetList, backend
    <3>2. \A s \in Readers : at'[s] = "set" => at[s] = "set"
      BY <2>3 DEF TypeOK, GetList, SetList, Go, Serve
    <3> QED BY <2>1, <3>1, <3>2
  <2>4. ASSUME NEW r \in Readers, QueryBackend(r)
        PROVE  SnapOldOnlyIfRaced'
    <3>1. /\ UNCHANGED <<db, query>>
          /\ \A s \in Readers \ {r} : /\ at'[s] = at[s]
                                      /\ snap'[s] = snap[s]
                                      /\ raced'[s] = raced[s]
      BY <2>4 DEF TypeOK, QueryBackend, Go, Serve, backend
    <3>2. at'[r] = "set" => snap'[r] = Answer(query[r], db)
      BY <2>4 DEF TypeOK, QueryBackend, Go, Serve
    <3> QED BY <3>1, <3>2 DEF SnapOldOnlyIfRaced, Answer
  <2>5. ASSUME NEW w \in Writers, NEW i \in Ids,
               NEW op \in {"create", "update", "delete"}, WriteRecord(w, i, op)
        PROVE  SnapOldOnlyIfRaced'
    <3>1. \A r \in Readers : at'[r] = "set" => raced'[r]
      BY <2>5 DEF TypeOK, WriteRecord, Commit, Go
    <3> QED BY <3>1 DEF SnapOldOnlyIfRaced
  <2>6. ASSUME NEW i \in Ids, NEW op \in {"create", "update", "delete"},
               BufferWrite(i, op)
        PROVE  SnapOldOnlyIfRaced'
    BY <2>1, <2>6 DEF BufferWrite, reader
  <2>7. CASE FlushItem
    <3>1. UNCHANGED <<at, query, snap>>
      BY <2>7 DEF FlushItem
    <3>2. CASE Commit(Head(buffered)[1], Head(buffered)[2])
      <4>1. \A r \in Readers : at[r] = "set" => raced'[r]
        BY <3>2 DEF Commit
      <4> QED BY <3>1, <4>1 DEF SnapOldOnlyIfRaced
    <3>3. CASE UNCHANGED <<db, writes, raced>>
      BY <2>1, <3>1, <3>3
    <3> QED BY <2>7, <3>2, <3>3 DEF FlushItem
  <2>8. ASSUME NEW w \in Writers, Writer(w)
        PROVE  SnapOldOnlyIfRaced'
    <3>1. UNCHANGED <<db, query, snap, raced>>
      BY <2>8 DEF Writer, SetRecord, DelRecord, DelPage, ScanDone, reader,
                  backend
    <3>2. \A s \in Readers : at'[s] = at[s]
      BY <2>8 DEF TypeOK, Writer, SetRecord, DelRecord, DelPage, ScanDone, Go
    <3> QED BY <2>1, <3>1, <3>2
  <2>9. ASSUME \/ \E k \in Keys : ExpireList(k)
               \/ \E i \in Ids : ExpireRecord(i)
               \/ UNCHANGED vars
        PROVE  SnapOldOnlyIfRaced'
    BY <2>1, <2>9 DEF ExpireList, ExpireRecord, reader, backend, vars
  <2> QED
    BY <2>2, <2>3, <2>4, <2>5, <2>6, <2>7, <2>8, <2>9 DEF Next, Reader
<1>4. /\ TypeOK /\ NothingBuffered /\ SnapOldOnlyIfRaced
      /\ StaleOnlyIfOwedOrExcused /\ [Next]_vars
      => StaleOnlyIfOwedOrExcused'
  <2> SUFFICES ASSUME TypeOK, NothingBuffered, SnapOldOnlyIfRaced,
                      StaleOnlyIfOwedOrExcused, [Next]_vars,
                      strategy # "write_behind", NEW k \in Keys, Stale(k)'
               PROVE  Owed(k)' \/ lists'[k].excused
    BY <1>0 DEF StaleOnlyIfOwedOrExcused
  <2>1. ASSUME lists'[k] = lists[k], db' = db, Owed(k) => Owed(k)'
        PROVE  Owed(k)' \/ lists'[k].excused
    BY <2>1 DEF StaleOnlyIfOwedOrExcused, Stale, Answer
  <2>2. ASSUME NEW r \in Readers, NEW q \in Queries, NEW p \in Policies,
               Ask(r, q, p)
        PROVE  Owed(k)' \/ lists'[k].excused
    <3>1. UNCHANGED <<lists, db, todo>> /\ \A w \in Writers : at'[w] = at[w]
      BY <2>2 DEF TypeOK, Ask, Go, backend, redis, writer
    <3> QED BY <2>1, <3>1 DEF Owed
  <2>3. ASSUME NEW r \in Readers, GetList(r) \/ QueryBackend(r)
        PROVE  Owed(k)' \/ lists'[k].excused
    <3>1. UNCHANGED <<lists, db, todo>> /\ \A w \in Writers : at'[w] = at[w]
      BY <2>3 DEF TypeOK, GetList, QueryBackend, Serve, Go, backend, redis,
                  writer
    <3> QED BY <2>1, <3>1 DEF Owed
  <2>4. ASSUME NEW r \in Readers, SetList(r)
        PROVE  Owed(k)' \/ lists'[k].excused
    <3>1. /\ UNCHANGED <<db, todo>> /\ at[r] = "set"
          /\ \A w \in Writers : at'[w] = at[w]
      BY <2>4 DEF TypeOK, SetList, Serve, Go, backend, writer
    <3>2. CASE lists'[k] = lists[k]
      BY <2>1, <3>1, <3>2 DEF Owed
    <3>3. CASE lists'[k] = [query |-> query[r], data |-> snap[r],
                            excused |-> raced[r]]
      <4>1. snap[r] # Answer(query[r], db)
        BY <3>1, <3>3 DEF Stale, Answer
      <4> QED BY <3>1, <3>3, <4>1 DEF SnapOldOnlyIfRaced
    <3> QED BY <2>4, <3>2, <3>3 DEF TypeOK, SetList
  <2>5. ASSUME NEW w \in Writers, NEW i \in Ids,
               NEW op \in {"create", "update", "delete"}, WriteRecord(w, i, op)
        PROVE  Owed(k)' \/ lists'[k].excused
    <3>1. at'[w] \in {"cache", "record"}
      BY <2>5 DEF TypeOK, WriteRecord, Go
    <3> QED BY <3>1 DEF Owed
  <2>6. ASSUME NEW i \in Ids, NEW op \in {"create", "update", "delete"},
               BufferWrite(i, op)
        PROVE  Owed(k)' \/ lists'[k].excused
    BY <2>6 DEF BufferWrite
  <2>7. CASE FlushItem
    BY <2>7 DEF FlushItem, NothingBuffered
  <2>8. ASSUME NEW w \in Writers, SetRecord(w) \/ DelRecord(w)
        PROVE  Owed(k)' \/ lists'[k].excused
    <3>1. at'[w] = "record" \/ (at'[w] = "scan" /\ k \in todo'[w])
      BY <2>8 DEF TypeOK, SetRecord, DelRecord, ScannedKeys, Go
    <3> QED BY <3>1 DEF Owed
  <2>9. ASSUME NEW w \in Writers, NEW page \in SUBSET Keys, DelPage(w, page)
        PROVE  Owed(k)' \/ lists'[k].excused
    <3>1. /\ db' = db /\ at' = at
          /\ \A v \in Writers \ {w} : todo'[v] = todo[v]
          /\ todo'[w] = todo[w] \ page
      BY <2>9 DEF TypeOK, DelPage, backend
    <3>2. lists'[k] # NoList
      BY DEF Stale
    <3>3. CASE k \notin page
      <4>1. lists'[k] = lists[k]
        BY <2>9, <3>3, ExcusedType DEF TypeOK, DelPage
      <4>2. Owed(k) => Owed(k)'
        BY <3>1, <3>3 DEF Owed
      <4> QED BY <2>1, <3>1, <4>1, <4>2
    <3>4. CASE k \in page
      <4>1. lists' = Excused(page)
        BY <2>9, <3>2, <3>4 DEF DelPage
      <4> QED BY <3>2, <3>4, <4>1, ExcusedType DEF TypeOK
    <3> QED BY <3>3, <3>4
  <2>10. ASSUME NEW w \in Writers, ScanDone(w)
         PROVE  Owed(k)' \/ lists'[k].excused
    <3>1. /\ db' = db /\ at[w] = "scan"
          /\ \A v \in Writers \ {w} : todo'[v] = todo[v] /\ at'[v] = at[v]
      BY <2>10 DEF TypeOK, ScanDone, Go, backend
    <3>2. lists'[k] # NoList
      BY DEF Stale
    <3>3. CASE k \notin todo[w]
      <4>1. lists'[k] = lists[k]
        BY <2>10, <3>3, ExcusedType DEF TypeOK, ScanDone
      <4>2. Owed(k) => Owed(k)'
        BY <3>1, <3>3 DEF Owed
      <4> QED BY <2>1, <3>1, <4>1, <4>2
    <3>4. CASE k \in todo[w]
      <4>1. lists' = Excused(todo[w])
        BY <2>10, <3>4 DEF ScanDone, ScanComplete
      <4> QED BY <3>2, <3>4, <4>1, ExcusedType DEF TypeOK
    <3> QED BY <3>3, <3>4
  <2>11. ASSUME NEW j \in Keys, ExpireList(j)
         PROVE  Owed(k)' \/ lists'[k].excused
    <3>1. UNCHANGED <<db, at, todo>>
      BY <2>11 DEF ExpireList, backend, writer
    <3>2. lists'[k] = lists[k]
      BY <2>11 DEF TypeOK, ExpireList, Stale
    <3> QED BY <2>1, <3>1, <3>2 DEF Owed
  <2>12. ASSUME (\E i \in Ids : ExpireRecord(i)) \/ UNCHANGED vars
         PROVE  Owed(k)' \/ lists'[k].excused
    <3>1. UNCHANGED <<db, at, todo, lists>>
      BY <2>12 DEF ExpireRecord, backend, writer, vars
    <3> QED BY <2>1, <3>1 DEF Owed
  <2> QED
    BY <2>2, <2>3, <2>4, <2>5, <2>6, <2>7, <2>8, <2>9, <2>10, <2>11, <2>12
       DEF Next, Reader, Writer
<1> QED BY <1>0, <1>1, <1>2, <1>3, <1>4, TypeCorrect, PTL DEF Spec

-----------------------------------------------------------------------------
\* A record is cached only until the request that cached it invalidates it, or
\* after Redis failed to delete it: under any interleaving of writers that set
\* and delete the same record.
THEOREM RecordsGoWithTheirWriter == Spec => []RecordsAreTransient
<1> USE EntityCacheAssumption DEF EntityCacheAssumption
<1>1. Init => RecordsAreTransient
  BY DEF Init, RecordsAreTransient
<1>2. TypeOK /\ RecordsAreTransient /\ [Next]_vars => RecordsAreTransient'
  <2> SUFFICES ASSUME TypeOK, RecordsAreTransient, [Next]_vars,
                      NEW i \in Ids, records'[i] # 0, i \notin undeleted'
               PROVE  \E w \in Writers : at'[w] = "record" /\ target'[w] = i
    BY DEF RecordsAreTransient
  <2> USE DEF reader, writer, backend, redis, recordCache, Go
  <2>1. ASSUME UNCHANGED recordCache,
               \A w \in Writers : at[w] = "record"
                                    => at'[w] = "record" /\ target'[w] = target[w]
        PROVE  \E w \in Writers : at'[w] = "record" /\ target'[w] = i
    BY <2>1 DEF RecordsAreTransient
  <2>2. ASSUME NEW r \in Readers, Reader(r) \/ \E q \in Queries, p \in Policies :
                                                 Ask(r, q, p)
        PROVE  \E w \in Writers : at'[w] = "record" /\ target'[w] = i
    <3>1. UNCHANGED <<recordCache, target>> /\ \A w \in Writers : at'[w] = at[w]
      BY <2>2 DEF TypeOK, Reader, Ask, GetList, QueryBackend, SetList, Serve
    <3> QED BY <2>1, <3>1
  <2>3. ASSUME NEW w \in Writers, NEW j \in Ids,
               NEW op \in {"create", "update", "delete"}, WriteRecord(w, j, op)
        PROVE  \E v \in Writers : at'[v] = "record" /\ target'[v] = i
    <3>1. /\ UNCHANGED recordCache /\ at[w] = "idle"
          /\ \A v \in Writers \ {w} : at'[v] = at[v] /\ target'[v] = target[v]
      BY <2>3 DEF TypeOK, WriteRecord
    <3> QED BY <2>1, <3>1
  <2>4. ASSUME NEW w \in Writers, SetRecord(w)
        PROVE  \E v \in Writers : at'[v] = "record" /\ target'[v] = i
    <3>1. /\ UNCHANGED <<undeleted, target>> /\ at'[w] = "record"
          /\ \A v \in Writers \ {w} : at'[v] = at[v]
          /\ target[w] # i => records'[i] = records[i]
      BY <2>4 DEF TypeOK, SetRecord
    <3> QED BY <3>1 DEF RecordsAreTransient
  <2>5. ASSUME NEW w \in Writers, DelRecord(w)
        PROVE  \E v \in Writers : at'[v] = "record" /\ target'[v] = i
    <3>1. /\ UNCHANGED target
          /\ \A v \in Writers \ {w} : at'[v] = at[v]
      BY <2>5 DEF TypeOK, DelRecord
    <3>2. target[w] # i /\ records'[i] = records[i] /\ i \notin undeleted
      BY <2>5 DEF TypeOK, DelRecord
    <3> QED BY <3>1, <3>2 DEF RecordsAreTransient
  <2>6. ASSUME NEW w \in Writers, NEW page \in SUBSET Keys,
               DelPage(w, page) \/ ScanDone(w)
        PROVE  \E v \in Writers : at'[v] = "record" /\ target'[v] = i
    <3>1. /\ UNCHANGED <<recordCache, target>>
          /\ \A v \in Writers : at[v] = "record" => at'[v] = "record"
      BY <2>6 DEF TypeOK, DelPage, ScanDone
    <3> QED BY <2>1, <3>1
  <2>7. ASSUME NEW j \in Ids, ExpireRecord(j)
        PROVE  \E w \in Writers : at'[w] = "record" /\ target'[w] = i
    <3>1. /\ UNCHANGED <<at, target>> /\ i # j /\ records'[i] = records[i]
          /\ i \notin undeleted
      BY <2>7 DEF TypeOK, ExpireRecord
    <3> QED BY <3>1 DEF RecordsAreTransient
  <2>8. ASSUME \/ \E j \in Ids, op \in {"create", "update", "delete"} :
                    BufferWrite(j, op)
               \/ FlushItem
               \/ \E k \in Keys : ExpireList(k)
               \/ UNCHANGED vars
        PROVE  \E w \in Writers : at'[w] = "record" /\ target'[w] = i
    <3>1. UNCHANGED <<recordCache, at, target>>
      BY <2>8 DEF BufferWrite, FlushItem, ExpireList, vars
    <3> QED BY <2>1, <3>1
  <2>9. ASSUME NEW w \in Writers, ScanDone(w)
        PROVE  \E v \in Writers : at'[v] = "record" /\ target'[v] = i
    BY <2>6, <2>9
  <2> QED
    BY <2>2, <2>3, <2>4, <2>5, <2>6, <2>7, <2>8, <2>9 DEF Next, Writer
<1> QED BY <1>1, <1>2, TypeCorrect, PTL DEF Spec

-----------------------------------------------------------------------------
(***************************************************************************)
(* The filters.  A list stays under the key it was fetched for, because a  *)
(* reader keeps its query from the backend to the cache.                   *)
(***************************************************************************)

\* The records that the pages under key k select.
Selected(k) == UNION {Window[q] : q \in {p \in Queries : KeyOf[p] = k}}

ListsMatchTheirKey ==
  \A k \in Keys : lists[k] # NoList => DOMAIN lists[k].data \subseteq Selected(k)

SnapsMatchTheirKey ==
  \A r \in Readers :
    at[r] = "set" => DOMAIN snap[r] \subseteq Selected(KeyOf[query[r]])

FiltersInv == ListsMatchTheirKey /\ SnapsMatchTheirKey /\ AnswersTheFilters

LEMMA WindowIsSelected ==
  ASSUME NEW q \in Queries, NEW d
  PROVE  DOMAIN Answer(q, d) \subseteq Selected(KeyOf[q])
BY DEF Answer, Selected

\* Marking a list as excused leaves its data.
LEMMA ExcusedData ==
  ASSUME lists \in [Keys -> Lists], NEW S, NEW k \in Keys
  PROVE  /\ Excused(S)[k] # NoList => lists[k] # NoList
         /\ lists[k] # NoList => Excused(S)[k].data = lists[k].data
<1>1. CASE k \in S /\ lists[k] # NoList
  <2>1. lists[k] \in [query : Queries, data : Answers, excused : BOOLEAN]
    BY <1>1 DEF Lists
  <2>2. Excused(S)[k] = [lists[k] EXCEPT !.excused = TRUE]
    BY <1>1 DEF Excused
  <2> QED BY <1>1, <2>1, <2>2
<1>2. CASE ~(k \in S /\ lists[k] # NoList)
  BY <1>2 DEF Excused
<1> QED BY <1>1, <1>2

\* A request is answered with records its own filters select, whoever filled
\* the cache under its key, and however readers, fills, expiries and
\* invalidations interleave.
THEOREM FiltersAreAnswered == Spec => []AnswersTheFilters
<1> USE EntityCacheAssumption DEF EntityCacheAssumption
<1>1. Init => FiltersInv
  BY DEF Init, FiltersInv, ListsMatchTheirKey, SnapsMatchTheirKey,
         AnswersTheFilters
<1>2. TypeOK /\ TypeOK' /\ FiltersInv /\ [Next]_vars => FiltersInv'
  <2> SUFFICES ASSUME TypeOK, TypeOK', FiltersInv, [Next]_vars
               PROVE  FiltersInv'
    OBVIOUS
  <2> USE DEF reader, writer, backend, redis, recordCache, Go
  <2>a. /\ ListsMatchTheirKey /\ SnapsMatchTheirKey /\ AnswersTheFilters
        /\ lists \in [Keys -> Lists] /\ query \in [Readers -> Queries]
        /\ snap \in [Readers -> Answers]
        /\ at \in [Readers \union Writers ->
               {"idle", "get", "query", "set", "cache", "record", "scan"}]
    BY DEF FiltersInv, TypeOK
  <2>b. ASSUME \A k \in Keys : lists'[k] # NoList =>
                 lists[k] # NoList /\ lists'[k].data = lists[k].data
        PROVE  ListsMatchTheirKey'
    BY <2>a, <2>b DEF ListsMatchTheirKey, Selected
  <2>c. ASSUME UNCHANGED snap,
               \A r \in Readers : at'[r] = "set" =>
                 at[r] = "set" /\ query'[r] = query[r]
        PROVE  SnapsMatchTheirKey'
    BY <2>a, <2>c DEF SnapsMatchTheirKey, Selected
  <2>d. ASSUME UNCHANGED served PROVE AnswersTheFilters'
    BY <2>a, <2>d DEF AnswersTheFilters
  <2>e. ASSUME NEW r \in Readers, NEW q \in Queries, NEW data \in Answers,
               DOMAIN data \subseteq Selected(KeyOf[q]),
               served' = [served EXCEPT ![r] = [query |-> q, data |-> data]]
        PROVE  AnswersTheFilters'
    <3> SUFFICES ASSUME NEW s \in Readers, served'[s] # NoAnswer
                 PROVE  DOMAIN served'[s].data \subseteq
                          Selected(KeyOf[served'[s].query])
      BY DEF AnswersTheFilters, Selected
    <3>1. CASE s = r
      <4>1. served'[r] = [query |-> q, data |-> data]
        BY <2>e DEF TypeOK
      <4> QED BY <2>e, <3>1, <4>1
    <3>2. CASE s # r
      <4>1. served'[s] = served[s]
        BY <2>e, <3>2 DEF TypeOK
      <4> QED BY <2>a, <4>1 DEF AnswersTheFilters, Selected
    <3> QED BY <3>1, <3>2
  <2>1. ASSUME NEW r \in Readers, NEW q \in Queries, NEW p \in Policies,
               Ask(r, q, p)
        PROVE  FiltersInv'
    <3>1. /\ UNCHANGED <<lists, snap>> /\ at'[r] # "set"
          /\ \A s \in Readers \ {r} : at'[s] = at[s] /\ query'[s] = query[s]
      BY <2>1, <2>a DEF Ask
    <3> DEFINE nothing == [i \in {} |-> 0]
    <3>a. nothing \in Answers /\ DOMAIN nothing \subseteq Selected(KeyOf[q])
      BY NothingIsAnAnswer
    <3>b. \/ served' = [served EXCEPT ![r] = NoAnswer]
          \/ served' = [served EXCEPT ![r] = [query |-> q, data |-> nothing]]
      BY <2>1, Zenon DEF Ask
    <3> HIDE DEF nothing
    <3>2. ASSUME served' = [served EXCEPT ![r] = NoAnswer]
          PROVE  AnswersTheFilters'
      <4>1. \A s \in Readers : served'[s] = NoAnswer \/ served'[s] = served[s]
        BY <3>2 DEF TypeOK
      <4> QED BY <2>a, <4>1 DEF AnswersTheFilters
    <3>3. ASSUME served' = [served EXCEPT ![r] = [query |-> q, data |-> nothing]]
          PROVE  AnswersTheFilters'
      BY <2>e, <3>3, <3>a
    <3>4. AnswersTheFilters'
      BY <3>b, <3>2, <3>3
    <3>5. SnapsMatchTheirKey'
      BY <2>c, <3>1
    <3> QED BY <2>b, <3>1, <3>4, <3>5 DEF FiltersInv
  <2>2. ASSUME NEW r \in Readers, GetList(r) PROVE FiltersInv'
    <3> DEFINE k == KeyOf[query[r]]
    <3>1. /\ UNCHANGED <<lists, snap, query>> /\ k \in Keys /\ query[r] \in Queries
          /\ \A s \in Readers : at'[s] = "set" => at[s] = "set"
      BY <2>2, <2>a DEF GetList, Serve
    <3>2. CASE lists[k] # NoList /\ Serve(r, lists[k].data)
      <4>1. /\ lists[k].data \in Answers
            /\ DOMAIN lists[k].data \subseteq Selected(k)
        BY <2>a, <3>1, <3>2 DEF Lists, ListsMatchTheirKey
      <4>2. served' = [served EXCEPT ![r] = [query |-> query[r],
                                             data |-> lists[k].data]]
        BY <3>2 DEF Serve
      <4> QED BY <2>b, <2>c, <2>e, <3>1, <4>1, <4>2 DEF FiltersInv
    <3>3. CASE UNCHANGED served
      BY <2>b, <2>c, <2>d, <3>1, <3>3 DEF FiltersInv
    <3> QED BY <2>2, <3>2, <3>3 DEF GetList
  <2>3. ASSUME NEW r \in Readers, QueryBackend(r) PROVE FiltersInv'
    <3>1. /\ UNCHANGED <<lists, query>> /\ query[r] \in Queries
          /\ \A s \in Readers \ {r} : at'[s] = at[s] /\ snap'[s] = snap[s]
      BY <2>3, <2>a DEF QueryBackend, Serve
    <3>2. CASE snap' = [snap EXCEPT ![r] = Answer(query[r], db)]
               /\ (UNCHANGED served \/ Serve(r, snap'[r]))
      <4>1. /\ snap'[r] = Answer(query[r], db) /\ snap'[r] \in Answers
            /\ DOMAIN snap'[r] \subseteq Selected(KeyOf[query[r]])
        BY <2>a, <3>1, <3>2, AnswerType, WindowIsSelected DEF TypeOK
      <4>2. SnapsMatchTheirKey'
        BY <2>a, <3>1, <4>1 DEF SnapsMatchTheirKey, Selected
      <4>3. CASE Serve(r, snap'[r])
        <5>1. served' = [served EXCEPT ![r] = [query |-> query[r],
                                               data |-> snap'[r]]]
          BY <4>3 DEF Serve
        <5> QED BY <2>b, <2>e, <3>1, <4>1, <4>2, <5>1 DEF FiltersInv
      <4>4. CASE UNCHANGED served
        BY <2>b, <2>d, <3>1, <4>2, <4>4 DEF FiltersInv
      <4> QED BY <3>2, <4>3, <4>4
    <3>3. CASE Go(r, "idle") /\ UNCHANGED <<snap, served>>
      <4>1. \A s \in Readers : at'[s] = "set" => at[s] = "set"
        BY <2>a, <3>3
      <4> QED BY <2>b, <2>c, <2>d, <3>1, <3>3, <4>1 DEF FiltersInv
    <3> QED BY <2>3, <3>2, <3>3 DEF QueryBackend
  <2>4. ASSUME NEW r \in Readers, SetList(r) PROVE FiltersInv'
    <3> DEFINE k == KeyOf[query[r]]
               e == [query |-> query[r], data |-> snap[r], excused |-> raced[r]]
    <3>1. /\ UNCHANGED <<snap, query>> /\ k \in Keys /\ query[r] \in Queries
          /\ at[r] = "set" /\ snap[r] \in Answers
          /\ \A s \in Readers : at'[s] = "set" => at[s] = "set"
          /\ served' = [served EXCEPT ![r] = [query |-> query[r],
                                              data |-> snap[r]]]
      BY <2>4, <2>a DEF SetList, Serve
    <3>2. DOMAIN snap[r] \subseteq Selected(k)
      BY <2>a, <3>1 DEF SnapsMatchTheirKey
    <3>3. ListsMatchTheirKey'
      <4>1. CASE lists' = [lists EXCEPT ![k] = e]
        <5>1. e.data = snap[r]
          OBVIOUS
        <5> HIDE DEF e
        <5>2. \A j \in Keys : lists'[j] = IF j = k THEN e ELSE lists[j]
          BY <2>a, <4>1
        <5> QED BY <2>a, <3>2, <5>1, <5>2 DEF ListsMatchTheirKey, Selected
      <4>2. CASE UNCHANGED lists
        BY <2>b, <4>2
      <4> QED BY <2>4, <4>1, <4>2 DEF SetList
    <3>4. AnswersTheFilters'
      BY <2>e, <3>1, <3>2
    <3> QED BY <2>c, <3>1, <3>3, <3>4 DEF FiltersInv
  <2>5. ASSUME NEW w \in Writers,
               \/ Writer(w)
               \/ \E i \in Ids, op \in {"create", "update", "delete"} :
                    WriteRecord(w, i, op)
        PROVE  FiltersInv'
    <3>1. UNCHANGED <<served, snap, query>> /\ \A s \in Readers : at'[s] = at[s]
      BY <2>5, <2>a DEF Writer, SetRecord, DelRecord, DelPage, ScanDone, WriteRecord
    <3>2. ASSUME NEW k \in Keys, lists'[k] # NoList
          PROVE  lists[k] # NoList /\ lists'[k].data = lists[k].data
      <4>1. CASE UNCHANGED lists
        BY <3>2, <4>1
      <4>2. ASSUME NEW S, lists' = Excused(S)
            PROVE  lists[k] # NoList /\ lists'[k].data = lists[k].data
        BY <2>a, <3>2, <4>2, ExcusedData
      <4>3. ASSUME NEW page \in SUBSET Keys,
                   lists' = [j \in Keys |-> IF j \in page THEN NoList ELSE lists[j]]
            PROVE  lists[k] # NoList /\ lists'[k].data = lists[k].data
        BY <3>2, <4>3
      <4> QED BY <2>5, <4>1, <4>2, <4>3
              DEF Writer, SetRecord, DelRecord, DelPage, ScanDone, WriteRecord
    <3> QED BY <2>b, <2>c, <2>d, <3>1, <3>2 DEF FiltersInv
  <2>6. ASSUME \/ \E i \in Ids, op \in {"create", "update", "delete"} :
                    BufferWrite(i, op)
               \/ FlushItem
               \/ \E k \in Keys : ExpireList(k)
               \/ \E i \in Ids : ExpireRecord(i)
               \/ UNCHANGED vars
        PROVE  FiltersInv'
    <3>1. UNCHANGED <<served, snap, query, at>>
      BY <2>6 DEF BufferWrite, FlushItem, ExpireList, ExpireRecord, vars
    <3>2. \A k \in Keys : lists'[k] # NoList => lists'[k] = lists[k]
      BY <2>6, <2>a DEF BufferWrite, FlushItem, ExpireList, ExpireRecord, vars
    <3> QED BY <2>b, <2>c, <2>d, <3>1, <3>2 DEF FiltersInv
  <2> QED BY <2>1, <2>2, <2>3, <2>4, <2>5, <2>6 DEF Next, Reader
<1>3. FiltersInv => AnswersTheFilters
  BY DEF FiltersInv
<1> QED BY <1>1, <1>2, <1>3, TypeCorrect, PTL DEF Spec
=============================================================================
