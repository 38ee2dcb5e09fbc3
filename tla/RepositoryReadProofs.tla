-------------------------- MODULE RepositoryReadProofs --------------------------
(***************************************************************************)
(* Proofs about what UserRepository replies to readers: lists, users and   *)
(* statistics, on top of RepositoryInv.                                    *)
(*                                                                         *)
(* Rows are only ever appended.  A list that was read from the table, at   *)
(* whatever moment, stays the page of an earlier state of the table, in    *)
(* the hands of a handler and in the cache.                                *)
(***************************************************************************)
EXTENDS UserRepositoryProofs, FiniteSetTheorems

\* PageOf and IsSnapshot with the table as a parameter, so that the same list
\* can be compared with two states of the table.
PageIn(table, n, page) ==
  LET first == page.offset
      size == IF n <= first THEN 0
              ELSE IF n - first < page.limit THEN n - first ELSE page.limit
  IN  [k \in 1..size |-> [id |-> first + k, name |-> table[first + k]]]
SnapshotIn(table, list, page) ==
  \E n \in list.total..Len(table) : list.users = PageIn(table, n, page)

\* Thread t has a whole list in hand.
HasList(t) ==
  \/ pc[t] \in {"fillList", "sadd"}
  \/ pc[t] \in {"release", "reply"} /\ Op(t) = "list" /\ job[t].status = "ok"

\* The lists that handlers have are snapshots; one that has only counted the
\* rows has not counted more than there are.
ListGood(t) ==
  /\ HasList(t) => SnapshotIn(rows, job[t], PageRequested(t))
  /\ pc[t] = "selectPage" => job[t].total <= Len(rows)
ListsAtHand == \A t \in Threads : ListGood(t)

\* So are the lists in the cache.
ListsCached ==
  \A r \in Requests :
    r.op = "list" /\ listCache[ListCacheKey(Page(r))] # Nil =>
      SnapshotIn(rows, listCache[ListCacheKey(Page(r))], Page(r))

SnapshotInv == RepositoryInv /\ ListsAtHand /\ ListsCached

-----------------------------------------------------------------------------
(* Rows and pages                                                          *)

\* A step appends at most one row.
TableGrows ==
  /\ rows' \in Seq(Names) /\ Len(rows) \in Nat /\ Len(rows') \in Nat
  /\ Len(rows) <= Len(rows')
  /\ \A i \in 1..Len(rows) : rows'[i] = rows[i]

LEMMA TableOnlyGrows == RepositoryInv /\ [Next]_vars => TableGrows
  <1> SUFFICES ASSUME RepositoryInv, [Next]_vars PROVE TableGrows
    OBVIOUS
  <1>0. rows \in Seq(Names) /\ Len(rows) \in Nat
    BY RowsAreUsers DEF RepositoryInv, TypeOK
  <1>1. CASE rows' = rows
    BY <1>0, <1>1 DEF TableGrows
  <1>2. ASSUME NEW t \in Threads, Insert(t)
        PROVE  TableGrows
    <2>1. job[t].req.name \in Names
      BY <1>2, RequestFields DEF RepositoryInv, OnItsPath, Insert, LabelsOf, Op
    <2>2. CASE rows' = Append(rows, job[t].req.name)
      BY <1>0, <2>1, <2>2, AppendRow DEF TableGrows
    <2> QED
      BY <1>1, <1>2, <2>2 DEF Insert
  <1>3. \/ rows' = rows
        \/ \E t \in Threads : Insert(t)
    BY DEF Next, vars, sql, Work, Arrive, CountRequest, Acquire, Release, Reply, SetUser, Smembers,
           DelKey, DelIndex, DelTotal, GetUser, SelectUser, FillUser, GetList, CountRows, SelectPage,
           FillList, Sadd, GetTotal, CountTotal, FillTotal, GetCount, Expire, ExpireUser, ExpireList,
           ExpireTotal, Crash
  <1> QED
    BY <1>1, <1>2, <1>3

\* A page that was read from a smaller table is the same page of the first rows
\* of a larger one.
LEMMA SnapshotsStay ==
  ASSUME NEW old \in Seq(Names), NEW new \in Seq(Names), Len(old) <= Len(new),
         \A i \in 1..Len(old) : new[i] = old[i],
         NEW list, list.total \in Nat,
         NEW page, page.limit \in Nat, page.offset \in Nat,
         SnapshotIn(old, list, page)
  PROVE  SnapshotIn(new, list, page)
  <1>1. Len(old) \in Nat /\ Len(new) \in Nat
    BY LenProperties
  <1>2. PICK n \in list.total..Len(old) : list.users = PageIn(old, n, page)
    BY DEF SnapshotIn
  <1> DEFINE first == page.offset
             size == IF n <= first THEN 0
                     ELSE IF n - first < page.limit THEN n - first ELSE page.limit
  <1>3. \A k \in 1..size : first + k \in 1..Len(old)
    BY <1>1, <1>2
  <1>4. \A k \in 1..size : new[first + k] = old[first + k]
    BY <1>3
  <1>5. PageIn(new, n, page) = PageIn(old, n, page)
    BY <1>4 DEF PageIn
  <1>6. n \in list.total..Len(new)
    BY <1>1, <1>2
  <1> QED
    BY <1>2, <1>5, <1>6 DEF SnapshotIn

\* The names of the model for the same.
LEMMA SameSnapshot ==
  ASSUME NEW list, NEW page
  PROVE  IsSnapshot(list, page) <=> SnapshotIn(rows, list, page)
  BY DEF IsSnapshot, SnapshotIn, PageOf, PageIn, Row

\* Equal keys are keys of equal pages.
LEMMA KeyIsPage ==
  ASSUME NEW r \in Requests, NEW s \in Requests, r.op = "list", s.op = "list",
         ListCacheKey(Page(r)) = ListCacheKey(Page(s))
  PROVE  Page(r) = Page(s)
  BY DEF ListCacheKey, Page

-----------------------------------------------------------------------------
(* Lists are snapshots                                                     *)

\* A thread with a list, or on the way to one, works for a list request.
LEMMA ListThread ==
  ASSUME RepositoryInv, NEW t \in Threads,
         HasList(t) \/ pc[t] \in {"getList", "countRows", "selectPage"}
  PROVE  /\ job[t].req \in Requests /\ Op(t) = "list"
         /\ job[t].total \in Nat /\ job[t].users \in Seq(User)
         /\ PageRequested(t).limit \in Nat /\ PageRequested(t).offset \in Nat
         /\ ListCacheKey(PageRequested(t)) \in Keys
  <1>1. job[t] \in Job /\ job[t].req \in Requests /\ pc[t] \in LabelsOf(Op(t))
    BY DEF HasList, RepositoryInv, TypeOK, OnItsPath
  <1>2. Op(t) = "list"
    BY <1>1, RequestFields DEF HasList, LabelsOf, Op
  <1> QED
    BY <1>1, <1>2, PageFields DEF PageRequested, Op, Job

\* A thread that has a list and keeps it keeps a snapshot.
LEMMA ListStays ==
  ASSUME SnapshotInv, TableGrows, NEW t \in Threads,
         HasList(t)' => /\ HasList(t)
                        /\ job'[t].req = job[t].req
                        /\ job'[t].total = job[t].total /\ job'[t].users = job[t].users,
         pc'[t] = "selectPage" => pc[t] = "selectPage" /\ job'[t].total = job[t].total
  PROVE  ListGood(t)'
  <1>1. rows \in Seq(Names) /\ job[t].total \in Nat
    BY DEF SnapshotInv, RepositoryInv, TypeOK, Job
  <1>2. ASSUME HasList(t)'
        PROVE  SnapshotIn(rows, job[t], PageRequested(t))'
    <2>1. SnapshotIn(rows, job[t], PageRequested(t))
      BY <1>2 DEF SnapshotInv, ListsAtHand, ListGood
    <2>2. PageRequested(t).limit \in Nat /\ PageRequested(t).offset \in Nat
      BY <1>2, ListThread DEF SnapshotInv
    <2>3. SnapshotIn(rows', job[t], PageRequested(t))
      BY <1>1, <2>1, <2>2, SnapshotsStay DEF TableGrows
    <2> QED
      BY <1>2, <2>3 DEF SnapshotIn, PageRequested
  <1>3. pc'[t] = "selectPage" => job'[t].total <= Len(rows')
    BY <1>1 DEF SnapshotInv, ListsAtHand, ListGood, TableGrows
  <1> QED
    BY <1>2, <1>3 DEF ListGood

\* A step that caches no list keeps the cached ones snapshots.
LEMMA CacheStays ==
  ASSUME SnapshotInv, TableGrows,
         \A k \in Keys : listCache'[k] \in {listCache[k], Nil}
  PROVE  ListsCached'
  <1> SUFFICES ASSUME NEW r \in Requests, r.op = "list",
                      listCache'[ListCacheKey(Page(r))] # Nil
               PROVE  SnapshotIn(rows', listCache'[ListCacheKey(Page(r))], Page(r))
    BY DEF ListsCached
  <1> DEFINE hit == listCache[ListCacheKey(Page(r))]
  <1>1. /\ Page(r).limit \in Nat /\ Page(r).offset \in Nat
        /\ ListCacheKey(Page(r)) \in Keys
    BY PageFields
  <1>2. listCache'[ListCacheKey(Page(r))] = hit /\ hit # Nil
    BY <1>1
  <1>3. rows \in Seq(Names) /\ hit.total \in Nat
    BY <1>1, <1>2 DEF SnapshotInv, RepositoryInv, TypeOK, Cached
  <1>4. SnapshotIn(rows, hit, Page(r))
    BY <1>2 DEF SnapshotInv, ListsCached
  <1> HIDE DEF hit
  <1>5. SnapshotIn(rows', hit, Page(r))
    BY <1>1, <1>3, <1>4, SnapshotsStay DEF TableGrows
  <1> QED
    BY <1>2, <1>5

\* The steps that read and cache a list: a list from the cache, the count, the
\* page that is read after the count, and the SET.
LEMMA ListWork ==
  ASSUME SnapshotInv, TableGrows, NEW t \in Threads,
         GetList(t) \/ CountRows(t) \/ SelectPage(t) \/ FillList(t) \/ Sadd(t)
  PROVE  ListGood(t)' /\ ListsCached'
  <1> USE DEF Goto, redis, sql
  <1>0. /\ RepositoryInv /\ job \in [Threads -> Job] /\ pc \in [Threads -> Labels]
        /\ job[t] \in Job /\ rows \in Seq(Names) /\ Len(rows) \in Nat
        /\ listCache \in [Keys -> Cached \cup {Nil}]
    BY RowsAreUsers DEF SnapshotInv, RepositoryInv, TypeOK
  <1>1. /\ job[t].req \in Requests /\ Op(t) = "list" /\ job[t].total \in Nat
        /\ PageRequested(t) = Page(job[t].req)
        /\ PageRequested(t).limit \in Nat /\ PageRequested(t).offset \in Nat
        /\ ListCacheKey(PageRequested(t)) \in Keys
    BY <1>0, ListThread
    DEF GetList, CountRows, SelectPage, FillList, Sadd, HasList, PageRequested
  <1>2. CASE GetList(t)
    <2>1. UNCHANGED <<rows, listCache>>
      BY <1>2 DEF GetList
    <2>2. ListsCached'
      BY <2>1, CacheStays
    <2> DEFINE hit == listCache[ListCacheKey(PageRequested(t))]
    <2>3. CASE /\ hit # Nil /\ pc' = [pc EXCEPT ![t] = "reply"]
               /\ job' = [job EXCEPT ![t].total = hit.total, ![t].users = hit.users,
                                     ![t].status = "ok"]
      <3>1. SnapshotIn(rows, hit, Page(job[t].req))
        BY <1>1, <2>3 DEF SnapshotInv, ListsCached, Op
      <3> HIDE DEF hit
      <3>2. /\ job'[t].total = hit.total /\ job'[t].users = hit.users
            /\ job'[t].req = job[t].req /\ pc'[t] = "reply"
        BY <1>0, <2>3 DEF Job
      <3>3. SnapshotIn(rows, job[t], PageRequested(t))'
        BY <2>1, <3>1, <3>2 DEF SnapshotIn, PageRequested
      <3> QED
        BY <2>2, <3>2, <3>3 DEF ListGood
    <2>4. CASE pc' = [pc EXCEPT ![t] = "acquire"]
      BY <1>0, <2>2, <2>4 DEF ListGood, HasList
    <2> QED
      BY <1>2, <2>3, <2>4 DEF GetList
  <1>3. CASE CountRows(t)
    <2>1. UNCHANGED <<rows, listCache>>
      BY <1>3 DEF CountRows
    <2>2. ListsCached'
      BY <2>1, CacheStays
    <2>3. ListGood(t)'
      BY <1>0, <1>3, <2>1 DEF CountRows, SqlError, ListGood, HasList, Job
    <2> QED
      BY <2>2, <2>3
  <1>4. CASE SelectPage(t)
    <2>1. UNCHANGED <<rows, listCache>> /\ pc[t] = "selectPage"
      BY <1>4 DEF SelectPage
    <2>2. ListsCached'
      BY <2>1, CacheStays
    <2>3. CASE /\ job' = [job EXCEPT ![t].users = PageOf(Len(rows), PageRequested(t))]
               /\ pc' = [pc EXCEPT ![t] = "fillList"]
      <3>1. job[t].total <= Len(rows)
        BY <2>1 DEF SnapshotInv, ListsAtHand, ListGood
      <3>2. /\ job'[t].users = PageOf(Len(rows), PageRequested(t))
            /\ job'[t].total = job[t].total /\ job'[t].req = job[t].req
        BY <1>0, <2>3 DEF Job
      <3>3. Len(rows) \in job[t].total..Len(rows)
        BY <1>0, <1>1, <3>1
      <3>4. PageOf(Len(rows), PageRequested(t)) = PageIn(rows, Len(rows), PageRequested(t))
        BY DEF PageOf, PageIn, Row
      <3>5. SnapshotIn(rows, job[t], PageRequested(t))'
        BY <2>1, <3>2, <3>3, <3>4 DEF SnapshotIn, PageRequested
      <3> QED
        BY <1>0, <2>2, <2>3, <3>5 DEF ListGood
    <2>4. CASE SqlError(t, "internal")
      BY <1>0, <2>2, <2>4 DEF SqlError, ListGood, HasList, Job
    <2> QED
      BY <1>4, <2>3, <2>4 DEF SelectPage
  <1>5. CASE FillList(t)
    <2> DEFINE c == [total |-> job[t].total, users |-> job[t].users]
               k == ListCacheKey(PageRequested(t))
    <2>1. /\ UNCHANGED <<rows, job>> /\ pc[t] = "fillList" /\ pc' = [pc EXCEPT ![t] = "sadd"]
          /\ listCache' \in {listCache, [listCache EXCEPT ![k] = c]}
      BY <1>5 DEF FillList
    <2>2. ListGood(t)'
      BY <1>0, <2>1, ListStays DEF HasList
    <2>3. SnapshotIn(rows, c, PageRequested(t))
      <3>1. SnapshotIn(rows, job[t], PageRequested(t))
        BY <2>1 DEF SnapshotInv, ListsAtHand, ListGood, HasList
      <3> QED
        BY <3>1 DEF SnapshotIn
    <2> HIDE DEF c
    <2>4. CASE listCache' = listCache
      BY <2>2, <2>4, CacheStays
    <2>5. CASE listCache' = [listCache EXCEPT ![k] = c]
      <3> SUFFICES ASSUME NEW r \in Requests, r.op = "list",
                          listCache'[ListCacheKey(Page(r))] # Nil
                   PROVE  SnapshotIn(rows', listCache'[ListCacheKey(Page(r))], Page(r))
        BY <2>2 DEF ListsCached
      <3>1. ListCacheKey(Page(r)) \in Keys
        BY PageFields
      <3>2. CASE ListCacheKey(Page(r)) = k
        <4>1. Page(r) = PageRequested(t)
          BY <1>1, <3>2, KeyIsPage DEF Op
        <4> QED
          BY <1>0, <2>1, <2>3, <2>5, <3>1, <3>2, <4>1
      <3>3. CASE ListCacheKey(Page(r)) # k
        <4>1. listCache'[ListCacheKey(Page(r))] = listCache[ListCacheKey(Page(r))]
          BY <1>0, <2>5, <3>1, <3>3
        <4> QED
          BY <2>1, <4>1 DEF SnapshotInv, ListsCached
      <3> QED
        BY <3>2, <3>3
    <2> QED
      BY <2>1, <2>2, <2>4, <2>5
  <1>6. CASE Sadd(t)
    <2>1. /\ UNCHANGED <<rows, listCache>> /\ pc[t] = "sadd"
          /\ pc' = [pc EXCEPT ![t] = "release"]
          /\ job' = [job EXCEPT ![t].status = "ok"]
      BY <1>6 DEF Sadd
    <2>2. ListsCached'
      BY <2>1, CacheStays
    <2>3. ListGood(t)'
      BY <1>0, <2>1, ListStays DEF HasList, Job
    <2> QED
      BY <2>2, <2>3
  <1> QED
    BY <1>2, <1>3, <1>4, <1>5, <1>6

\* The steps of a handler keep the lists snapshots.
LEMMA WorkLists ==
  ASSUME SnapshotInv, TableGrows, NEW t \in Threads, Work(t)
  PROVE  ListsAtHand' /\ ListsCached'
  <1>0. /\ RepositoryInv /\ pc \in [Threads -> Labels] /\ job \in [Threads -> Job]
        /\ listCache \in [Keys -> Cached \cup {Nil}] /\ Follows(t)
        /\ job[t].req \in Requests /\ pc[t] \in LabelsOf(Op(t))
    BY WorkFollows DEF SnapshotInv, RepositoryInv, TypeOK, OnItsPath, Follows
  <1>1. \A v \in Threads \ {t} : ListGood(v)'
    BY <1>0, ListStays DEF Follows, HasList, Op
  <1>2. CASE GetList(t) \/ CountRows(t) \/ SelectPage(t) \/ FillList(t) \/ Sadd(t)
    BY <1>1, <1>2, ListWork DEF ListsAtHand
  <1>3. CASE CountRequest(t) \/ Release(t) \/ Reply(t)
    <2>1. HasList(t)' => /\ HasList(t)
                         /\ job'[t].req = job[t].req
                         /\ job'[t].total = job[t].total /\ job'[t].users = job[t].users
      <3>1. CASE CountRequest(t)
        <4>1. CASE pc' = [pc EXCEPT ![t] = AfterCount(job[t].req)]
          <5>1. Op(t) # "stats"
            BY <1>0, <3>1, RequestFields DEF CountRequest, LabelsOf, Op
          <5>2. pc'[t] \in {"acquire", "getUser", "getList"}
            BY <1>0, <4>1, <5>1, NextLabels DEF Op
          <5> QED
            BY <5>2 DEF HasList
        <4>2. CASE /\ job' = [job EXCEPT ![t].status = "invalid"]
                   /\ pc' = [pc EXCEPT ![t] = "reply"]
          <5>1. pc'[t] = "reply" /\ job'[t].status = "invalid"
            BY <1>0, <4>2 DEF Job
          <5> QED
            BY <5>1 DEF HasList
        <4> QED
          BY <3>1, <4>1, <4>2 DEF CountRequest, Goto
      <3>2. CASE Release(t)
        BY <1>0, <3>2 DEF Release, Goto, HasList, Op
      <3>3. CASE Reply(t)
        BY <1>0, <3>3 DEF Reply, Goto, HasList
      <3> QED
        BY <1>3, <3>1, <3>2, <3>3
    <2>2. pc'[t] # "selectPage"
      <3>1. CountRequest(t) => Op(t) # "stats"
        BY <1>0, RequestFields DEF CountRequest, LabelsOf, Op
      <3>2. Op(t) # "stats" => AfterCount(job[t].req) # "selectPage"
        BY <1>0, NextLabels DEF Op
      <3> QED
        BY <1>0, <1>3, <3>1, <3>2 DEF CountRequest, Release, Reply, Goto
    <2>3. ListGood(t)'
      BY <2>1, <2>2, ListStays
    <2>4. ListsCached'
      BY <1>3, CacheStays DEF CountRequest, Release, Reply, redis
    <2> QED
      BY <1>1, <2>3, <2>4 DEF ListsAtHand
  <1>4. CASE \/ Insert(t) \/ SetUser(t) \/ Smembers(t) \/ DelKey(t) \/ DelIndex(t) \/ DelTotal(t)
             \/ GetUser(t) \/ SelectUser(t) \/ FillUser(t)
             \/ GetTotal(t) \/ CountTotal(t) \/ FillTotal(t) \/ GetCount(t)
    <2>1. Op(t) # "list"
      BY <1>0, <1>4 DEF Insert, SetUser, Smembers, DelKey, DelIndex, DelTotal, GetUser,
         SelectUser, FillUser, GetTotal, CountTotal, FillTotal, GetCount, LabelsOf
    <2>2. ~HasList(t)' /\ pc'[t] # "selectPage"
      BY <1>0, <2>1, RequestFields DEF Follows, HasList, LabelsOf, Op
    <2>3. ListGood(t)'
      BY <2>2 DEF ListGood
    <2>4. \A k \in Keys : listCache'[k] \in {listCache[k], Nil}
      BY <1>0, <1>4 DEF Insert, SetUser, Smembers, DelKey, DelIndex, DelTotal, GetUser,
         SelectUser, FillUser, GetTotal, CountTotal, FillTotal, GetCount, redis
    <2> QED
      BY <1>1, <2>3, <2>4, CacheStays DEF ListsAtHand
  <1> QED
    BY <1>2, <1>3, <1>4 DEF Work

\* New requests, connections, expiry and crashes neither read nor cache lists.
LEMMA OthersLists ==
  ASSUME SnapshotInv, TableGrows,
         \/ \E t \in Threads : Acquire(t) \/ \E r \in Requests : Arrive(t, r)
         \/ Expire \/ Crash \/ UNCHANGED vars
  PROVE  ListsAtHand' /\ ListsCached'
  <1>0. /\ RepositoryInv /\ pc \in [Threads -> Labels] /\ job \in [Threads -> Job]
        /\ listCache \in [Keys -> Cached \cup {Nil}]
    BY DEF SnapshotInv, RepositoryInv, TypeOK
  <1>1. \A k \in Keys : listCache'[k] \in {listCache[k], Nil}
    BY <1>0 DEF Acquire, Arrive, Expire, ExpireUser, ExpireList, ExpireTotal, Crash, redis, vars
  <1> DEFINE GoesOn(v) ==
               /\ HasList(v)' => HasList(v) /\ job'[v] = job[v]
               /\ pc'[v] = "selectPage" => pc[v] = "selectPage" /\ job'[v] = job[v]
  <1>2. ASSUME NEW v \in Threads
        PROVE  GoesOn(v)
    <2>1. ASSUME NEW t \in Threads, Acquire(t)
          PROVE  GoesOn(v)
      <3>1. AfterAcquire(Op(t)) \in {"insert", "selectUser", "countRows", "countTotal"}
        BY <1>0, <2>1, NextLabels DEF Acquire, RepositoryInv, OnItsPath, Op
      <3> QED
        BY <1>0, <2>1, <3>1 DEF Acquire, Goto, HasList, Op
    <2>2. ASSUME NEW t \in Threads, NEW r \in Requests, Arrive(t, r)
          PROVE  GoesOn(v)
      BY <1>0, <2>2 DEF Arrive, Goto, HasList, Op
    <2>3. CASE Expire \/ UNCHANGED vars
      BY <2>3 DEF Expire, ExpireUser, ExpireList, ExpireTotal, vars, HasList, Op
    <2>4. CASE Crash
      BY <2>4 DEF Crash, HasList
    <2> QED
      BY <2>1, <2>2, <2>3, <2>4
  <1>3. \A v \in Threads : ListGood(v)'
    BY <1>2, ListStays
  <1> QED
    BY <1>1, <1>3, CacheStays DEF ListsAtHand

\* No thread has a list and no list is cached when the server starts for the
\* first time.
LEMMA InitSnapshotInv == Init => SnapshotInv
  <1> SUFFICES ASSUME Init PROVE SnapshotInv
    OBVIOUS
  <1>1. ListsAtHand
    BY DEF Init, ListsAtHand, ListGood, HasList
  <1>2. ListsCached
    BY PageFields DEF Init, ListsCached
  <1> QED
    BY <1>1, <1>2, InitRepositoryInv DEF SnapshotInv

LEMMA NextKeepsSnapshotInv == SnapshotInv /\ [Next]_vars => SnapshotInv'
  <1> SUFFICES ASSUME SnapshotInv, [Next]_vars PROVE SnapshotInv'
    OBVIOUS
  <1>1. RepositoryInv /\ TableGrows
    BY TableOnlyGrows DEF SnapshotInv
  <1>2. RepositoryInv'
    BY <1>1, NextKeepsRepositoryInv
  <1>3. ListsAtHand' /\ ListsCached'
    BY <1>1, WorkLists, OthersLists DEF Next
  <1> QED
    BY <1>2, <1>3 DEF SnapshotInv

\* The lists at hand and in the cache are snapshots in every state.
THEOREM SnapshotInvariant == Spec => []SnapshotInv
  BY InitSnapshotInv, NextKeepsSnapshotInv, PTL DEF Spec

\* Every list that is replied or cached is a page that the table once had,
\* with the count of that moment or of an earlier one: whatever fails, however
\* many threads write between the two statements, and however long it is
\* cached.
THEOREM ListsAreTrue == Spec => []ListsAreSnapshots
  <1>1. SnapshotInv => ListsAreSnapshots
    <2> SUFFICES ASSUME SnapshotInv PROVE ListsAreSnapshots
      OBVIOUS
    <2>1. \A t \in Threads : Answered(t, "list") => IsSnapshot(job[t], PageRequested(t))
      BY SameSnapshot DEF SnapshotInv, ListsAtHand, ListGood, HasList, Answered
    <2>2. \A r \in Requests : r.op = "list" =>
            LET hit == listCache[ListCacheKey(Page(r))]
            IN  hit # Nil => IsSnapshot(hit, Page(r))
      BY SameSnapshot DEF SnapshotInv, ListsCached
    <2> QED
      BY <2>1, <2>2 DEF ListsAreSnapshots
  <1> QED
    BY <1>1, SnapshotInvariant, PTL

-----------------------------------------------------------------------------
(* Users are found                                                         *)

\* What GetUser is about to reply: the row, or that there is none.  A user that
\* the client knows of is reported missing only when a statement failed.
GetGood(t) ==
  pc[t] \in {"release", "reply"} /\ Op(t) = "get" =>
    \/ /\ job[t].status = "ok"
       /\ job[t].req.id \in 1..Len(rows) /\ job[t].user = Row(job[t].req.id)
    \/ /\ job[t].status \in {"invalid", "not_found"}
       /\ SqlFaults \/ job[t].req.id \notin job[t].known

\* Clients know only of users that are in the table.
KnownGood(t) == job[t].known \subseteq 1..Len(rows)

FoundInv ==
  RepositoryInv /\ \A t \in Threads : GetGood(t) /\ KnownGood(t)

\* Requests remember what was known when they arrived.
LEMMA KnownStays ==
  ASSUME RepositoryInv, NEW t \in Threads, Work(t)
  PROVE  job'[t].known \in {job[t].known, {}}
  <1>0. job \in [Threads -> Job] /\ job[t] \in Job
    BY DEF RepositoryInv, TypeOK
  <1>1. CASE Reply(t)
    BY <1>0, <1>1 DEF Reply, NoJob
  <1>2. CASE CountRequest(t) \/ Release(t) \/ Insert(t) \/ SetUser(t) \/ Smembers(t)
    BY <1>0, <1>2 DEF CountRequest, Release, Insert, SetUser, Smembers, SqlError, Job
  <1>3. CASE DelKey(t) \/ DelIndex(t) \/ DelTotal(t)
    BY <1>0, <1>3 DEF DelKey, DelIndex, DelTotal, Job
  <1>4. CASE GetUser(t) \/ SelectUser(t) \/ FillUser(t)
    BY <1>0, <1>4 DEF GetUser, SelectUser, FillUser, SqlError, Job
  <1>5. CASE GetList(t) \/ CountRows(t) \/ SelectPage(t) \/ FillList(t) \/ Sadd(t)
    BY <1>0, <1>5 DEF GetList, CountRows, SelectPage, FillList, Sadd, SqlError, Job
  <1>6. CASE GetTotal(t) \/ CountTotal(t) \/ FillTotal(t)
    BY <1>0, <1>6 DEF GetTotal, CountTotal, FillTotal, SqlError, Job
  <1>7. CASE GetCount(t)
    BY <1>0, <1>7 DEF GetCount, Job
  <1> QED
    BY <1>1, <1>2, <1>3, <1>4, <1>5, <1>6, <1>7 DEF Work

\* A thread that does not get on with its request keeps what it has.
LEMMA FoundStays ==
  ASSUME FoundInv, TableGrows, NEW t \in Threads,
         job'[t].known \in {job[t].known, {}},
         pc'[t] \in {"release", "reply"} /\ Op(t)' = "get" =>
           pc[t] \in {"release", "reply"} /\ job'[t] = job[t]
  PROVE  GetGood(t)' /\ KnownGood(t)'
  <1>1. KnownGood(t)'
    BY DEF FoundInv, KnownGood, TableGrows
  <1>2. ASSUME pc'[t] \in {"release", "reply"}, Op(t)' = "get"
        PROVE  GetGood(t)'
    <2>1. job'[t] = job[t] /\ pc[t] \in {"release", "reply"} /\ Op(t) = "get"
      BY <1>2 DEF Op
    <2>2. \A i \in 1..Len(rows) : i \in 1..Len(rows') /\ Row(i)' = Row(i)
      BY DEF TableGrows, Row
    <2>3. GetGood(t)
      BY DEF FoundInv
    <2>4. CASE job[t].status = "ok"
      <3>1. job[t].req.id \in 1..Len(rows) /\ job[t].user = Row(job[t].req.id)
        BY <2>1, <2>3, <2>4 DEF GetGood
      <3> QED
        BY <2>1, <2>2, <2>4, <3>1 DEF GetGood, Row
    <2>5. CASE job[t].status # "ok"
      BY <2>1, <2>3, <2>5 DEF GetGood
    <2> QED
      BY <2>4, <2>5
  <1> QED
    BY <1>1, <1>2 DEF GetGood

\* The steps of a handler keep the users to reply true.
LEMMA WorkFound ==
  ASSUME FoundInv, TableGrows, NEW t \in Threads, Work(t)
  PROVE  \A v \in Threads : GetGood(v)' /\ KnownGood(v)'
  <1>0. /\ RepositoryInv /\ pc \in [Threads -> Labels] /\ job \in [Threads -> Job]
        /\ Len(rows) \in Nat /\ Len(rows') \in Nat
        /\ Follows(t) /\ job[t] \in Job
        /\ job[t].req \in Requests /\ pc[t] \in LabelsOf(Op(t))
        /\ GetGood(t) /\ KnownGood(t) /\ job'[t].known \in {job[t].known, {}}
    BY WorkFollows, KnownStays DEF FoundInv, RepositoryInv, TypeOK, OnItsPath, Follows, TableGrows
  <1>1. \A v \in Threads \ {t} : GetGood(v)' /\ KnownGood(v)'
    BY <1>0, FoundStays DEF Follows, Op
  <1>2. KnownGood(t)'
    BY <1>0 DEF KnownGood, TableGrows
  <1> SUFFICES ASSUME pc'[t] \in {"release", "reply"}, Op(t) = "get"
               PROVE  GetGood(t)'
    BY <1>0, <1>1, <1>2 DEF GetGood, Follows, Op
  <1>3. job[t].req.id \in Ids \cup {EmptyId} /\ job'[t].req = job[t].req
    BY <1>0, RequestFields DEF Follows, Op
  <1>4. CASE CountRequest(t)
    <2>1. CASE /\ Invalid(job[t].req) /\ job' = [job EXCEPT ![t].status = "invalid"]
      <3>1. job'[t].status = "invalid" /\ job[t].req.id = 0 /\ job'[t].known = job[t].known
        BY <1>0, <2>1 DEF Invalid, Job, Op, EmptyId
      <3> QED
        BY <1>2, <1>3, <3>1 DEF GetGood, KnownGood
    <2>2. CASE pc' = [pc EXCEPT ![t] = AfterCount(job[t].req)]
      BY <1>0, <2>2, NextLabels DEF Op
    <2> QED
      BY <1>4, <2>1, <2>2 DEF CountRequest, Goto
  <1>5. CASE Release(t)
    BY <1>0, <1>5, FoundStays DEF Release, Op
  <1>6. CASE GetUser(t)
    <2>1. /\ UNCHANGED rows /\ job'[t].status = "ok"
          /\ userCache[job[t].req.id] # Nil /\ job'[t].user = userCache[job[t].req.id]
      BY <1>0, <1>6 DEF GetUser, Goto, sql, Job
    <2>2. job[t].req.id \in Ids
      BY <1>0, <1>3, <1>6 DEF GetUser, RepositoryInv, Validated, Invalid, Op
    <2> QED
      BY <1>0, <1>3, <2>1, <2>2 DEF GetGood, RepositoryInv, CachedUsersAreRows, Row
  <1>7. CASE SelectUser(t)
    <2>1. UNCHANGED rows /\ job'[t].status = "not_found"
      BY <1>0, <1>7 DEF SelectUser, SqlError, Goto, sql, Job
    <2>2. SqlFaults \/ job[t].req.id > Len(rows)
      BY <1>0, <1>7 DEF SelectUser, SqlError, Goto
    <2>3. job[t].req.id > Len(rows) => job[t].req.id \notin job'[t].known
      BY <1>0, <1>3, BoundsAssumption DEF KnownGood, Ids, EmptyId
    <2> QED
      BY <1>3, <2>1, <2>2, <2>3 DEF GetGood
  <1>8. CASE FillUser(t)
    <2>1. /\ UNCHANGED rows /\ job'[t].status = "ok" /\ job'[t].user = job[t].user
          /\ pc[t] = "fillUser"
      BY <1>0, <1>8 DEF FillUser, Goto, sql, Job
    <2>2. job[t].req.id \in 1..Len(rows) /\ job[t].user = Row(job[t].req.id)
      BY <2>1 DEF FoundInv, RepositoryInv, UsersAtHand
    <2> QED
      BY <1>3, <2>1, <2>2 DEF GetGood, Row
  <1>9. CASE Reply(t)
    BY <1>0, <1>9 DEF Reply, Goto
  <1> QED
    BY <1>0, <1>4, <1>5, <1>6, <1>7, <1>8, <1>9
    DEF Work, Insert, SetUser, Smembers, DelKey, DelIndex, DelTotal, GetList, CountRows,
        SelectPage, FillList, Sadd, GetTotal, CountTotal, FillTotal, GetCount, LabelsOf

\* A new request knows the users that clients were told of, which are rows.
LEMMA OthersFound ==
  ASSUME FoundInv, TableGrows,
         \/ \E t \in Threads : Acquire(t) \/ \E r \in Requests : Arrive(t, r)
         \/ Expire \/ Crash \/ UNCHANGED vars
  PROVE  \A v \in Threads : GetGood(v)' /\ KnownGood(v)'
  <1>0. /\ RepositoryInv /\ pc \in [Threads -> Labels] /\ job \in [Threads -> Job]
    BY DEF FoundInv, RepositoryInv, TypeOK
  <1>1. ASSUME NEW t \in Threads, Acquire(t)
        PROVE  \A v \in Threads : GetGood(v)' /\ KnownGood(v)'
    <2>1. AfterAcquire(Op(t)) \in {"insert", "selectUser", "countRows", "countTotal"}
      BY <1>0, <1>1, NextLabels DEF Acquire, RepositoryInv, OnItsPath, Op
    <2> QED
      BY <1>0, <1>1, <2>1, FoundStays DEF Acquire, Goto
  <1>2. ASSUME NEW t \in Threads, NEW r \in Requests, Arrive(t, r)
        PROVE  \A v \in Threads : GetGood(v)' /\ KnownGood(v)'
    <2>1. /\ job'[t].known = acked /\ rows' = rows /\ pc'[t] \in {"getTotal", "count"}
          /\ \A v \in Threads \ {t} : pc'[v] = pc[v] /\ job'[v] = job[v]
      BY <1>0, <1>2 DEF Arrive, Goto, sql, NoJob
    <2>2. \A v \in Threads \ {t} : GetGood(v)' /\ KnownGood(v)'
      BY <2>1, FoundStays DEF Op
    <2>3. GetGood(t)' /\ KnownGood(t)'
      BY <1>0, <2>1 DEF GetGood, KnownGood, RepositoryInv, InsertedRows
    <2> QED
      BY <2>2, <2>3
  <1>3. CASE Expire \/ UNCHANGED vars
    BY <1>3, FoundStays DEF Expire, ExpireUser, ExpireList, ExpireTotal, vars
  <1>4. CASE Crash
    BY <1>4, FoundStays DEF Crash, NoJob
  <1> QED
    BY <1>1, <1>2, <1>3, <1>4

\* Users that are known are in the table, in every state.
THEOREM FoundInvariant == Spec => []FoundInv
  <1>1. Init => FoundInv
    BY InitRepositoryInv DEF Init, FoundInv, GetGood, KnownGood, NoJob
  <1>2. FoundInv /\ [Next]_vars => FoundInv'
    BY TableOnlyGrows, NextKeepsRepositoryInv, WorkFound, OthersFound DEF FoundInv, Next
  <1> QED
    BY <1>1, <1>2, PTL DEF Spec

\* A user that a client was told of is found from then on, with its data: by
\* every thread, from the cache or the table, after any crash and any failed
\* Redis command.  Only a failed SELECT stands in the way, which is reported as
\* NOT_FOUND; the assumption rules it out.
THEOREM UsersAreFound ==
  ASSUME ~SqlFaults
  PROVE  Spec => []UserReadAfterWrite
  <1>1. FoundInv => UserReadAfterWrite
    BY DEF FoundInv, GetGood, UserReadAfterWrite
  <1> QED
    BY <1>1, FoundInvariant, PTL

-----------------------------------------------------------------------------
(* What is read after a write                                              *)

\* GetStats and ListUsers may reply old numbers, but there are only a few ways
\* to that.  The conditions below name them, at the steps where they happen; as
\* long as none has happened, the replies count every user that the client was
\* told of before, for any number of threads, whatever else fails.

\* Thread t has created a user and has still to tell the client.
Created(t) == pc[t] \in {"release", "reply"} /\ Op(t) = "create" /\ job[t].status = "ok"

\* Thread t has the number of users that GetStats replies.
HasTotal(t) ==
  \/ pc[t] \in {"fillTotal", "getCount"}
  \/ pc[t] \in {"release", "reply"} /\ Op(t) = "stats" /\ job[t].status \in {"pending", "ok"}

\* A total of n counts the users that clients were told of, and those that
\* they are about to be told of, whose handler has deleted the cached total.
TotalCounts(n) ==
  /\ acked \subseteq 1..n
  /\ \A t \in Threads : Created(t) => job[t].user.id \in 1..n

\* No step caches a total that was counted before such a user was inserted, and
\* no DEL of the total fails.
TotalKept ==
  \A t \in Threads :
    /\ FillTotal(t) => TotalCounts(job[t].total)
    /\ DelTotal(t) => totalCache' = Nil

TotalsCurrent ==
  /\ totalCache # Nil => TotalCounts(totalCache)
  /\ \A t \in Threads :
       /\ job[t].known \subseteq acked
       /\ HasTotal(t) => job[t].known \subseteq 1..job[t].total
TotalsInv == RepositoryInv /\ TotalsCurrent

\* What a thread has of totals after a step: no more than before.
TotalsRest(t) ==
  /\ job'[t].known \in {job[t].known, {}, acked}
  /\ HasTotal(t)' =>
       HasTotal(t) /\ job'[t].total = job[t].total /\ job'[t].known \in {job[t].known, {}}
  /\ Created(t)' => Created(t) /\ job'[t].user = job[t].user

LEMMA TotalsStay ==
  ASSUME TotalsCurrent, acked' = acked, totalCache' \in {totalCache, Nil},
         \A t \in Threads : TotalsRest(t)
  PROVE  TotalsCurrent'
  <1>1. ASSUME totalCache' # Nil PROVE TotalCounts(totalCache)'
    BY <1>1 DEF TotalsCurrent, TotalCounts, TotalsRest
  <1>2. ASSUME NEW t \in Threads
        PROVE  /\ job'[t].known \subseteq acked
               /\ HasTotal(t)' => job'[t].known \subseteq 1..job'[t].total
    BY DEF TotalsCurrent, TotalsRest
  <1> QED
    BY <1>1, <1>2 DEF TotalsCurrent

\* The steps of a handler, when the total is kept.
LEMMA WorkTotals ==
  ASSUME TotalsInv, TotalKept, NEW t \in Threads, Work(t)
  PROVE  TotalsCurrent'
  <1>0. /\ RepositoryInv /\ TotalsCurrent /\ pc \in [Threads -> Labels]
        /\ job \in [Threads -> Job] /\ job[t] \in Job /\ totalCache \in Nat \cup {Nil}
        /\ Follows(t) /\ job[t].req \in Requests /\ pc[t] \in LabelsOf(Op(t))
        /\ acked \subseteq 1..Len(rows) /\ job'[t].known \in {job[t].known, {}}
    BY WorkFollows, KnownStays
    DEF TotalsInv, RepositoryInv, TypeOK, OnItsPath, InsertedRows, Follows
  <1>1. \A v \in Threads \ {t} : /\ pc'[v] = pc[v] /\ job'[v] = job[v] /\ TotalsRest(v)
                                 /\ Created(v)' = Created(v) /\ HasTotal(v)' = HasTotal(v)
    BY <1>0 DEF Follows, TotalsRest, HasTotal, Created, Op
  <1>2. ASSUME acked' = acked, totalCache' \in {totalCache, Nil}, TotalsRest(t)
        PROVE  TotalsCurrent'
    BY <1>0, <1>1, <1>2, TotalsStay
  <1>3. \A v \in Threads \ {t} : HasTotal(v)' => job'[v].known \subseteq 1..job'[v].total
    BY <1>0, <1>1 DEF TotalsCurrent
  <1>4. CASE Reply(t)
    <2>1. /\ pc'[t] = "out" /\ totalCache' = totalCache
          /\ acked' = acked \/ (Created(t) /\ acked' = acked \cup {job[t].user.id})
      BY <1>0, <1>4 DEF Reply, Goto, redis, Created, Op
    <2>2. ~HasTotal(t)' /\ ~Created(t)'
      BY <2>1 DEF HasTotal, Created
    <2>3. totalCache' # Nil => TotalCounts(totalCache)'
      BY <1>0, <1>1, <2>1, <2>2 DEF TotalsCurrent, TotalCounts
    <2>4. \A v \in Threads : job'[v].known \subseteq acked'
      BY <1>0, <1>1, <2>1 DEF TotalsCurrent
    <2> QED
      BY <1>3, <2>2, <2>3, <2>4 DEF TotalsCurrent
  <1>5. CASE Release(t)
    <2>1. UNCHANGED <<totalCache, acked, job>> /\ pc[t] = "release"
      BY <1>5 DEF Release, redis
    <2>2. /\ pc'[t] = "getCount" => Op(t) = "stats" /\ job[t].status = "pending"
          /\ pc'[t] \in {"getCount", "reply"}
      BY <1>0, <1>5 DEF Release, Goto
    <2>3. TotalsRest(t)
      BY <2>1, <2>2 DEF TotalsRest, HasTotal, Created, Op
    <2> QED
      BY <1>2, <2>1, <2>3
  <1>6. CASE GetTotal(t) \/ CountTotal(t) \/ FillTotal(t) \/ GetCount(t)
    <2>0. Op(t) = "stats"
      BY <1>0, <1>6, RequestFields DEF GetTotal, CountTotal, FillTotal, GetCount, LabelsOf, Op
    <2>1. ~Created(t)' /\ ~Created(t)
      BY <1>0, <2>0 DEF Created, Follows, Op
    <2>2. CASE GetTotal(t)
      <3>1. UNCHANGED <<totalCache, acked>> /\ pc[t] = "getTotal"
        BY <2>2 DEF GetTotal, redis
      <3>2. CASE pc'[t] = "acquire"
        <4>1. TotalsRest(t)
          BY <1>0, <2>1, <3>2 DEF TotalsRest, HasTotal
        <4> QED
          BY <1>2, <3>1, <4>1
      <3>3. CASE totalCache # Nil /\ job'[t].total = totalCache
        <4>1. job'[t].known \subseteq 1..job'[t].total /\ job'[t].known \subseteq acked
          BY <1>0, <3>3 DEF TotalsCurrent, TotalCounts
        <4>2. totalCache' # Nil => TotalCounts(totalCache)'
          BY <1>0, <1>1, <2>1, <3>1 DEF TotalsCurrent, TotalCounts
        <4> QED
          BY <1>0, <1>1, <1>3, <3>1, <4>1, <4>2 DEF TotalsCurrent
      <3> QED
        BY <1>0, <2>2, <3>2, <3>3 DEF GetTotal, Goto, Job
    <2>3. CASE CountTotal(t)
      <3>1. UNCHANGED <<totalCache, acked>> /\ pc[t] = "countTotal"
        BY <2>3 DEF CountTotal, redis
      <3>2. CASE pc'[t] = "release" /\ job'[t].status = "internal"
        <4>1. TotalsRest(t)
          BY <1>0, <2>1, <3>2 DEF TotalsRest, HasTotal
        <4> QED
          BY <1>2, <3>1, <4>1
      <3>3. CASE job'[t].total = Len(rows)
        <4>1. job'[t].known \subseteq 1..job'[t].total /\ job'[t].known \subseteq acked
          BY <1>0, <3>3 DEF TotalsCurrent
        <4>2. totalCache' # Nil => TotalCounts(totalCache)'
          BY <1>0, <1>1, <2>1, <3>1 DEF TotalsCurrent, TotalCounts
        <4> QED
          BY <1>0, <1>1, <1>3, <3>1, <4>1, <4>2 DEF TotalsCurrent
      <3> QED
        BY <1>0, <2>3, <3>2, <3>3 DEF CountTotal, SqlError, Goto, Job
    <2>4. CASE FillTotal(t)
      <3>1. /\ totalCache' \in {totalCache, job[t].total} /\ UNCHANGED <<acked, job>>
            /\ pc[t] = "fillTotal" /\ pc'[t] = "release" /\ TotalCounts(job[t].total)
        BY <1>0, <2>4 DEF FillTotal, Goto, TotalKept
      <3>2. totalCache' # Nil => TotalCounts(totalCache)'
        BY <1>0, <1>1, <2>1, <3>1 DEF TotalsCurrent, TotalCounts
      <3>3. job'[t].known \subseteq 1..job'[t].total /\ job'[t].known \subseteq acked
        BY <1>0, <3>1 DEF TotalsCurrent, HasTotal
      <3> QED
        BY <1>0, <1>1, <1>3, <3>1, <3>2, <3>3 DEF TotalsCurrent
    <2>5. CASE GetCount(t)
      <3>1. /\ UNCHANGED <<totalCache, acked>> /\ pc[t] = "getCount"
            /\ job'[t].total = job[t].total
        BY <1>0, <2>5 DEF GetCount, redis, Job
      <3>2. TotalsRest(t)
        BY <1>0, <2>1, <3>1 DEF TotalsRest, HasTotal
      <3> QED
        BY <1>2, <3>1, <3>2
    <2> QED
      BY <1>6, <2>2, <2>3, <2>4, <2>5
  <1>7. CASE DelTotal(t)
    <2>1. /\ totalCache' = Nil /\ acked' = acked
          /\ Op(t) # "stats"
      BY <1>0, <1>7, RequestFields DEF DelTotal, TotalKept, LabelsOf, Op
    <2>2. ~HasTotal(t)'
      BY <1>0, <2>1, RequestFields DEF Follows, HasTotal, LabelsOf, Op
    <2>3. \A v \in Threads : job'[v].known \subseteq acked'
      BY <1>0, <1>1, <2>1 DEF TotalsCurrent
    <2> QED
      BY <1>3, <2>1, <2>2, <2>3 DEF TotalsCurrent
  <1>8. CASE \/ CountRequest(t) \/ Insert(t) \/ SetUser(t) \/ Smembers(t) \/ DelKey(t)
             \/ DelIndex(t) \/ GetUser(t) \/ SelectUser(t) \/ FillUser(t)
             \/ GetList(t) \/ CountRows(t) \/ SelectPage(t) \/ FillList(t) \/ Sadd(t)
    <2>1. Op(t) # "stats"
      BY <1>0, <1>8, RequestFields DEF CountRequest, Insert, SetUser, Smembers, DelKey, DelIndex,
         GetUser, SelectUser, FillUser, GetList, CountRows, SelectPage, FillList, Sadd,
         LabelsOf, Op
    <2>2. ~HasTotal(t)'
      BY <1>0, <2>1, RequestFields DEF Follows, HasTotal, LabelsOf, Op
    <2>3. acked' = acked /\ totalCache' = totalCache
      BY <1>8 DEF CountRequest, Insert, SetUser, Smembers, DelKey, DelIndex,
         GetUser, SelectUser, FillUser, GetList, CountRows, SelectPage, FillList, Sadd, redis
    <2>4. ~Created(t)'
      <3>1. CASE CountRequest(t)
        <4>1. \/ job'[t].status = "invalid"
              \/ pc'[t] \in {"acquire", "getUser", "getList"}
          BY <1>0, <2>1, <3>1, NextLabels DEF CountRequest, Goto, Job, Op
        <4> QED
          BY <4>1 DEF Created
      <3>2. CASE Insert(t)
        <4>1. pc'[t] = "setUser" \/ job'[t].status = "internal"
          BY <1>0, <3>2 DEF Insert, SqlError, Goto, Job
        <4> QED
          BY <4>1 DEF Created
      <3>3. CASE SetUser(t) \/ Smembers(t) \/ DelKey(t) \/ DelIndex(t)
        BY <1>0, <3>3 DEF SetUser, Smembers, DelKey, DelIndex, Goto, Created
      <3>4. CASE \/ GetUser(t) \/ SelectUser(t) \/ FillUser(t)
                 \/ GetList(t) \/ CountRows(t) \/ SelectPage(t) \/ FillList(t) \/ Sadd(t)
        <4>1. Op(t) # "create"
          BY <1>0, <3>4, RequestFields DEF GetUser, SelectUser, FillUser, GetList, CountRows,
             SelectPage, FillList, Sadd, LabelsOf, Op
        <4> QED
          BY <1>0, <4>1 DEF Created, Follows, Op
      <3> QED
        BY <1>8, <3>1, <3>2, <3>3, <3>4
    <2>5. TotalsRest(t)
      BY <1>0, <2>2, <2>4 DEF TotalsRest
    <2> QED
      BY <1>2, <2>3, <2>5
  <1> QED
    BY <1>4, <1>5, <1>6, <1>7, <1>8 DEF Work

\* A new request, a connection, expiry and a crash bring no number with them.
LEMMA OthersTotals ==
  ASSUME TotalsInv,
         \/ \E t \in Threads : Acquire(t) \/ \E r \in Requests : Arrive(t, r)
         \/ Expire \/ Crash \/ UNCHANGED vars
  PROVE  TotalsCurrent'
  <1>0. /\ pc \in [Threads -> Labels] /\ job \in [Threads -> Job]
        /\ RepositoryInv /\ TotalsCurrent
    BY DEF TotalsInv, RepositoryInv, TypeOK
  <1>1. acked' = acked /\ totalCache' \in {totalCache, Nil}
    BY DEF Acquire, Arrive, Expire, ExpireUser, ExpireList, ExpireTotal, Crash, redis, vars
  <1>2. ASSUME NEW v \in Threads
        PROVE  TotalsRest(v)
    <2>1. ASSUME NEW t \in Threads, Acquire(t)
          PROVE  TotalsRest(v)
      <3>1. AfterAcquire(Op(t)) \in {"insert", "selectUser", "countRows", "countTotal"}
        BY <1>0, <2>1, NextLabels DEF Acquire, RepositoryInv, OnItsPath, Op
      <3> QED
        BY <1>0, <2>1, <3>1 DEF Acquire, Goto, TotalsRest, HasTotal, Created, Op
    <2>2. ASSUME NEW t \in Threads, NEW r \in Requests, Arrive(t, r)
          PROVE  TotalsRest(v)
      BY <1>0, <2>2 DEF Arrive, Goto, TotalsRest, HasTotal, Created, Op, NoJob
    <2>3. CASE Expire \/ UNCHANGED vars
      BY <2>3 DEF Expire, ExpireUser, ExpireList, ExpireTotal, vars, TotalsRest, HasTotal,
         Created, Op
    <2>4. CASE Crash
      BY <2>4 DEF Crash, TotalsRest, HasTotal, Created, NoJob
    <2> QED
      BY <2>1, <2>2, <2>3, <2>4
  <1> QED
    BY <1>0, <1>1, <1>2, TotalsStay

\* A subset of the ids up to n has at most n elements.
LEMMA AtMost ==
  ASSUME NEW n \in Nat, NEW S, S \subseteq 1..n
  PROVE  Cardinality(S) \in Nat /\ Cardinality(S) <= n
  <1>1. IsFiniteSet(1..n)
    BY FS_Interval
  <1>2. Cardinality(1..n) = n
    <2>1. Cardinality(1..n) = IF 1 > n THEN 0 ELSE n - 1 + 1
      BY FS_Interval
    <2> QED
      BY <2>1
  <1>3. IsFiniteSet(S) /\ Cardinality(S) <= Cardinality(1..n)
    BY <1>1, FS_Subset
  <1>4. Cardinality(S) \in Nat
    BY <1>3, FS_CardinalityType
  <1> QED
    BY <1>2, <1>3, <1>4

\* GetStats counts every user that the client was told of before, for any
\* number of threads and through failed statements, failed commands and
\* crashes, until a total is cached that was counted before the INSERT of a
\* user whose DEL is over (user_repository.cpp:238), or that DEL fails.
THEOREM StatsAreCurrent == Spec /\ [][TotalKept]_vars => []StatsReadAfterWrite
  <1>1. Init => TotalsInv
    BY InitRepositoryInv DEF Init, TotalsInv, TotalsCurrent, HasTotal, Created, NoJob
  <1>2. TotalsInv /\ [Next]_vars /\ [TotalKept]_vars => TotalsInv'
    <2> SUFFICES ASSUME TotalsInv, [Next]_vars, [TotalKept]_vars PROVE TotalsInv'
      OBVIOUS
    <2>1. RepositoryInv'
      BY NextKeepsRepositoryInv DEF TotalsInv
    <2>2. TotalsCurrent'
      <3>1. CASE UNCHANGED vars
        BY <3>1, OthersTotals
      <3>2. CASE Next /\ TotalKept
        BY <3>2, WorkTotals, OthersTotals DEF Next
      <3> QED
        BY <3>1, <3>2
    <2> QED
      BY <2>1, <2>2 DEF TotalsInv
  <1>3. TotalsInv => StatsReadAfterWrite
    <2> SUFFICES ASSUME TotalsInv, NEW t \in Threads, Answered(t, "stats")
                 PROVE  job[t].total >= Cardinality(job[t].known)
      BY DEF StatsReadAfterWrite
    <2>1. job[t].known \subseteq 1..job[t].total
      BY DEF TotalsInv, TotalsCurrent, HasTotal, Answered
    <2>2. job[t].total \in Nat
      BY DEF TotalsInv, RepositoryInv, TypeOK, Job
    <2>3. Cardinality(job[t].known) \in Nat /\ Cardinality(job[t].known) <= job[t].total
      BY <2>1, <2>2, AtMost
    <2> QED
      BY <2>2, <2>3
  <1> QED
    BY <1>1, <1>2, <1>3, PTL DEF Spec

\* Thread t has looked up the lists to delete for the user that it has created.
Invalidating(t) == pc[t] \in {"delKeys", "delTotal"} \/ Created(t)
\* The list with key k is one of those that it has still to delete.
Deletes(t, k) == pc[t] = "delKeys" /\ k \in job[t].keys

\* A total of n in the list with key k counts the users that clients were told
\* of, and those whose handler has looked up the lists and deletes this one no
\* more.
ListCounts(k, n) ==
  /\ acked \subseteq 1..n
  /\ \A t \in Threads : Invalidating(t) /\ ~Deletes(t, k) => job[t].user.id \in 1..n

\* No step caches a list that was counted before such a user was inserted;
\* SMEMBERS finds every cached list that does not count the user; and no DEL of
\* a list fails.
ListsKept ==
  \A t \in Threads :
    /\ FillList(t) => ListCounts(ListCacheKey(PageRequested(t)), job[t].total)
    /\ Smembers(t) => \A k \in Keys \ job'[t].keys :
                        listCache[k] # Nil => job[t].user.id \in 1..listCache[k].total
    /\ DelKey(t) => \A k \in job[t].keys \ job'[t].keys : listCache'[k] = Nil

\* Thread t has counted the rows for the list that it replies.
HasCount(t) == HasList(t) \/ pc[t] = "selectPage"

ListsCurrent ==
  /\ \A k \in Keys : listCache[k] # Nil => ListCounts(k, listCache[k].total)
  /\ \A t \in Threads :
       /\ job[t].known \subseteq acked
       /\ HasCount(t) => job[t].known \subseteq 1..job[t].total
ListsInv == RepositoryInv /\ ListsCurrent

\* What a thread has of lists after a step: no more than before.
ListsRest(t) ==
  /\ job'[t].known \in {job[t].known, {}, acked}
  /\ HasCount(t)' =>
       HasCount(t) /\ job'[t].total = job[t].total /\ job'[t].known \in {job[t].known, {}}
  /\ Invalidating(t)' =>
       /\ Invalidating(t) /\ job'[t].user = job[t].user
       /\ \A k \in Keys : Deletes(t, k) => Deletes(t, k)'

LEMMA ListsStay ==
  ASSUME ListsCurrent, acked' = acked, \A t \in Threads : ListsRest(t),
         \A k \in Keys : listCache'[k] \in {listCache[k], Nil}
  PROVE  ListsCurrent'
  <1>1. ASSUME NEW k \in Keys, listCache'[k] # Nil
        PROVE  ListCounts(k, listCache[k].total)'
    <2>1. listCache'[k] = listCache[k] /\ ListCounts(k, listCache[k].total)
      BY <1>1 DEF ListsCurrent
    <2> QED
      BY <2>1 DEF ListCounts, ListsRest
  <1>2. ASSUME NEW t \in Threads
        PROVE  /\ job'[t].known \subseteq acked
               /\ HasCount(t)' => job'[t].known \subseteq 1..job'[t].total
    BY DEF ListsCurrent, ListsRest
  <1> QED
    BY <1>1, <1>2 DEF ListsCurrent

\* The steps of a handler, when the lists are kept.
LEMMA WorkCounts ==
  ASSUME ListsInv, ListsKept, NEW t \in Threads, Work(t)
  PROVE  ListsCurrent'
  <1> USE DEF Goto, redis
  <1>0. /\ RepositoryInv /\ ListsCurrent /\ pc \in [Threads -> Labels]
        /\ job \in [Threads -> Job] /\ job[t] \in Job /\ Len(rows) \in Nat
        /\ listCache \in [Keys -> Cached \cup {Nil}] /\ listIndex \subseteq Keys
        /\ Follows(t) /\ job[t].req \in Requests /\ pc[t] \in LabelsOf(Op(t))
        /\ acked \subseteq 1..Len(rows) /\ job'[t].known \in {job[t].known, {}}
    BY WorkFollows, KnownStays, RowsAreUsers
    DEF ListsInv, RepositoryInv, TypeOK, OnItsPath, InsertedRows, Follows
  <1>1. \A v \in Threads \ {t} :
          /\ pc'[v] = pc[v] /\ job'[v] = job[v] /\ ListsRest(v)
          /\ Created(v)' = Created(v) /\ Invalidating(v)' = Invalidating(v)
          /\ HasCount(v)' = HasCount(v) /\ \A k \in Keys : Deletes(v, k)' = Deletes(v, k)
    BY <1>0 DEF Follows, ListsRest, HasCount, HasList, Invalidating, Deletes, Created, Op
  <1> DEFINE key == ListCacheKey(PageRequested(t))
             Own == /\ job'[t].known \subseteq acked'
                    /\ HasCount(t)' => job'[t].known \subseteq 1..job'[t].total
             Cache == \A k \in Keys : listCache'[k] # Nil => ListCounts(k, listCache[k].total)'
  <1>2. HasList(t) \/ pc[t] \in {"getList", "countRows", "selectPage"} =>
          Op(t) = "list" /\ key \in Keys
    BY <1>0, ListThread
  <1>3. ASSUME acked' = acked, ListsRest(t),
               \A k \in Keys : listCache'[k] \in {listCache[k], Nil}
        PROVE  ListsCurrent'
    BY <1>0, <1>1, <1>3, ListsStay
  <1>4. ASSUME acked \subseteq acked', Own, Cache
        PROVE  ListsCurrent'
    <2>1. \A v \in Threads \ {t} : /\ job'[v].known \subseteq acked'
                                   /\ HasCount(v)' => job'[v].known \subseteq 1..job'[v].total
      BY <1>0, <1>1, <1>4 DEF ListsCurrent
    <2> QED
      BY <1>4, <2>1 DEF ListsCurrent
  \* When t has nothing to invalidate after the step, cached lists stay as good.
  <1>5. ASSUME UNCHANGED <<acked, listCache>>, ~Invalidating(t)'
        PROVE  Cache
    BY <1>0, <1>1, <1>5 DEF ListsCurrent, ListCounts
  <1>6. job'[t].known \subseteq acked
    BY <1>0 DEF ListsCurrent
  <1> HIDE DEF Cache
  <1>7. CASE Reply(t)
    <2>1. /\ listCache' = listCache /\ pc'[t] = "out"
          /\ acked' = acked \/ (Created(t) /\ acked' = acked \cup {job[t].user.id})
      BY <1>0, <1>7 DEF Reply, Created, Op
    <2>2. ~HasCount(t)' /\ ~Invalidating(t)'
      BY <2>1 DEF HasCount, HasList, Created, Invalidating
    <2>3. Cache
      <3> SUFFICES ASSUME NEW k \in Keys, listCache[k] # Nil
                   PROVE  ListCounts(k, listCache[k].total)'
        BY <2>1 DEF Cache
      <3>1. ListCounts(k, listCache[k].total)
        BY <1>0 DEF ListsCurrent
      <3>2. Created(t) => Invalidating(t) /\ ~Deletes(t, k)
        BY DEF Created, Invalidating, Deletes
      <3> QED
        BY <1>1, <2>1, <2>2, <3>1, <3>2 DEF ListCounts
    <2> QED
      BY <1>4, <1>6, <2>1, <2>2, <2>3
  <1>8. CASE CountRows(t)
    <2>1. UNCHANGED <<listCache, acked>> /\ pc[t] = "countRows"
      BY <1>8 DEF CountRows
    <2>2. ~Invalidating(t)'
      BY <1>0, <1>2, <2>1 DEF Invalidating, Created, Follows, LabelsOf, Op
    <2>3. CASE pc'[t] = "release" /\ job'[t].status = "internal"
      <3>1. ListsRest(t)
        BY <1>0, <2>2, <2>3 DEF ListsRest, HasCount, HasList
      <3> QED
        BY <1>3, <2>1, <3>1
    <2>4. CASE job'[t].total = Len(rows)
      BY <1>0, <1>4, <1>5, <1>6, <2>1, <2>2, <2>4
    <2> QED
      BY <1>0, <1>8, <2>3, <2>4 DEF CountRows, SqlError, Job
  <1>9. CASE GetList(t)
    <2>1. UNCHANGED <<listCache, acked>> /\ pc[t] = "getList"
      BY <1>9 DEF GetList
    <2>2. ~Invalidating(t)'
      BY <1>0, <1>2, <2>1 DEF Invalidating, Created, Follows, LabelsOf, Op
    <2>3. CASE listCache[key] # Nil /\ job'[t].total = listCache[key].total
      <3>1. acked \subseteq 1..listCache[key].total
        BY <1>0, <1>2, <2>1, <2>3 DEF ListsCurrent, ListCounts
      <3> QED
        BY <1>4, <1>5, <1>6, <2>1, <2>2, <2>3, <3>1
    <2>4. CASE pc'[t] = "acquire"
      <3>1. ListsRest(t)
        BY <1>0, <2>2, <2>4 DEF ListsRest, HasCount, HasList
      <3> QED
        BY <1>3, <2>1, <3>1
    <2> QED
      BY <1>0, <1>9, <2>3, <2>4 DEF GetList, Job
  <1>10. CASE FillList(t)
    <2> DEFINE c == [total |-> job[t].total, users |-> job[t].users]
    <2>1. /\ listCache' \in {listCache, [listCache EXCEPT ![key] = c]}
          /\ UNCHANGED <<job, acked>> /\ pc[t] = "fillList" /\ pc'[t] = "sadd"
          /\ ListCounts(key, job[t].total)
      BY <1>0, <1>10 DEF FillList, ListsKept
    <2>2. ~Invalidating(t)' /\ c.total = job[t].total /\ HasCount(t)
      BY <2>1 DEF Invalidating, Created, HasCount, HasList
    <2> HIDE DEF c
    <2>3. Cache
      <3> SUFFICES ASSUME NEW k \in Keys, listCache'[k] # Nil
                   PROVE  ListCounts(k, listCache[k].total)'
        BY DEF Cache
      <3>1. ListCounts(k, listCache'[k].total)
        BY <1>0, <2>1, <2>2 DEF ListsCurrent
      <3> QED
        BY <1>1, <2>1, <2>2, <3>1 DEF ListCounts
    <2>4. job[t].known \subseteq 1..job[t].total
      BY <1>0, <2>2 DEF ListsCurrent
    <2> QED
      BY <1>4, <1>6, <2>1, <2>3, <2>4
  <1>11. CASE Smembers(t)
    <2>1. /\ UNCHANGED <<listCache, acked>> /\ pc[t] = "smembers" /\ pc'[t] = "delKeys"
          /\ job'[t].user = job[t].user
      BY <1>0, <1>11 DEF Smembers, Job
    <2>2. ~HasCount(t)'
      BY <2>1 DEF HasCount, HasList
    <2>3. Cache
      <3> SUFFICES ASSUME NEW k \in Keys, listCache[k] # Nil
                   PROVE  ListCounts(k, listCache[k].total)'
        BY <2>1 DEF Cache
      <3>1. k \in job'[t].keys \/ job[t].user.id \in 1..listCache[k].total
        BY <1>11 DEF ListsKept
      <3>2. k \in job'[t].keys => Deletes(t, k)'
        BY <2>1 DEF Deletes
      <3>3. ListCounts(k, listCache[k].total)
        BY <1>0 DEF ListsCurrent
      <3> QED
        BY <1>1, <2>1, <3>1, <3>2, <3>3 DEF ListCounts
    <2> QED
      BY <1>4, <1>6, <2>1, <2>2, <2>3
  <1>12. CASE DelKey(t)
    <2>1. PICK k \in job[t].keys :
            /\ job' = [job EXCEPT ![t].keys = @ \ {k}]
            /\ listCache' \in {listCache, [listCache EXCEPT ![k] = Nil]}
      BY <1>12 DEF DelKey
    <2>2. /\ UNCHANGED <<pc, acked>> /\ pc[t] = "delKeys" /\ k \in Keys
          /\ job'[t].keys = job[t].keys \ {k} /\ job'[t].user = job[t].user
      BY <1>0, <1>12, <2>1 DEF DelKey, Job
    <2>3. listCache'[k] = Nil
      BY <1>12, <2>2 DEF ListsKept
    <2>4. ~HasCount(t)' /\ Invalidating(t)
      BY <2>2 DEF HasCount, HasList, Invalidating
    <2>5. Cache
      <3> SUFFICES ASSUME NEW j \in Keys, listCache'[j] # Nil
                   PROVE  ListCounts(j, listCache[j].total)'
        BY DEF Cache
      <3>1. j # k /\ listCache'[j] = listCache[j]
        BY <1>0, <2>1, <2>3
      <3>2. ListCounts(j, listCache[j].total) /\ (Deletes(t, j) => Deletes(t, j)')
        BY <1>0, <2>2, <3>1 DEF ListsCurrent, Deletes
      <3> QED
        BY <1>1, <2>2, <2>4, <3>1, <3>2 DEF ListCounts
    <2> QED
      BY <1>4, <1>6, <2>2, <2>4, <2>5
  <1>13. CASE \/ CountRequest(t) \/ Release(t) \/ Insert(t) \/ SetUser(t)
              \/ DelIndex(t) \/ DelTotal(t) \/ SelectPage(t) \/ Sadd(t)
              \/ GetUser(t) \/ SelectUser(t) \/ FillUser(t)
              \/ GetTotal(t) \/ CountTotal(t) \/ FillTotal(t) \/ GetCount(t)
    <2>1. UNCHANGED <<listCache, acked>>
      BY <1>13 DEF CountRequest, Release, Insert, SetUser, DelIndex, DelTotal, SelectPage, Sadd,
         GetUser, SelectUser, FillUser, GetTotal, CountTotal, FillTotal, GetCount
    <2>2. ListsRest(t)
      <3>1. CASE CountRequest(t)
        <4>1. Op(t) # "stats"
          BY <1>0, <3>1, RequestFields DEF CountRequest, LabelsOf, Op
        <4>2. \/ pc'[t] = "reply" /\ job'[t].status = "invalid"
              \/ pc'[t] \in {"acquire", "getUser", "getList"}
          BY <1>0, <3>1, <4>1, NextLabels DEF CountRequest, Job, Op
        <4> QED
          BY <1>0, <4>2 DEF ListsRest, HasCount, HasList, Invalidating, Created
      <3>2. CASE Release(t)
        <4>1. job' = job /\ pc[t] = "release" /\ pc'[t] \in {"getCount", "reply"}
          BY <1>0, <3>2 DEF Release
        <4> QED
          BY <4>1 DEF ListsRest, HasCount, HasList, Invalidating, Created, Deletes, Op
      <3>3. CASE Insert(t) \/ SetUser(t)
        <4>1. \/ pc'[t] \in {"setUser", "smembers"}
              \/ pc'[t] = "release" /\ job'[t].status = "internal"
          BY <1>0, <3>3 DEF Insert, SqlError, SetUser, Job
        <4> QED
          BY <1>0, <4>1 DEF ListsRest, HasCount, HasList, Invalidating, Created
      <3>4. CASE DelIndex(t) \/ DelTotal(t)
        <4>1. /\ (pc[t] = "delKeys" /\ job[t].keys = {}) \/ pc[t] = "delTotal"
              /\ pc'[t] \in {"delTotal", "release"} /\ job'[t].user = job[t].user
          BY <1>0, <3>4 DEF DelIndex, DelTotal, Job
        <4>2. Op(t) = "create"
          BY <1>0, <4>1, RequestFields DEF LabelsOf, Op
        <4>3. ~HasCount(t)'
          BY <1>0, <4>1, <4>2 DEF HasCount, HasList, Follows, Op
        <4> QED
          BY <1>0, <4>1, <4>3 DEF ListsRest, Invalidating, Deletes
      <3>5. CASE SelectPage(t) \/ Sadd(t)
        <4>1. /\ pc[t] \in {"selectPage", "sadd"} /\ job'[t].total = job[t].total
          BY <1>0, <3>5 DEF SelectPage, Sadd, SqlError, Job
        <4>2. ~Invalidating(t)'
          BY <1>0, <1>2, <4>1 DEF HasList, Invalidating, Created, Follows, LabelsOf, Op
        <4> QED
          BY <1>0, <4>1, <4>2 DEF ListsRest, HasCount, HasList
      <3>6. CASE \/ GetUser(t) \/ SelectUser(t) \/ FillUser(t)
                 \/ GetTotal(t) \/ CountTotal(t) \/ FillTotal(t) \/ GetCount(t)
        <4>1. Op(t) \in {"get", "stats"}
          BY <1>0, <3>6, RequestFields DEF GetUser, SelectUser, FillUser, GetTotal, CountTotal,
             FillTotal, GetCount, LabelsOf, Op
        <4>2. ~HasCount(t)' /\ ~Invalidating(t)'
          BY <1>0, <4>1 DEF Follows, LabelsOf, HasCount, HasList, Invalidating, Created, Op
        <4> QED
          BY <1>0, <4>2 DEF ListsRest
      <3> QED
        BY <1>13, <3>1, <3>2, <3>3, <3>4, <3>5, <3>6
    <2> QED
      BY <1>3, <2>1, <2>2
  <1> QED
    BY <1>7, <1>8, <1>9, <1>10, <1>11, <1>12, <1>13 DEF Work

\* A new request, a connection, expiry and a crash bring no list with them.
LEMMA OthersCounts ==
  ASSUME ListsInv,
         \/ \E t \in Threads : Acquire(t) \/ \E r \in Requests : Arrive(t, r)
         \/ Expire \/ Crash \/ UNCHANGED vars
  PROVE  ListsCurrent'
  <1>0. /\ RepositoryInv /\ ListsCurrent /\ pc \in [Threads -> Labels]
        /\ job \in [Threads -> Job] /\ listCache \in [Keys -> Cached \cup {Nil}]
    BY DEF ListsInv, RepositoryInv, TypeOK
  <1>1. acked' = acked /\ \A k \in Keys : listCache'[k] \in {listCache[k], Nil}
    BY <1>0 DEF Acquire, Arrive, Expire, ExpireUser, ExpireList, ExpireTotal, Crash, redis, vars
  <1>2. ASSUME NEW v \in Threads
        PROVE  ListsRest(v)
    <2>1. ASSUME NEW t \in Threads, Acquire(t)
          PROVE  ListsRest(v)
      <3>1. AfterAcquire(Op(t)) \in {"insert", "selectUser", "countRows", "countTotal"}
        BY <1>0, <2>1, NextLabels DEF Acquire, RepositoryInv, OnItsPath, Op
      <3>2. /\ pc[t] = "acquire" /\ job' = job
            /\ pc' = [pc EXCEPT ![t] = AfterAcquire(Op(t))]
        BY <2>1 DEF Acquire, Goto
      <3> QED
        BY <1>0, <3>1, <3>2
        DEF ListsRest, HasCount, HasList, Invalidating, Deletes, Created, Op
    <2>2. ASSUME NEW t \in Threads, NEW r \in Requests, Arrive(t, r)
          PROVE  ListsRest(v)
      <3>1. /\ pc'[t] \in {"getTotal", "count"} /\ job'[t].known = acked
            /\ v # t => pc'[v] = pc[v] /\ job'[v] = job[v]
        BY <1>0, <2>2 DEF Arrive, Goto, NoJob
      <3> QED
        BY <3>1 DEF ListsRest, HasCount, HasList, Invalidating, Deletes, Created, Op
    <2>3. CASE Expire \/ UNCHANGED vars
      BY <2>3 DEF Expire, ExpireUser, ExpireList, ExpireTotal, vars, ListsRest, HasCount,
         HasList, Invalidating, Deletes, Created, Op
    <2>4. CASE Crash
      BY <2>4 DEF Crash, ListsRest, HasCount, HasList, Invalidating, Created, NoJob
    <2> QED
      BY <2>1, <2>2, <2>3, <2>4
  <1> QED
    BY <1>0, <1>1, <1>2, ListsStay

\* A list counts every user that the client was told of before, for any number
\* of threads and through failed statements and crashes, until one of three
\* things happens: a list that was counted before an INSERT is cached after the
\* SMEMBERS that follows it (user_repository.cpp:214); that SMEMBERS fails or
\* misses a list whose SADD is still to come (user_repository.cpp:59); or the
\* DEL of a list fails.
THEOREM ListsAreCurrent == Spec /\ [][ListsKept]_vars => []ListReadAfterWrite
  <1>1. Init => ListsInv
    <2>1. Init => ListsCurrent
      BY DEF Init, ListsCurrent, HasCount, HasList, NoJob
    <2> QED
      BY <2>1, InitRepositoryInv DEF ListsInv
  <1>2. ListsInv /\ [Next]_vars /\ [ListsKept]_vars => ListsInv'
    <2> SUFFICES ASSUME ListsInv, [Next]_vars, [ListsKept]_vars PROVE ListsInv'
      OBVIOUS
    <2>1. RepositoryInv'
      BY NextKeepsRepositoryInv DEF ListsInv
    <2>2. ListsCurrent'
      <3>1. CASE UNCHANGED vars
        BY <3>1, OthersCounts
      <3>2. CASE Next /\ ListsKept
        BY <3>2, WorkCounts, OthersCounts DEF Next
      <3> QED
        BY <3>1, <3>2
    <2> QED
      BY <2>1, <2>2 DEF ListsInv
  <1>3. ListsInv => ListReadAfterWrite
    <2> SUFFICES ASSUME ListsInv, NEW t \in Threads, Answered(t, "list")
                 PROVE  job[t].total >= Cardinality(job[t].known)
      BY DEF ListReadAfterWrite
    <2>1. job[t].known \subseteq 1..job[t].total
      BY DEF ListsInv, ListsCurrent, HasCount, HasList, Answered
    <2>2. job[t].total \in Nat
      BY DEF ListsInv, RepositoryInv, TypeOK, Job
    <2>3. Cardinality(job[t].known) \in Nat /\ Cardinality(job[t].known) <= job[t].total
      BY <2>1, <2>2, AtMost
    <2> QED
      BY <2>2, <2>3
  <1> QED
    BY <1>1, <1>2, <1>3, PTL DEF Spec

-----------------------------------------------------------------------------
(* The repository implements UserDirectory                                 *)

\* A thread has a status when its guard dies or its reply is due, and only
\* GetStats goes on after its guard.
StatusSet ==
  \A t \in Threads :
    IF pc[t] \notin {"release", "reply"} THEN job[t].status = "pending"
    ELSE job[t].status = "pending" => Op(t) = "stats" /\ pc[t] = "release"

\* Totals count rows that are there.
TotalsBounded ==
  /\ totalCache # Nil => totalCache <= Len(rows)
  /\ \A t \in Threads : HasTotal(t) => job[t].total <= Len(rows)

DirectoryInv == SnapshotInv /\ StatusSet /\ TotalsBounded

\* A handler has its status when it gets to the end.
LEMMA WorkStatus ==
  ASSUME RepositoryInv, StatusSet, NEW t \in Threads, Work(t)
  PROVE  StatusSet'
  <1>0. /\ pc \in [Threads -> Labels] /\ job \in [Threads -> Job] /\ job[t] \in Job
        /\ Follows(t) /\ job[t].req \in Requests /\ pc[t] \in LabelsOf(Op(t))
    BY WorkFollows DEF RepositoryInv, TypeOK, OnItsPath, Follows
  <1> DEFINE Good == IF pc'[t] \notin {"release", "reply"} THEN job'[t].status = "pending"
                     ELSE job'[t].status = "pending" => Op(t)' = "stats" /\ pc'[t] = "release"
  <1>1. Good => StatusSet'
    BY <1>0 DEF StatusSet, Follows, Op
  <1>2. job[t].status = "pending" \/ pc[t] \in {"release", "reply"}
    BY DEF StatusSet
  <1> USE DEF Goto
  <1>3. CASE CountRequest(t)
    <2>1. Op(t) # "stats"
      BY <1>0, <1>3, RequestFields DEF CountRequest, LabelsOf, Op
    <2>2. AfterCount(job[t].req) \in {"acquire", "getUser", "getList"}
      BY <1>0, <2>1, NextLabels DEF Op
    <2> QED
      BY <1>0, <1>1, <1>2, <1>3, <2>2 DEF CountRequest, Job
  <1>4. CASE Release(t)
    BY <1>0, <1>1, <1>4 DEF Release, StatusSet, Op
  <1>5. CASE Reply(t)
    BY <1>0, <1>1, <1>5 DEF Reply, NoJob
  <1>6. CASE Insert(t) \/ SelectUser(t) \/ CountRows(t) \/ SelectPage(t) \/ CountTotal(t)
    <2>1. \/ pc'[t] \in {"setUser", "fillUser", "selectPage", "fillList", "fillTotal"}
             /\ job'[t].status = job[t].status
          \/ pc'[t] = "release" /\ job'[t].status \in {"internal", "not_found"}
      BY <1>0, <1>6 DEF Insert, SelectUser, CountRows, SelectPage, CountTotal, SqlError, Job
    <2>2. pc[t] \notin {"release", "reply"}
      BY <1>6 DEF Insert, SelectUser, CountRows, SelectPage, CountTotal
    <2> QED
      BY <1>1, <1>2, <2>1, <2>2
  <1>7. CASE SetUser(t) \/ Smembers(t) \/ DelKey(t) \/ DelIndex(t)
    <2>1. /\ pc[t] \notin {"release", "reply"} /\ pc'[t] \notin {"release", "reply"}
          /\ job'[t].status = job[t].status
      BY <1>0, <1>7 DEF SetUser, Smembers, DelKey, DelIndex, Job
    <2> QED
      BY <1>1, <1>2, <2>1
  <1>8. CASE DelTotal(t) \/ FillUser(t) \/ Sadd(t)
    BY <1>0, <1>1, <1>8 DEF DelTotal, FillUser, Sadd, Job
  <1>9. CASE GetUser(t) \/ GetList(t) \/ GetTotal(t) \/ FillList(t)
    <2>1. /\ pc[t] \notin {"release", "reply"}
          /\ \/ pc'[t] = "reply" /\ job'[t].status = "ok"
             \/ pc'[t] \notin {"release", "reply"} /\ job'[t].status = job[t].status
      BY <1>0, <1>9 DEF GetUser, GetList, GetTotal, FillList, Job
    <2> QED
      BY <1>1, <1>2, <2>1
  <1>10. CASE GetCount(t)
    BY <1>0, <1>1, <1>10 DEF GetCount, Job
  <1>11. CASE FillTotal(t)
    <2>1. Op(t) = "stats"
      BY <1>0, <1>11, RequestFields DEF FillTotal, LabelsOf, Op
    <2> QED
      BY <1>0, <1>1, <1>11, <2>1 DEF FillTotal, Op
  <1> QED
    BY <1>3, <1>4, <1>5, <1>6, <1>7, <1>8, <1>9, <1>10, <1>11 DEF Work

\* What a handler has of totals was counted.
LEMMA WorkBounded ==
  ASSUME RepositoryInv, TableGrows, TotalsBounded, NEW t \in Threads, Work(t)
  PROVE  TotalsBounded'
  <1>0. /\ pc \in [Threads -> Labels] /\ job \in [Threads -> Job] /\ job[t] \in Job
        /\ Len(rows) \in Nat /\ Len(rows') \in Nat /\ Len(rows) <= Len(rows')
        /\ totalCache \in Nat \cup {Nil}
        /\ Follows(t) /\ job[t].req \in Requests /\ pc[t] \in LabelsOf(Op(t))
    BY WorkFollows DEF RepositoryInv, TypeOK, OnItsPath, Follows, TableGrows
  <1>1. ASSUME NEW v \in Threads, v # t, HasTotal(v)'
        PROVE  job'[v].total <= Len(rows')
    <2>1. HasTotal(v) /\ job'[v] = job[v] /\ job[v].total \in Nat
      BY <1>0, <1>1 DEF Follows, HasTotal, Op, Job
    <2> QED
      BY <1>0, <2>1 DEF TotalsBounded
  <1>2. CASE GetTotal(t) \/ CountTotal(t) \/ FillTotal(t) \/ GetCount(t) \/ Release(t)
    <2>1. /\ totalCache' # Nil => totalCache' <= Len(rows')
          /\ HasTotal(t)' => job'[t].total <= Len(rows')
      <3>0. rows' = rows
        BY <1>2 DEF GetTotal, CountTotal, FillTotal, GetCount, Release, sql
      <3>1. CASE GetTotal(t)
        <4>1. /\ totalCache' = totalCache
              /\ \/ pc'[t] = "acquire"
                 \/ totalCache # Nil /\ job'[t].total = totalCache
          BY <1>0, <3>1 DEF GetTotal, Goto, redis, Job
        <4> QED
          BY <3>0, <4>1 DEF TotalsBounded, HasTotal
      <3>2. CASE CountTotal(t)
        <4>1. /\ totalCache' = totalCache
              /\ \/ pc'[t] = "release" /\ job'[t].status = "internal"
                 \/ job'[t].total = Len(rows)
          BY <1>0, <3>2 DEF CountTotal, SqlError, Goto, redis, Job
        <4> QED
          BY <1>0, <3>0, <4>1 DEF TotalsBounded, HasTotal
      <3>3. CASE FillTotal(t)
        <4>1. totalCache' \in {totalCache, job[t].total} /\ job' = job /\ pc[t] = "fillTotal"
          BY <3>3 DEF FillTotal
        <4> QED
          BY <3>0, <4>1 DEF TotalsBounded, HasTotal
      <3>4. CASE GetCount(t)
        <4>1. totalCache' = totalCache /\ job'[t].total = job[t].total /\ pc[t] = "getCount"
          BY <1>0, <3>4 DEF GetCount, redis, Job
        <4> QED
          BY <3>0, <4>1 DEF TotalsBounded, HasTotal
      <3>5. CASE Release(t)
        <4>1. totalCache' = totalCache /\ job' = job /\ pc[t] = "release"
          BY <3>5 DEF Release, redis
        <4>2. HasTotal(t)' => HasTotal(t)
          BY <1>0, <3>5, <4>1 DEF Release, Goto, HasTotal, Op
        <4> QED
          BY <3>0, <4>1, <4>2 DEF TotalsBounded
      <3> QED
        BY <1>2, <3>1, <3>2, <3>3, <3>4, <3>5
    <2> QED
      BY <1>1, <2>1 DEF TotalsBounded
  <1>3. CASE \/ CountRequest(t) \/ Reply(t) \/ Insert(t) \/ SetUser(t) \/ Smembers(t) \/ DelKey(t)
             \/ DelIndex(t) \/ DelTotal(t) \/ GetUser(t) \/ SelectUser(t) \/ FillUser(t)
             \/ GetList(t) \/ CountRows(t) \/ SelectPage(t) \/ FillList(t) \/ Sadd(t)
    <2>1. totalCache' \in {totalCache, Nil}
      BY <1>3 DEF CountRequest, Reply, Insert, SetUser, Smembers, DelKey, DelIndex, DelTotal,
         GetUser, SelectUser, FillUser, GetList, CountRows, SelectPage, FillList, Sadd, redis
    <2>2. ~HasTotal(t)'
      <3>1. CASE Reply(t)
        BY <1>0, <3>1 DEF Reply, Goto, HasTotal
      <3>2. CASE ~Reply(t)
        <4>1. Op(t) # "stats"
          BY <1>0, <1>3, <3>2, RequestFields DEF CountRequest, Insert, SetUser, Smembers, DelKey,
             DelIndex, DelTotal, GetUser, SelectUser, FillUser, GetList, CountRows, SelectPage,
             FillList, Sadd, LabelsOf, Op
        <4> QED
          BY <1>0, <4>1, RequestFields DEF Follows, HasTotal, LabelsOf, Op
      <3> QED
        BY <3>1, <3>2
    <2>3. totalCache' # Nil => totalCache' <= Len(rows')
      BY <1>0, <2>1 DEF TotalsBounded
    <2> QED
      BY <1>1, <2>2, <2>3 DEF TotalsBounded
  <1> QED
    BY <1>2, <1>3 DEF Work

\* A new request has no status and no total; nothing else touches them.
LEMMA OthersDirectory ==
  ASSUME RepositoryInv, TableGrows, StatusSet, TotalsBounded,
         \/ \E t \in Threads : Acquire(t) \/ \E r \in Requests : Arrive(t, r)
         \/ Expire \/ Crash \/ UNCHANGED vars
  PROVE  StatusSet' /\ TotalsBounded'
  <1> DEFINE GoesOn(v) ==
               \/ /\ pc'[v] = pc[v] /\ job'[v] = job[v]
               \/ /\ pc'[v] \notin {"release", "reply", "fillTotal", "getCount"}
                  /\ job'[v].status = "pending"
  <1>0. /\ pc \in [Threads -> Labels] /\ job \in [Threads -> Job] /\ totalCache \in Nat \cup {Nil}
        /\ Len(rows) \in Nat /\ Len(rows') \in Nat /\ Len(rows) <= Len(rows')
    BY DEF RepositoryInv, TypeOK, TableGrows
  <1>1. totalCache' \in {totalCache, Nil}
    BY DEF Acquire, Arrive, Expire, ExpireUser, ExpireList, ExpireTotal, Crash, redis, vars
  <1>2. ASSUME NEW v \in Threads
        PROVE  GoesOn(v)
    <2>1. ASSUME NEW t \in Threads, Acquire(t)
          PROVE  GoesOn(v)
      <3>1. AfterAcquire(Op(t)) \in {"insert", "selectUser", "countRows", "countTotal"}
        BY <1>0, <2>1, NextLabels DEF Acquire, RepositoryInv, OnItsPath, Op
      <3>2. /\ pc[t] = "acquire" /\ job' = job
            /\ pc' = [pc EXCEPT ![t] = AfterAcquire(Op(t))]
        BY <2>1 DEF Acquire, Goto
      <3> QED
        BY <1>0, <3>1, <3>2 DEF StatusSet
    <2>2. ASSUME NEW t \in Threads, NEW r \in Requests, Arrive(t, r)
          PROVE  GoesOn(v)
      BY <1>0, <2>2 DEF Arrive, Goto, NoJob
    <2>3. CASE Expire \/ UNCHANGED vars
      BY <2>3 DEF Expire, ExpireUser, ExpireList, ExpireTotal, vars
    <2>4. CASE Crash
      BY <2>4 DEF Crash, NoJob
    <2> QED
      BY <2>1, <2>2, <2>3, <2>4
  <1>3. StatusSet'
    BY <1>2 DEF StatusSet, Op
  <1>4. ASSUME NEW v \in Threads, HasTotal(v)'
        PROVE  job'[v].total <= Len(rows')
    <2>1. HasTotal(v) /\ job'[v] = job[v] /\ job[v].total \in Nat
      BY <1>0, <1>2, <1>4 DEF HasTotal, Op, Job
    <2> QED
      BY <1>0, <2>1 DEF TotalsBounded
  <1> QED
    BY <1>0, <1>1, <1>3, <1>4 DEF TotalsBounded

LEMMA InitDirectoryInv == Init => DirectoryInv
  BY InitSnapshotInv DEF Init, DirectoryInv, StatusSet, TotalsBounded, HasTotal, NoJob

LEMMA NextKeepsDirectoryInv == DirectoryInv /\ [Next]_vars => DirectoryInv'
  <1> SUFFICES ASSUME DirectoryInv, [Next]_vars PROVE DirectoryInv'
    OBVIOUS
  <1>1. RepositoryInv /\ TableGrows
    BY TableOnlyGrows DEF DirectoryInv, SnapshotInv
  <1>2. SnapshotInv'
    BY NextKeepsSnapshotInv DEF DirectoryInv
  <1>3. StatusSet' /\ TotalsBounded'
    BY <1>1, WorkStatus, WorkBounded, OthersDirectory DEF DirectoryInv, Next
  <1> QED
    BY <1>2, <1>3 DEF DirectoryInv

\* What a client has asked for, and the reply as a function of the label, the
\* job and the last insert id of a thread, so that it can be compared before
\* and after a step.
CallOf(t) == IF pc[t] = "out" THEN Nil ELSE job[t].req
ReplyIn(label, j, id) ==
  LET failed == label \in {"release", "reply"} /\ j.status \notin {"pending", "ok"}
  IN  CASE failed -> [status |-> j.status, value |-> Nil]
        [] label = "setUser" -> [status |-> "ok", value |-> [id |-> id, name |-> j.req.name]]
        [] label \in Settled /\ ~failed ->
             [status |-> "ok",
              value |-> CASE j.req.op \in {"create", "get"} -> j.user
                          [] j.req.op = "list" -> [total |-> j.total, users |-> j.users]
                          [] j.req.op = "stats" -> j.total]
        [] OTHER -> [status |-> "pending", value |-> Nil]

LEMMA SameReply ==
  ASSUME NEW t \in Threads
  PROVE  /\ ReplyOf(t) = ReplyIn(pc[t], job[t], lastId[lent[t]])
         /\ ReplyOf(t)' = ReplyIn(pc'[t], job'[t], lastId'[lent'[t]])
  BY DEF ReplyOf, ReplyIn, Op

\* The reply at each label.
LEMMA ReplyAt ==
  ASSUME NEW label, NEW j, NEW id
  PROVE  /\ label \notin Settled \cup {"setUser"} =>
              ReplyIn(label, j, id) = [status |-> "pending", value |-> Nil]
         /\ label \in {"release", "reply"} /\ j.status \notin {"pending", "ok"} =>
              ReplyIn(label, j, id) = [status |-> j.status, value |-> Nil]
         /\ label = "setUser" =>
              ReplyIn(label, j, id) =
                [status |-> "ok", value |-> [id |-> id, name |-> j.req.name]]
         /\ label \in Settled
            /\ (label \in {"release", "reply"} => j.status \in {"pending", "ok"}) =>
              /\ j.req.op \in {"create", "get"} =>
                   ReplyIn(label, j, id) = [status |-> "ok", value |-> j.user]
              /\ j.req.op = "list" =>
                   ReplyIn(label, j, id) =
                     [status |-> "ok", value |-> [total |-> j.total, users |-> j.users]]
              /\ j.req.op = "stats" =>
                   ReplyIn(label, j, id) = [status |-> "ok", value |-> j.total]
  <1>1. "setUser" \notin Settled /\ "release" \in Settled /\ "reply" \in Settled
    BY DEF Settled
  <1>2. label \notin Settled \cup {"setUser"} =>
          ReplyIn(label, j, id) = [status |-> "pending", value |-> Nil]
    BY <1>1 DEF ReplyIn
  <1>3. label \in {"release", "reply"} /\ j.status \notin {"pending", "ok"} =>
          ReplyIn(label, j, id) = [status |-> j.status, value |-> Nil]
    BY <1>1 DEF ReplyIn
  <1>4. label = "setUser" =>
          ReplyIn(label, j, id) = [status |-> "ok", value |-> [id |-> id, name |-> j.req.name]]
    BY <1>1 DEF ReplyIn
  <1>5. ASSUME label \in Settled,
               label \in {"release", "reply"} => j.status \in {"pending", "ok"}
        PROVE  ReplyIn(label, j, id) =
                 [status |-> "ok",
                  value |-> CASE j.req.op \in {"create", "get"} -> j.user
                              [] j.req.op = "list" -> [total |-> j.total, users |-> j.users]
                              [] j.req.op = "stats" -> j.total]
    BY <1>1, <1>5 DEF ReplyIn
  <1> QED
    BY <1>2, <1>3, <1>4, <1>5

\* Settled replies, calls and rows stay: the directory does not change.
LEMMA Stutters ==
  ASSUME rows' = rows, acked' = acked,
         \A u \in Threads : ReplyOf(u)' = ReplyOf(u) /\ CallOf(u)' = CallOf(u)
  PROVE  UNCHANGED Directory!vars
  BY DEF Directory!vars, CallOf

\* One reply is settled.
LEMMA Settles ==
  ASSUME acked' = acked, NEW t \in Threads, NEW status, NEW value,
         ReplyOf(t).status = "pending",
         ReplyOf(t)' = [status |-> status, value |-> value],
         \A u \in Threads \ {t} : ReplyOf(u)' = ReplyOf(u),
         \A u \in Threads : CallOf(u)' = CallOf(u)
  PROVE  Directory!Settle(t, status, value)
  BY DEF Directory!Settle, Directory!Answer, CallOf

\* The page of the directory is the page that the repository selects.
LEMMA SamePage ==
  ASSUME NEW r \in Requests, r.op = "list", NEW n \in Nat
  PROVE  Directory!UsersOn(n, r) = PageOf(n, Page(r))
  <1> DEFINE first == Page(r).offset
             size == IF n <= first THEN 0
                     ELSE IF n - first < Page(r).limit THEN n - first ELSE Page(r).limit
             last == IF first + Page(r).limit < n THEN first + Page(r).limit ELSE n
  <1>1. first \in Nat /\ Page(r).limit \in Nat
    BY PageFields
  <1>2. Directory!UsersOn(n, r) = [k \in 1..last - first |-> Row(first + k)]
    BY DEF Directory!UsersOn, Directory!UserAt, Row, Page
  <1>3. 1..last - first = 1..size
    BY <1>1
  <1>4. PageOf(n, Page(r)) = [k \in 1..size |-> Row(first + k)]
    BY DEF PageOf
  <1> HIDE DEF first, size, last
  <1> QED
    BY <1>2, <1>3, <1>4

\* A step of one handler shows the others nothing new, and changes its own call
\* only by ending it.
LEMMA OthersShow ==
  ASSUME RepositoryInv, NEW t \in Threads, Work(t)
  PROVE  /\ \A u \in Threads \ {t} : ReplyOf(u)' = ReplyOf(u) /\ CallOf(u)' = CallOf(u)
         /\ CallOf(t) = job[t].req
         /\ pc'[t] # "out" => CallOf(t)' = CallOf(t)
  <1>0. Follows(t) /\ lent \in [Threads -> Conns \cup {NoConn}] /\ lastId \in [Conns -> Nat]
    BY WorkFollows DEF RepositoryInv, TypeOK
  <1>1. ASSUME NEW u \in Threads \ {t}
        PROVE  ReplyOf(u)' = ReplyOf(u) /\ CallOf(u)' = CallOf(u)
    <2>1. pc'[u] = pc[u] /\ job'[u] = job[u] /\ lent'[u] = lent[u]
      BY <1>0 DEF Follows
    <2>2. pc[u] = "setUser" => lastId'[lent[u]] = lastId[lent[u]]
      <3>1. CASE Insert(t)
        <4>1. pc[u] = "setUser" => lent[u] \in Conns /\ lent[u] # lent[t]
          BY <1>0 DEF RepositoryInv, ConnHeld, ConnExclusive, SqlLabels
        <4> QED
          BY <1>0, <3>1, <4>1 DEF Insert
      <3>2. CASE ~Insert(t)
        BY <3>2 DEF Work, CountRequest, Release, Reply, SetUser, Smembers, DelKey, DelIndex,
           DelTotal, GetUser, SelectUser, FillUser, GetList, CountRows, SelectPage, FillList,
           Sadd, GetTotal, CountTotal, FillTotal, GetCount, sql
      <3> QED
        BY <3>1, <3>2
    <2> QED
      BY <2>1, <2>2 DEF ReplyOf, CallOf, Op
  <1> QED
    BY <1>0, <1>1 DEF Follows, CallOf

\* A step of the directory, or none.
Promised == Directory!Next \/ UNCHANGED Directory!vars

\* The reply of the own thread stays, and nothing else shows.
LEMMA OwnStutters ==
  ASSUME RepositoryInv, NEW t \in Threads, Work(t), pc'[t] # "out",
         rows' = rows, acked' = acked, ReplyOf(t)' = ReplyOf(t)
  PROVE  Promised
  BY OthersShow, Stutters DEF Promised

\* The own reply is settled, and nothing else shows.
LEMMA OwnSettles ==
  ASSUME RepositoryInv, NEW t \in Threads, Work(t), pc'[t] # "out", acked' = acked,
         ReplyOf(t).status = "pending", NEW status, NEW value,
         ReplyOf(t)' = [status |-> status, value |-> value]
  PROVE  /\ Directory!Settle(t, status, value)
         /\ [u \in Threads |-> CallOf(u)][t] = job[t].req /\ job[t].req # Nil
         /\ \A op : job[t].req.op = op => Directory!Asks(t, op)
  <1>1. job[t].req \in Requests /\ CallOf(t) = job[t].req
    BY OthersShow, WorkFollows DEF RepositoryInv, OnItsPath, Follows
  <1>2. job[t].req # Nil
    BY <1>1, NilAssumption
  <1>3. Directory!Settle(t, status, value)
    BY OthersShow, Settles
  <1> QED
    BY <1>1, <1>2, <1>3 DEF Directory!Asks, CallOf

\* The steps that every RPC takes.
LEMMA CommonSteps ==
  ASSUME DirectoryInv, NEW t \in Threads, CountRequest(t) \/ Release(t) \/ Reply(t)
  PROVE  Promised
  <1>0. /\ RepositoryInv /\ StatusSet /\ Work(t)
        /\ pc \in [Threads -> Labels] /\ job \in [Threads -> Job] /\ job[t] \in Job
        /\ job[t].req \in Requests /\ job[t].req # Nil /\ pc[t] \in LabelsOf(Op(t))
    BY WorkFollows, NilAssumption
    DEF DirectoryInv, SnapshotInv, RepositoryInv, TypeOK, OnItsPath, Follows, Work
  <1>1. CASE CountRequest(t)
    <2>1. ReplyOf(t).status = "pending" /\ ReplyOf(t) = [status |-> "pending", value |-> Nil]
      BY <1>1, SameReply, ReplyAt DEF CountRequest, Settled
    <2>2. CASE /\ Invalid(job[t].req) /\ pc' = [pc EXCEPT ![t] = "reply"]
               /\ job' = [job EXCEPT ![t].status = "invalid"]
      <3>1. pc'[t] = "reply" /\ job'[t].status = "invalid"
        BY <1>0, <2>2 DEF Job
      <3>2. ReplyOf(t)' = [status |-> "invalid", value |-> Nil]
        BY <3>1, SameReply, ReplyAt
      <3>3. rows' = rows /\ acked' = acked
        BY <1>1 DEF CountRequest, sql
      <3>4. /\ Directory!Settle(t, "invalid", Nil)
            /\ [u \in Threads |-> CallOf(u)][t] = job[t].req
            /\ \A op : job[t].req.op = op => Directory!Asks(t, op)
        BY <1>0, <2>1, <3>1, <3>2, <3>3, OwnSettles
      <3>5. Directory!Refuse(t)
        BY <2>2, <3>3, <3>4 DEF Directory!Refuse, Directory!Invalid, Invalid, CallOf
      <3> QED
        BY <3>5 DEF Promised, Directory!Next, Directory!Decide
    <2>3. CASE pc' = [pc EXCEPT ![t] = AfterCount(job[t].req)] /\ job' = job
      <3>1. Op(t) # "stats"
        BY <1>0, <1>1, RequestFields DEF CountRequest, LabelsOf, Op
      <3>2. pc'[t] \in {"acquire", "getUser", "getList"}
        BY <1>0, <2>3, <3>1, NextLabels DEF Op
      <3>3. ReplyOf(t)' = [status |-> "pending", value |-> Nil]
        BY <3>2, SameReply, ReplyAt DEF Settled
      <3> QED
        BY <1>0, <1>1, <2>1, <3>2, <3>3, OwnStutters DEF CountRequest, sql
    <2> QED
      BY <1>1, <2>2, <2>3 DEF CountRequest, Goto
  <1>2. CASE Release(t)
    <2>1. /\ pc[t] = "release" /\ job' = job /\ rows' = rows /\ acked' = acked
          /\ pc'[t] = IF Op(t) = "stats" /\ job[t].status = "pending" THEN "getCount" ELSE "reply"
      BY <1>0, <1>2 DEF Release, Goto, sql
    <2>2. ReplyOf(t)' = ReplyOf(t)
      <3>1. CASE job[t].status \notin {"pending", "ok"}
        BY <2>1, <3>1, SameReply, ReplyAt
      <3>2. CASE job[t].status \in {"pending", "ok"}
        <4>1. pc[t] \in Settled /\ pc'[t] \in Settled
          BY <2>1 DEF Settled
        <4>2. Op(t) \in {"create", "get"} \/ Op(t) = "list" \/ Op(t) = "stats"
          BY <1>0, RequestFields DEF Op
        <4> QED
          BY <2>1, <3>2, <4>1, <4>2, SameReply, ReplyAt DEF Op
      <3> QED
        BY <3>1, <3>2
    <2> QED
      BY <1>0, <2>1, <2>2, OwnStutters
  <1>3. CASE Reply(t)
    <2>1. /\ pc[t] = "reply" /\ rows' = rows
          /\ job' = [job EXCEPT ![t] = NoJob] /\ pc' = [pc EXCEPT ![t] = "out"]
          /\ acked' = IF Op(t) = "create" /\ job[t].status = "ok"
                      THEN acked \cup {job[t].user.id} ELSE acked
      BY <1>3 DEF Reply, Goto, sql
    <2>2. job[t].status # "pending"
      BY <2>1, <1>0 DEF StatusSet
    <2>3. ReplyOf(t).status = job[t].status
      BY <1>0, <2>1, <2>2, SameReply, ReplyAt, RequestFields DEF Settled
    <2>4. Op(t) = "create" /\ job[t].status = "ok" => ReplyOf(t).value = job[t].user
      BY <2>1, SameReply, ReplyAt DEF Settled, Op
    <2>5. ReplyOf(t)' = [status |-> "pending", value |-> Nil]
      BY <1>0, <2>1, SameReply, ReplyAt DEF Settled
    <2>6. CallOf(t)' = Nil /\ CallOf(t) = job[t].req
      BY <1>0, <2>1 DEF CallOf
    <2>7. \A u \in Threads \ {t} : ReplyOf(u)' = ReplyOf(u) /\ CallOf(u)' = CallOf(u)
      BY <1>0, OthersShow
    <2> DEFINE calls == [u \in Threads |-> CallOf(u)]
               answers == [u \in Threads |-> ReplyOf(u)]
    <2>8. /\ calls' = [calls EXCEPT ![t] = Nil] /\ calls[t] = job[t].req
          /\ answers' = [answers EXCEPT ![t] = [status |-> "pending", value |-> Nil]]
          /\ answers[t] = ReplyOf(t)
      BY <2>5, <2>6, <2>7
    <2>9. calls[t] # Nil /\ calls[t].op = Op(t)
      BY <1>0, <2>8 DEF Op
    <2>10. Directory!End(t)
      BY <2>1, <2>2, <2>3, <2>4, <2>8, <2>9
      DEF Directory!End, Directory!Asks, Directory!NoAnswer, Directory!Answer, CallOf
    <2> QED
      BY <2>10 DEF Promised, Directory!Next, Directory!Decide
  <1> QED
    BY <1>1, <1>2, <1>3

\* A statement of thread t fails, whatever becomes of a row to insert.
Fails(t) ==
  /\ SqlFaults /\ pc'[t] = "release" /\ acked' = acked
  /\ job'[t].status = IF Op(t) = "get" THEN "not_found" ELSE "internal"
  /\ \/ rows' = rows
     \/ Op(t) = "create" /\ rows' = Append(rows, job[t].req.name)

\* Its call fails.
LEMMA FailedStep ==
  ASSUME RepositoryInv, NEW t \in Threads, Work(t),
         pc[t] \notin Settled \cup {"setUser"}, Fails(t)
  PROVE  Promised
  <1> DEFINE status == job'[t].status
  <1>1. SqlFaults /\ pc'[t] = "release" /\ status \notin {"pending", "ok"} /\ acked' = acked
    BY DEF Fails
  <1>2. ReplyOf(t).status = "pending"
    BY SameReply, ReplyAt
  <1>3. ReplyOf(t)' = [status |-> status, value |-> Nil]
    BY <1>1, SameReply, ReplyAt
  <1>4. /\ Directory!Settle(t, status, Nil)
        /\ [u \in Threads |-> CallOf(u)][t] = job[t].req /\ job[t].req # Nil
    <2> HIDE DEF status
    <2> QED
      BY <1>1, <1>2, <1>3, OwnSettles
  <1>5. ~Directory!Invalid(t)
    <2>1. ~Invalid(job[t].req)
      BY <1>1, WorkFollows DEF Follows
    <2> QED
      BY <1>4, <2>1 DEF Directory!Invalid, Directory!Asks, Invalid, CallOf
  <1>6. Directory!Fail(t)
    BY <1>1, <1>4, <1>5 DEF Directory!Fail, CallOf, Op, Fails
  <1> QED
    BY <1>6 DEF Promised, Directory!Next, Directory!Decide

\* CreateUser: the user is added by the INSERT.
LEMMA CreateSteps ==
  ASSUME DirectoryInv, NEW t \in Threads,
         Insert(t) \/ SetUser(t) \/ Smembers(t) \/ DelKey(t) \/ DelIndex(t) \/ DelTotal(t)
  PROVE  Promised
  <1>0. /\ RepositoryInv /\ StatusSet /\ Work(t)
        /\ pc \in [Threads -> Labels] /\ job \in [Threads -> Job] /\ job[t] \in Job
        /\ job[t].req \in Requests /\ pc[t] \in LabelsOf(Op(t))
        /\ lastId \in [Conns -> Nat] /\ lent \in [Threads -> Conns \cup {NoConn}]
    BY WorkFollows DEF DirectoryInv, SnapshotInv, RepositoryInv, TypeOK, OnItsPath, Follows, Work
  <1>1. Op(t) = "create" /\ job[t].req.op = "create"
    BY <1>0, RequestFields DEF Insert, SetUser, Smembers, DelKey, DelIndex, DelTotal, LabelsOf, Op
  <1>2. CASE Insert(t)
    <2>1. CASE SqlError(t, "internal")
      <3>1. /\ pc[t] \notin Settled \cup {"setUser"} /\ acked' = acked
            /\ rows' = rows \/ rows' = Append(rows, job[t].req.name)
        BY <1>2 DEF Insert, Settled
      <3>2. Fails(t)
        BY <1>0, <1>1, <2>1, <3>1 DEF SqlError, Goto, Job, Fails
      <3> QED
        BY <1>0, <3>1, <3>2, FailedStep
    <2>2. CASE /\ rows' = Append(rows, job[t].req.name)
               /\ lastId' = [lastId EXCEPT ![lent[t]] = Len(rows) + 1]
               /\ pc' = [pc EXCEPT ![t] = "setUser"] /\ job' = job
      <3>1. lent' = lent /\ acked' = acked /\ pc[t] = "insert"
        BY <1>2 DEF Insert
      <3>2. lent[t] \in Conns /\ lastId'[lent'[t]] = Len(rows) + 1
        BY <1>0, <2>2, <3>1 DEF RepositoryInv, ConnHeld, SqlLabels
      <3> DEFINE user == [id |-> Len(rows) + 1, name |-> job[t].req.name]
      <3>3. ReplyOf(t).status = "pending" /\ pc'[t] = "setUser"
        BY <1>0, <2>2, <3>1, SameReply, ReplyAt DEF Settled
      <3>4. ReplyOf(t)' = [status |-> "ok", value |-> user]
        BY <2>2, <3>2, <3>3, SameReply, ReplyAt
      <3>5. /\ Directory!Settle(t, "ok", user) /\ Directory!Asks(t, "create")
            /\ [u \in Threads |-> CallOf(u)][t] = job[t].req
        <4> HIDE DEF user
        <4> QED
          BY <1>0, <1>1, <3>1, <3>3, <3>4, OwnSettles
      <3>6. job[t].req.name # EmptyName
        BY <1>1, <3>1 DEF RepositoryInv, Validated, Invalid, DirectoryInv, SnapshotInv
      <3>7. Directory!Add(t)
        BY <2>2, <3>5, <3>6 DEF Directory!Add, CallOf
      <3> QED
        BY <3>7 DEF Promised, Directory!Next, Directory!Decide
    <2> QED
      BY <1>2, <2>1, <2>2 DEF Insert, Goto
  <1>3. CASE SetUser(t)
    <2>1. /\ pc[t] = "setUser" /\ pc'[t] = "smembers" /\ rows' = rows /\ acked' = acked
          /\ job'[t].req = job[t].req
          /\ job'[t].user = [id |-> lastId[lent[t]], name |-> job[t].req.name]
      BY <1>0, <1>3 DEF SetUser, Goto, sql, Job
    <2>2. ReplyOf(t)' = ReplyOf(t)
      BY <1>1, <2>1, SameReply, ReplyAt DEF Settled
    <2> QED
      BY <1>0, <2>1, <2>2, OwnStutters
  <1>4. CASE Smembers(t) \/ DelKey(t) \/ DelIndex(t) \/ DelTotal(t)
    <2>1. /\ pc[t] \in {"smembers", "delKeys", "delTotal"} /\ rows' = rows /\ acked' = acked
          /\ job'[t].req = job[t].req /\ job'[t].user = job[t].user
          /\ \/ pc'[t] \in {"delKeys", "delTotal"}
             \/ pc'[t] = "release" /\ job'[t].status = "ok"
      BY <1>0, <1>4 DEF Smembers, DelKey, DelIndex, DelTotal, Goto, sql, Job
    <2>2. ReplyOf(t)' = ReplyOf(t)
      BY <1>1, <2>1, SameReply, ReplyAt DEF Settled
    <2> QED
      BY <1>0, <2>1, <2>2, OwnStutters
  <1> QED
    BY <1>2, <1>3, <1>4

\* GetUser: the user is found in the cache or in the table.
LEMMA GetSteps ==
  ASSUME DirectoryInv, NEW t \in Threads, GetUser(t) \/ SelectUser(t) \/ FillUser(t)
  PROVE  Promised
  <1>0. /\ RepositoryInv /\ StatusSet /\ Work(t)
        /\ pc \in [Threads -> Labels] /\ job \in [Threads -> Job] /\ job[t] \in Job
        /\ job[t].req \in Requests /\ pc[t] \in LabelsOf(Op(t)) /\ Len(rows) \in Nat
        /\ rows' = rows /\ acked' = acked
    BY WorkFollows, RowsAreUsers
    DEF DirectoryInv, SnapshotInv, RepositoryInv, TypeOK, OnItsPath, Follows, Work, GetUser,
        SelectUser, FillUser, sql
  <1>1. Op(t) = "get" /\ job[t].req.op = "get"
    BY <1>0, RequestFields DEF GetUser, SelectUser, FillUser, LabelsOf, Op
  <1>2. job[t].req.id \in Ids /\ job[t].req.id # EmptyId /\ job[t].req.id \in Nat \ {0}
    BY <1>0, <1>1, RequestFields, BoundsAssumption
    DEF GetUser, SelectUser, FillUser, RepositoryInv, Validated, Invalid, Ids, EmptyId
  <1> DEFINE id == job[t].req.id
  <1>3. Row(id) = Directory!UserAt(id)
    BY DEF Row, Directory!UserAt
  <1>4. ASSUME ReplyOf(t).status = "pending", pc'[t] # "out", NEW status, NEW value,
               ReplyOf(t)' = [status |-> status, value |-> value],
               IF id \in 1..Len(rows) THEN status = "ok" /\ value = Row(id)
               ELSE status = "not_found" /\ value = Nil
        PROVE  Promised
    <2>1. /\ Directory!Settle(t, status, value) /\ Directory!Asks(t, "get")
          /\ [u \in Threads |-> CallOf(u)][t] = job[t].req
      BY <1>0, <1>1, <1>4, OwnSettles
    <2>2. Directory!Find(t)
      BY <1>0, <1>2, <1>3, <1>4, <2>1 DEF Directory!Find, CallOf, EmptyId
    <2> QED
      BY <2>2 DEF Promised, Directory!Next, Directory!Decide
  <1> HIDE DEF id
  <1>5. CASE GetUser(t)
    <2>1. ReplyOf(t) = [status |-> "pending", value |-> Nil]
      BY <1>5, SameReply, ReplyAt DEF GetUser, Settled
    <2> DEFINE hit == userCache[job[t].req.id]
    <2>2. CASE /\ hit # Nil /\ pc' = [pc EXCEPT ![t] = "reply"]
               /\ job' = [job EXCEPT ![t].user = hit, ![t].status = "ok"]
      <3>1. id \in 1..Len(rows) /\ hit = Row(id)
        BY <1>2, <2>2 DEF RepositoryInv, CachedUsersAreRows, DirectoryInv, SnapshotInv, id
      <3> HIDE DEF hit
      <3>2. /\ pc'[t] = "reply" /\ job'[t].status = "ok" /\ job'[t].user = hit
            /\ job'[t].req = job[t].req
        BY <1>0, <2>2 DEF Job
      <3>3. ReplyOf(t)' = [status |-> "ok", value |-> hit]
        BY <1>1, <3>2, SameReply, ReplyAt DEF Settled
      <3> QED
        BY <1>4, <2>1, <3>1, <3>2, <3>3
    <2>3. CASE pc' = [pc EXCEPT ![t] = "acquire"] /\ job' = job
      <3>1. ReplyOf(t)' = ReplyOf(t) /\ pc'[t] # "out"
        BY <1>0, <2>1, <2>3, SameReply, ReplyAt DEF Settled
      <3> QED
        BY <1>0, <3>1, OwnStutters
    <2> QED
      BY <1>5, <2>2, <2>3 DEF GetUser, Goto
  <1>6. CASE SelectUser(t)
    <2>1. ReplyOf(t).status = "pending" /\ pc[t] = "selectUser"
      BY <1>6, SameReply, ReplyAt DEF SelectUser, Settled
    <2>2. CASE /\ id <= Len(rows) /\ pc' = [pc EXCEPT ![t] = "fillUser"]
               /\ job' = [job EXCEPT ![t].user = Row(id)]
      <3>1. pc'[t] = "fillUser" /\ job'[t].user = Row(id) /\ job'[t].req = job[t].req
        BY <1>0, <2>2 DEF Job
      <3>2. ReplyOf(t)' = [status |-> "ok", value |-> Row(id)]
        BY <1>1, <3>1, SameReply, ReplyAt DEF Settled
      <3>3. id \in 1..Len(rows)
        BY <1>0, <1>2, <2>2 DEF id
      <3> QED
        BY <1>4, <2>1, <3>1, <3>2, <3>3
    <2>3. CASE /\ id > Len(rows) /\ pc' = [pc EXCEPT ![t] = "release"]
               /\ job' = [job EXCEPT ![t].status = "not_found"]
      <3>1. pc'[t] = "release" /\ job'[t].status = "not_found"
        BY <1>0, <2>3 DEF Job
      <3>2. ReplyOf(t)' = [status |-> "not_found", value |-> Nil]
        BY <3>1, SameReply, ReplyAt
      <3>3. id \notin 1..Len(rows)
        BY <1>0, <1>2, <2>3 DEF id
      <3> QED
        BY <1>4, <2>1, <3>1, <3>2, <3>3
    <2>4. CASE SqlError(t, "not_found")
      <3>1. pc[t] \notin Settled \cup {"setUser"}
        BY <2>1 DEF Settled
      <3>2. Fails(t)
        BY <1>0, <1>1, <2>4 DEF SqlError, Goto, Job, Fails
      <3> QED
        BY <1>0, <3>1, <3>2, FailedStep
    <2> QED
      BY <1>6, <2>2, <2>3, <2>4 DEF SelectUser, Goto, id
  <1>7. CASE FillUser(t)
    <2>1. /\ pc[t] = "fillUser" /\ pc'[t] = "release" /\ job'[t].status = "ok"
          /\ job'[t].req = job[t].req /\ job'[t].user = job[t].user
      BY <1>0, <1>7 DEF FillUser, Goto, Job
    <2>2. ReplyOf(t)' = ReplyOf(t)
      BY <1>1, <2>1, SameReply, ReplyAt DEF Settled
    <2> QED
      BY <1>0, <2>1, <2>2, OwnStutters
  <1> QED
    BY <1>5, <1>6, <1>7

\* ListUsers: the list comes from the cache or from the table.
LEMMA ListSteps ==
  ASSUME DirectoryInv, NEW t \in Threads,
         GetList(t) \/ CountRows(t) \/ SelectPage(t) \/ FillList(t) \/ Sadd(t)
  PROVE  Promised
  <1>0. /\ RepositoryInv /\ Work(t)
        /\ pc \in [Threads -> Labels] /\ job \in [Threads -> Job] /\ job[t] \in Job
        /\ job[t].req \in Requests /\ pc[t] \in LabelsOf(Op(t)) /\ Len(rows) \in Nat
        /\ rows' = rows /\ acked' = acked
    <2>1. RepositoryInv /\ Work(t)
      BY DEF DirectoryInv, SnapshotInv, Work
    <2>2. rows' = rows /\ acked' = acked
      BY DEF GetList, CountRows, SelectPage, FillList, Sadd, sql
    <2> QED
      BY <2>1, <2>2, WorkFollows, RowsAreUsers DEF RepositoryInv, TypeOK, OnItsPath, Follows
  <1>1. Op(t) = "list" /\ job[t].req.op = "list"
    BY <1>0, RequestFields DEF GetList, CountRows, SelectPage, FillList, Sadd, LabelsOf, Op
  <1>2. ListCacheKey(Page(job[t].req)) \in Keys
    BY <1>0, <1>1, PageFields
  <1>3. ASSUME ReplyOf(t).status = "pending", pc'[t] # "out", NEW total \in Nat, NEW list,
               NEW n \in total..Len(rows), list = PageOf(n, Page(job[t].req)),
               ReplyOf(t)' = [status |-> "ok", value |-> [total |-> total, users |-> list]]
        PROVE  Promised
    <2>1. n \in Nat /\ n \in 0..Len(rows) /\ total \in 0..n
      BY <1>0, <1>3
    <2>2. list = Directory!UsersOn(n, job[t].req)
      BY <1>0, <1>1, <1>3, <2>1, SamePage
    <2> DEFINE value == [total |-> total, users |-> list]
    <2>3. /\ Directory!Settle(t, "ok", value) /\ Directory!Asks(t, "list")
          /\ [u \in Threads |-> CallOf(u)][t] = job[t].req
      <3> HIDE DEF value
      <3> QED
        BY <1>0, <1>1, <1>3, OwnSettles DEF value
    <2>4. Directory!List(t)
      BY <1>0, <2>1, <2>2, <2>3 DEF Directory!List, CallOf
    <2> QED
      BY <2>4 DEF Promised, Directory!Next, Directory!Decide
  <1>4. CASE GetList(t)
    <2>1. ReplyOf(t) = [status |-> "pending", value |-> Nil]
      BY <1>4, SameReply, ReplyAt DEF GetList, Settled
    <2> DEFINE hit == listCache[ListCacheKey(PageRequested(t))]
    <2>2. CASE /\ hit # Nil /\ pc' = [pc EXCEPT ![t] = "reply"]
               /\ job' = [job EXCEPT ![t].total = hit.total, ![t].users = hit.users,
                                     ![t].status = "ok"]
      <3>1. SnapshotIn(rows, hit, Page(job[t].req)) /\ hit.total \in Nat
        BY <1>0, <1>1, <1>2, <2>2
        DEF PageRequested, DirectoryInv, SnapshotInv, ListsCached, RepositoryInv, TypeOK, Cached
      <3> HIDE DEF hit
      <3>2. /\ pc'[t] = "reply" /\ job'[t].status = "ok" /\ job'[t].req = job[t].req
            /\ job'[t].total = hit.total /\ job'[t].users = hit.users
        BY <1>0, <2>2 DEF Job
      <3>3. ReplyOf(t)' = [status |-> "ok", value |-> [total |-> hit.total, users |-> hit.users]]
        BY <1>1, <3>2, SameReply, ReplyAt DEF Settled
      <3>4. PICK n \in hit.total..Len(rows) : hit.users = PageOf(n, Page(job[t].req))
        BY <3>1 DEF SnapshotIn, PageIn, PageOf, Row
      <3> QED
        BY <1>3, <2>1, <3>1, <3>2, <3>3, <3>4
    <2>3. CASE pc' = [pc EXCEPT ![t] = "acquire"] /\ job' = job
      <3>1. ReplyOf(t)' = ReplyOf(t) /\ pc'[t] # "out"
        BY <1>0, <2>1, <2>3, SameReply, ReplyAt DEF Settled
      <3> QED
        BY <1>0, <3>1, OwnStutters
    <2> QED
      BY <1>4, <2>2, <2>3 DEF GetList, Goto
  <1>5. CASE CountRows(t)
    <2>1. /\ ReplyOf(t) = [status |-> "pending", value |-> Nil]
          /\ pc[t] \notin Settled \cup {"setUser"}
      BY <1>5, SameReply, ReplyAt DEF CountRows, Settled
    <2>2. CASE pc' = [pc EXCEPT ![t] = "selectPage"]
      <3>1. ReplyOf(t)' = ReplyOf(t) /\ pc'[t] # "out"
        BY <1>0, <2>1, <2>2, SameReply, ReplyAt DEF Settled
      <3> QED
        BY <1>0, <3>1, OwnStutters
    <2>3. CASE SqlError(t, "internal")
      <3>1. Fails(t)
        BY <1>0, <1>1, <2>3 DEF SqlError, Goto, Job, Fails
      <3> QED
        BY <1>0, <2>1, <3>1, FailedStep
    <2> QED
      BY <1>5, <2>2, <2>3 DEF CountRows, Goto
  <1>6. CASE SelectPage(t)
    <2>1. /\ ReplyOf(t).status = "pending"
          /\ pc[t] = "selectPage" /\ pc[t] \notin Settled \cup {"setUser"}
      BY <1>6, SameReply, ReplyAt DEF SelectPage, Settled
    <2>2. CASE /\ job' = [job EXCEPT ![t].users = PageOf(Len(rows), PageRequested(t))]
               /\ pc' = [pc EXCEPT ![t] = "fillList"]
      <3> DEFINE page == PageOf(Len(rows), Page(job[t].req))
      <3>1. job[t].total \in Nat /\ job[t].total <= Len(rows)
        BY <1>0, <2>1 DEF DirectoryInv, SnapshotInv, ListsAtHand, ListGood, Job
      <3>2. /\ pc'[t] = "fillList" /\ job'[t].req = job[t].req
            /\ job'[t].users = page /\ job'[t].total = job[t].total
        BY <1>0, <2>2 DEF Job, PageRequested
      <3> HIDE DEF page
      <3>3. ReplyOf(t)' = [status |-> "ok", value |-> [total |-> job[t].total, users |-> page]]
        BY <1>1, <3>2, SameReply, ReplyAt DEF Settled
      <3>4. Len(rows) \in job[t].total..Len(rows)
        BY <1>0, <3>1
      <3> QED
        BY <1>3, <2>1, <3>1, <3>2, <3>3, <3>4 DEF page
    <2>3. CASE SqlError(t, "internal")
      <3>1. Fails(t)
        BY <1>0, <1>1, <2>3 DEF SqlError, Goto, Job, Fails
      <3> QED
        BY <1>0, <2>1, <3>1, FailedStep
    <2> QED
      BY <1>6, <2>2, <2>3 DEF SelectPage, Goto
  <1>7. CASE FillList(t) \/ Sadd(t)
    <2>1. /\ pc[t] \in {"fillList", "sadd"} /\ job'[t].req = job[t].req
          /\ job'[t].total = job[t].total /\ job'[t].users = job[t].users
          /\ \/ pc'[t] = "sadd"
             \/ pc'[t] = "release" /\ job'[t].status = "ok"
      BY <1>0, <1>7 DEF FillList, Sadd, Goto, Job
    <2>2. ReplyOf(t)' = ReplyOf(t)
      BY <1>1, <2>1, SameReply, ReplyAt DEF Settled
    <2> QED
      BY <1>0, <2>1, <2>2, OwnStutters
  <1> QED
    BY <1>4, <1>5, <1>6, <1>7

\* GetCount sets the count and the status of its job.
LEMMA GetCountJob ==
  ASSUME NEW t \in Threads, pc \in [Threads -> Labels], job \in [Threads -> Job], GetCount(t)
  PROVE  /\ pc[t] = "getCount" /\ pc'[t] = "reply" /\ job'[t].status = "ok"
         /\ job'[t].req = job[t].req /\ job'[t].total = job[t].total
  BY DEF GetCount, Goto, Job

\* GetStats: the total comes from the cache or from the table.
LEMMA StatsSteps ==
  ASSUME DirectoryInv, NEW t \in Threads,
         GetTotal(t) \/ CountTotal(t) \/ FillTotal(t) \/ GetCount(t)
  PROVE  Promised
  <1>0. /\ RepositoryInv /\ StatusSet /\ Work(t)
        /\ pc \in [Threads -> Labels] /\ job \in [Threads -> Job] /\ job[t] \in Job
        /\ job[t].req \in Requests /\ pc[t] \in LabelsOf(Op(t)) /\ Len(rows) \in Nat
        /\ totalCache \in Nat \cup {Nil} /\ rows' = rows /\ acked' = acked
    BY WorkFollows, RowsAreUsers
    DEF DirectoryInv, SnapshotInv, RepositoryInv, TypeOK, OnItsPath, Follows, Work, GetTotal,
        CountTotal, FillTotal, GetCount, sql
  <1>1. Op(t) = "stats" /\ job[t].req.op = "stats"
    BY <1>0, RequestFields DEF GetTotal, CountTotal, FillTotal, GetCount, LabelsOf, Op
  <1>2. ASSUME ReplyOf(t).status = "pending", NEW total \in 0..Len(rows),
               pc'[t] \in {"getCount", "fillTotal"}, job'[t].req = job[t].req,
               job'[t].total = total
        PROVE  Promised
    <2>1. ReplyOf(t)' = [status |-> "ok", value |-> total]
      BY <1>1, <1>2, SameReply, ReplyAt DEF Settled
    <2>2. Directory!Settle(t, "ok", total) /\ Directory!Asks(t, "stats")
      BY <1>0, <1>1, <1>2, <2>1, OwnSettles
    <2>3. Directory!Count(t)
      BY <1>0, <2>2 DEF Directory!Count
    <2> QED
      BY <2>3 DEF Promised, Directory!Next, Directory!Decide
  <1>3. CASE GetTotal(t)
    <2>1. ReplyOf(t) = [status |-> "pending", value |-> Nil]
      BY <1>3, SameReply, ReplyAt DEF GetTotal, Settled
    <2>2. CASE /\ totalCache # Nil /\ job' = [job EXCEPT ![t].total = totalCache]
               /\ pc' = [pc EXCEPT ![t] = "getCount"]
      <3>1. totalCache \in 0..Len(rows)
        BY <1>0, <2>2 DEF DirectoryInv, TotalsBounded
      <3>2. pc'[t] = "getCount" /\ job'[t].req = job[t].req /\ job'[t].total = totalCache
        BY <1>0, <2>2 DEF Job
      <3> QED
        BY <1>2, <2>1, <3>1, <3>2
    <2>3. CASE pc' = [pc EXCEPT ![t] = "acquire"] /\ job' = job
      <3>1. ReplyOf(t)' = ReplyOf(t) /\ pc'[t] # "out"
        BY <1>0, <2>1, <2>3, SameReply, ReplyAt DEF Settled
      <3> QED
        BY <1>0, <3>1, OwnStutters
    <2> QED
      BY <1>3, <2>2, <2>3 DEF GetTotal, Goto
  <1>4. CASE CountTotal(t)
    <2>1. ReplyOf(t).status = "pending" /\ pc[t] \notin Settled \cup {"setUser"}
      BY <1>4, SameReply, ReplyAt DEF CountTotal, Settled
    <2>2. CASE /\ job' = [job EXCEPT ![t].total = Len(rows)]
               /\ pc' = [pc EXCEPT ![t] = "fillTotal"]
      <3>1. pc'[t] = "fillTotal" /\ job'[t].req = job[t].req /\ job'[t].total = Len(rows)
        BY <1>0, <2>2 DEF Job
      <3>2. Len(rows) \in 0..Len(rows)
        BY <1>0
      <3> QED
        BY <1>2, <2>1, <3>1, <3>2
    <2>3. CASE SqlError(t, "internal")
      <3>1. Fails(t)
        BY <1>0, <1>1, <2>3 DEF SqlError, Goto, Job, Fails
      <3> QED
        BY <1>0, <2>1, <3>1, FailedStep
    <2> QED
      BY <1>4, <2>2, <2>3 DEF CountTotal, Goto
  <1>5. CASE FillTotal(t)
    <2>1. pc[t] = "fillTotal" /\ pc'[t] = "release" /\ job' = job
      BY <1>0, <1>5 DEF FillTotal, Goto
    <2>2. job[t].status = "pending"
      BY <1>0, <2>1 DEF StatusSet
    <2>3. ReplyOf(t)' = ReplyOf(t)
      BY <1>1, <2>1, <2>2, SameReply, ReplyAt DEF Settled
    <2> QED
      BY <1>0, <2>1, <2>3, OwnStutters
  <1>6. CASE GetCount(t)
    <2>1. /\ pc[t] = "getCount" /\ pc'[t] = "reply" /\ job'[t].status = "ok"
          /\ job'[t].req = job[t].req /\ job'[t].total = job[t].total
      BY <1>0, <1>6, GetCountJob
    <2>2. ReplyOf(t)' = ReplyOf(t)
      BY <1>1, <2>1, SameReply, ReplyAt DEF Settled
    <2> QED
      BY <1>0, <2>1, <2>2, OwnStutters
  <1> QED
    BY <1>3, <1>4, <1>5, <1>6

\* A request begins a call, a crash loses all calls, and connections and
\* expired keys do not show.
LEMMA OtherSteps ==
  ASSUME DirectoryInv,
         \/ \E t \in Threads : Acquire(t) \/ \E r \in Requests : Arrive(t, r)
         \/ Expire \/ Crash \/ UNCHANGED vars
  PROVE  Promised
  <1>0. /\ RepositoryInv
        /\ pc \in [Threads -> Labels] /\ job \in [Threads -> Job]
        /\ lent \in [Threads -> Conns \cup {NoConn}]
    BY DEF DirectoryInv, SnapshotInv, RepositoryInv, TypeOK
  <1>1. ASSUME NEW t \in Threads, Acquire(t)
        PROVE  Promised
    <2>1. /\ pc[t] = "acquire" /\ job' = job /\ rows' = rows /\ acked' = acked /\ lastId' = lastId
          /\ \E c \in Conns : lent' = [lent EXCEPT ![t] = c]
          /\ pc' = [pc EXCEPT ![t] = AfterAcquire(Op(t))]
      BY <1>1 DEF Acquire, Goto, sql, Lender!Free
    <2>2. AfterAcquire(Op(t)) \in {"insert", "selectUser", "countRows", "countTotal"}
      BY <1>0, <2>1, NextLabels DEF RepositoryInv, OnItsPath, Op
    <2>3. ASSUME NEW u \in Threads
          PROVE  ReplyOf(u)' = ReplyOf(u) /\ CallOf(u)' = CallOf(u)
      <3>1. CASE u = t
        <4>1. pc'[t] \in {"insert", "selectUser", "countRows", "countTotal"} /\ job'[t] = job[t]
          BY <1>0, <2>1, <2>2
        <4>2. ReplyOf(t)' = ReplyOf(t)
          BY <2>1, <4>1, SameReply, ReplyAt DEF Settled
        <4> QED
          BY <2>1, <3>1, <4>1, <4>2 DEF CallOf
      <3>2. CASE u # t
        <4>1. pc'[u] = pc[u] /\ job'[u] = job[u] /\ lent'[u] = lent[u]
          BY <1>0, <2>1, <3>2
        <4> QED
          BY <2>1, <4>1 DEF ReplyOf, CallOf, Op
      <3> QED
        BY <3>1, <3>2
    <2> QED
      BY <2>1, <2>3, Stutters DEF Promised
  <1>2. ASSUME NEW t \in Threads, NEW r \in Requests, Arrive(t, r)
        PROVE  Promised
    <2>1. /\ pc[t] = "out" /\ rows' = rows /\ acked' = acked /\ lent' = lent /\ lastId' = lastId
          /\ job' = [job EXCEPT ![t] = [NoJob EXCEPT !.req = r, !.known = acked]]
          /\ pc' = [pc EXCEPT ![t] = IF r.op = "stats" THEN "getTotal" ELSE "count"]
      BY <1>2 DEF Arrive, Goto, sql
    <2>2. pc'[t] \in {"getTotal", "count"} /\ job'[t].req = r
      BY <1>0, <2>1 DEF NoJob
    <2>3. ReplyOf(t)' = ReplyOf(t)
      BY <2>1, <2>2, SameReply, ReplyAt DEF Settled
    <2>4. CallOf(t) = Nil /\ CallOf(t)' = r
      BY <2>1, <2>2 DEF CallOf
    <2>5. ASSUME NEW u \in Threads, u # t
          PROVE  ReplyOf(u)' = ReplyOf(u) /\ CallOf(u)' = CallOf(u)
      <3>1. pc'[u] = pc[u] /\ job'[u] = job[u] /\ lent' = lent /\ lastId' = lastId
        BY <1>0, <1>2, <2>5 DEF Arrive, Goto, sql
      <3> QED
        BY <3>1 DEF ReplyOf, CallOf, Op
    <2> DEFINE calls == [u \in Threads |-> CallOf(u)]
               answers == [u \in Threads |-> ReplyOf(u)]
    <2>6. calls[t] = Nil /\ calls' = [calls EXCEPT ![t] = r] /\ answers' = answers
      BY <2>3, <2>4, <2>5
    <2>7. Directory!Begin(t)
      BY <2>1, <2>6 DEF Directory!Begin, CallOf
    <2> QED
      BY <2>7 DEF Promised, Directory!Next, Directory!Decide
  <1>3. CASE Expire \/ UNCHANGED vars
    <2>1. UNCHANGED <<rows, acked, pc, job, lent, lastId>>
      BY <1>3 DEF Expire, ExpireUser, ExpireList, ExpireTotal, vars, sql
    <2>2. \A u \in Threads : ReplyOf(u)' = ReplyOf(u) /\ CallOf(u)' = CallOf(u)
      BY <2>1 DEF ReplyOf, CallOf, Op
    <2> QED
      BY <2>1, <2>2, Stutters DEF Promised
  <1>4. CASE Crash
    <2>1. /\ Crashes /\ rows' = rows /\ acked' = acked
          /\ \A u \in Threads : pc'[u] = "out"
      BY <1>4 DEF Crash
    <2>2. ASSUME NEW u \in Threads
          PROVE  CallOf(u)' = Nil /\ ReplyOf(u)' = [status |-> "pending", value |-> Nil]
      BY <2>1, SameReply, ReplyAt DEF CallOf, Settled
    <2>3. Directory!LoseCalls
      BY <2>1, <2>2 DEF Directory!LoseCalls, Directory!NoAnswer, Directory!Answer, CallOf
    <2> QED
      BY <2>3 DEF Promised, Directory!Next, Directory!Decide
  <1> QED
    BY <1>1, <1>2, <1>3, <1>4

\* The RPCs with cache, connections and SQL, however their steps interleave
\* and whatever fails, are calls to one list of users, each with one moment at
\* which it takes effect: no create is split or done twice, no get sees a user
\* that is not there or misses one that is, and a crash undoes no answer.
THEOREM RepositoryImplementsDirectory == Spec => ImplementsDirectory
  <1>1. Init => Directory!Init
    <2> SUFFICES ASSUME Init PROVE Directory!Init
      OBVIOUS
    <2>1. \A t \in Threads : pc[t] = "out"
      BY DEF Init
    <2>2. \A t \in Threads : ReplyOf(t) = [status |-> "pending", value |-> Nil]
      BY <2>1, SameReply, ReplyAt DEF Settled
    <2> QED
      BY <2>1, <2>2 DEF Init, Directory!Init, Directory!NoAnswer, Directory!Answer
  <1>2. DirectoryInv /\ [Next]_vars => [Directory!Next]_(Directory!vars)
    <2>1. DirectoryInv /\ [Next]_vars => Promised
      BY CommonSteps, CreateSteps, GetSteps, ListSteps, StatsSteps, OtherSteps DEF Next, Work
    <2> QED
      BY <2>1 DEF Promised
  <1> QED
    BY <1>1, <1>2, InitDirectoryInv, NextKeepsDirectoryInv, PTL
    DEF Spec, ImplementsDirectory, Directory!Spec

-----------------------------------------------------------------------------
(* The repository borrows by the rules of ConnLender                       *)

\* A handler asks without a connection, or returns the one it has.
LEMMA WorkBorrows ==
  ASSUME RepositoryInv, NEW t \in Threads, Work(t)
  PROVE  [Lender!Next]_(Lender!vars)
  <1> DEFINE want == {u \in Threads : pc[u] = "acquire"}
  <1>0. /\ pc \in [Threads -> Labels] /\ lent \in [Threads -> Conns \cup {NoConn}]
        /\ Follows(t) /\ (lent[t] # NoConn <=> pc[t] \in SqlLabels)
    BY WorkFollows DEF RepositoryInv, TypeOK, ConnHeld
  <1>1. \A u \in Threads \ {t} : pc'[u] = pc[u]
    BY <1>0 DEF Follows
  <1>2. CASE Release(t)
    <2>1. /\ pc[t] = "release" /\ pc'[t] # "acquire" /\ lent[t] # NoConn
          /\ lent' = [lent EXCEPT ![t] = NoConn]
      BY <1>0, <1>2 DEF Release, Goto, SqlLabels
    <2>2. want' = want
      BY <1>1, <2>1
    <2>3. Lender!Return(t)
      BY <2>1, <2>2 DEF Lender!Return
    <2> QED
      BY <2>3 DEF Lender!Next
  <1>3. CASE ~Release(t)
    <2>1. lent' = lent /\ pc[t] # "acquire"
      BY <1>3 DEF Work, CountRequest, Reply, Insert, SetUser, Smembers, DelKey, DelIndex, DelTotal,
         GetUser, SelectUser, FillUser, GetList, CountRows, SelectPage, FillList, Sadd, GetTotal,
         CountTotal, FillTotal, GetCount
    <2>2. CASE pc'[t] = "acquire"
      <3>1. lent[t] = NoConn
        BY <1>0, <2>1, <2>2 DEF Follows, SqlLabels
      <3>2. t \notin want /\ want' = want \cup {t}
        BY <1>1, <2>1, <2>2
      <3>3. Lender!Ask(t)
        BY <2>1, <3>1, <3>2 DEF Lender!Ask
      <3> QED
        BY <3>3 DEF Lender!Next
    <2>3. CASE pc'[t] # "acquire"
      <3>1. want' = want
        BY <1>1, <2>1, <2>3
      <3> QED
        BY <2>1, <3>1 DEF Lender!vars
    <2> QED
      BY <2>2, <2>3
  <1> QED
    BY <1>2, <1>3

\* acquire() takes a connection that is free.
LEMMA AcquireBorrows ==
  ASSUME RepositoryInv, NEW t \in Threads, Acquire(t)
  PROVE  Lender!Borrow(t)
  <1> DEFINE want == {u \in Threads : pc[u] = "acquire"}
  <1>1. /\ pc[t] = "acquire" /\ pc' = [pc EXCEPT ![t] = AfterAcquire(Op(t))]
        /\ \E c \in Lender!Free : lent' = [lent EXCEPT ![t] = c]
    BY DEF Acquire, Goto
  <1>2. AfterAcquire(Op(t)) # "acquire"
    BY <1>1, NextLabels DEF RepositoryInv, OnItsPath, Op
  <1>3. t \in want /\ want' = want \ {t}
    BY <1>1, <1>2 DEF RepositoryInv, TypeOK
  <1> QED
    BY <1>1, <1>3 DEF Lender!Borrow

\* No handler waits for a connection while it holds one, and none keeps one
\* when its method returns: whatever path a request takes, its acquire() and
\* the end of its guard follow the rules under which the pool promises that
\* somebody who waits is served.
THEOREM BorrowsByTheRules == Spec => UsesLender
  <1>1. RepositoryInv /\ [Next]_vars => [Lender!Next \/ Crash]_(Lender!vars)
    <2> SUFFICES ASSUME RepositoryInv, [Next]_vars
                 PROVE  Lender!Next \/ Crash \/ UNCHANGED Lender!vars
      OBVIOUS
    <2>1. ASSUME NEW t \in Threads, Work(t)
          PROVE  Lender!Next \/ UNCHANGED Lender!vars
      BY <2>1, WorkBorrows
    <2>2. ASSUME NEW t \in Threads, Acquire(t)
          PROVE  Lender!Next
      BY <2>2, AcquireBorrows DEF Lender!Next
    <2>3. ASSUME NEW t \in Threads, NEW r \in Requests, Arrive(t, r)
          PROVE  UNCHANGED Lender!vars
      <3>1. lent' = lent /\ \A u \in Threads : pc'[u] = "acquire" <=> pc[u] = "acquire"
        BY <2>3 DEF Arrive, Goto, RepositoryInv, TypeOK
      <3> QED
        BY <3>1 DEF Lender!vars
    <2>4. CASE Expire \/ UNCHANGED vars
      BY <2>4 DEF Expire, ExpireUser, ExpireList, ExpireTotal, vars, Lender!vars
    <2> QED
      BY <2>1, <2>2, <2>3, <2>4 DEF Next
  <1> QED
    BY <1>1, RepositoryInvariant, PTL DEF Spec, UsesLender

=================================================================================
