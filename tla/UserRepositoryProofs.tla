------------------------ MODULE UserRepositoryProofs ------------------------
(***************************************************************************)
(* Proofs about UserRepository, for any number of threads, connections,    *)
(* users and pages, whatever fails and whenever the server crashes.        *)
(*                                                                         *)
(* What carries them is that a thread holds a connection exactly while it  *)
(* runs SQL and that no other thread holds the same one: only then is the  *)
(* last insert id of the connection that of the thread's own INSERT.       *)
(***************************************************************************)
EXTENDS UserRepository, SequenceTheorems, TLAPS

\* The labels at which the guard of a method is alive.
SqlLabels ==
  {"insert", "setUser", "smembers", "delKeys", "delTotal", "selectUser",
   "fillUser", "countRows", "selectPage", "fillList", "sadd", "countTotal",
   "fillTotal", "release"}

\* A thread has a connection exactly at those labels, and has it alone.
ConnHeld == \A t \in Threads : lent[t] # NoConn <=> pc[t] \in SqlLabels
ConnExclusive ==
  \A t, u \in Threads : lent[t] = lent[u] /\ lent[t] # NoConn => t = u

LabelsOf(op) ==
  CASE op = "create" -> {"count", "acquire", "insert", "setUser", "smembers",
                         "delKeys", "delTotal", "release", "reply"}
    [] op = "get"    -> {"count", "acquire", "getUser", "selectUser",
                         "fillUser", "release", "reply"}
    [] op = "list"   -> {"count", "acquire", "getList", "countRows",
                         "selectPage", "fillList", "sadd", "release", "reply"}
    [] op = "stats"  -> {"acquire", "getTotal", "countTotal", "fillTotal",
                         "release", "getCount", "reply"}

\* A busy thread runs the code of its request.
OnItsPath ==
  \A t \in Threads : pc[t] # "out" => job[t].req \in Requests /\ pc[t] \in LabelsOf(Op(t))

\* A request that passed the validation has a name or an id.
Validated ==
  \A t \in Threads : pc[t] \notin {"out", "count", "reply"} => ~Invalid(job[t].req)

\* Thread t has inserted a row and put together the user to reply.
HasUser(t) ==
  \/ pc[t] \in {"smembers", "delKeys", "delTotal"}
  \/ pc[t] \in {"release", "reply"} /\ Op(t) = "create" /\ job[t].status = "ok"

\* The id of the row that thread t has inserted and not yet told its client.
OwnIds(t) ==
  IF pc[t] = "setUser" THEN {lastId[lent[t]]}
  ELSE IF HasUser(t) THEN {job[t].user.id} ELSE {}

\* That row exists, has the requested name, and belongs to one thread.
InsertedRows ==
  /\ acked \subseteq 1..Len(rows)
  /\ \A t \in Threads : \A i \in OwnIds(t) :
       i \in 1..Len(rows) /\ i \notin acked /\ rows[i] = job[t].req.name
  /\ \A t, u \in Threads : t # u => OwnIds(t) \cap OwnIds(u) = {}

\* The user to reply is the row inserted, the user to cache is the row read.
UsersAtHand ==
  \A t \in Threads :
    /\ HasUser(t) => job[t].user \in User /\ job[t].user.name = job[t].req.name
    /\ pc[t] = "fillUser" =>
         job[t].req.id \in 1..Len(rows) /\ job[t].user = Row(job[t].req.id)

RepositoryInv ==
  /\ TypeOK
  /\ ConnHeld
  /\ ConnExclusive
  /\ OnItsPath
  /\ Validated
  /\ InsertedRows
  /\ UsersAtHand
  /\ CachedUsersAreRows

-----------------------------------------------------------------------------
(* Requests, rows and pages                                                *)

\* The fields that a request has.
LEMMA RequestFields ==
  ASSUME NEW r \in Requests
  PROVE  /\ r.op \in {"create", "get", "list", "stats"}
         /\ r.op = "create" => r.name \in Names
         /\ r.op = "get" => r.id \in Ids \cup {EmptyId}
         /\ r.op = "list" => r.limit \in Int /\ r.offset \in Int
  BY RequestsAssumption DEF CreateRequest, GetRequest, ListRequest, StatsRequest

\* A normalised page has a positive limit and an offset that is not negative.
LEMMA PageFields ==
  ASSUME NEW r \in Requests, r.op = "list"
  PROVE  /\ Page(r).limit \in Nat \ {0}
         /\ Page(r).offset \in Nat
         /\ ListCacheKey(Page(r)) \in Keys
  BY RequestFields DEF Page, Keys, ListCacheKey

\* Rows are users, and so are the elements of a page.
LEMMA RowsAreUsers ==
  ASSUME rows \in Seq(Names)
  PROVE  /\ Len(rows) \in Nat
         /\ \A i \in 1..Len(rows) : rows[i] \in Names /\ Row(i) \in User
  BY LenProperties, ElementOfSeq DEF Row, User

\* The rows of a page are a sequence of users.
LEMMA PagesAreUsers ==
  ASSUME rows \in Seq(Names), NEW page, page.limit \in Nat, page.offset \in Nat,
         NEW n \in 0..Len(rows)
  PROVE  PageOf(n, page) \in Seq(User)
  <1> DEFINE first == page.offset
             size == IF n <= first THEN 0
                     ELSE IF n - first < page.limit THEN n - first ELSE page.limit
  <1>1. Len(rows) \in Nat /\ n \in Nat /\ n <= Len(rows)
    BY LenProperties
  <1>2. size \in Nat /\ \A k \in 1..size : first + k \in 1..Len(rows)
    BY <1>1
  <1>3. \A k \in 1..size : Row(first + k) \in User
    BY <1>2, RowsAreUsers
  <1>4. PageOf(n, page) = [k \in 1..size |-> Row(first + k)]
    BY DEF PageOf
  <1> HIDE DEF size, first
  <1>5. [k \in 1..size |-> Row(first + k)] \in Seq(User)
    BY <1>2, <1>3, IsASeq
  <1> QED
    BY <1>4, <1>5

\* An INSERT leaves the earlier rows as they are.
LEMMA AppendRow ==
  ASSUME rows \in Seq(Names), NEW x \in Names, rows' = Append(rows, x)
  PROVE  /\ rows' \in Seq(Names)
         /\ Len(rows) \in Nat
         /\ Len(rows') = Len(rows) + 1
         /\ \A i \in 1..Len(rows) : rows'[i] = rows[i] /\ Row(i)' = Row(i)
         /\ rows'[Len(rows) + 1] = x
  BY AppendProperties, LenProperties DEF Row

-----------------------------------------------------------------------------
(* Types                                                                   *)

\* A request that arrives gets a job of its own.
LEMMA NewJob ==
  ASSUME NEW r \in Requests \cup {Nil}, acked \subseteq Nat
  PROVE  /\ [NoJob EXCEPT !.req = r, !.known = acked] \in Job
         /\ NoJob \in Job
  BY EmptySeq DEF NoJob, Job, Statuses

\* Where a counted request goes, and where one goes that has a connection.
LEMMA NextLabels ==
  ASSUME NEW r \in Requests
  PROVE  /\ r.op # "stats" => AfterCount(r) \in LabelsOf(r.op) \ SqlLabels
         /\ r.op # "stats" => AfterCount(r) \in {"acquire", "getUser", "getList"}
         /\ AfterAcquire(r.op) \in LabelsOf(r.op)
         /\ AfterAcquire(r.op) \in {"insert", "selectUser", "countRows", "countTotal"}
         /\ LabelsOf(r.op) \subseteq Labels
  BY RequestFields DEF AfterCount, AfterAcquire, LabelsOf, Labels, SqlLabels

\* A job stays one when a handler sets its local variables or its reply.
LEMMA JobUpdates ==
  ASSUME NEW j \in Job
  PROVE  /\ \A s \in Statuses : [j EXCEPT !.status = s] \in Job
         /\ \A u \in User \cup {Nil} : [j EXCEPT !.user = u] \in Job
         /\ \A u \in User \cup {Nil} : \A s \in Statuses :
              [j EXCEPT !.user = u, !.status = s] \in Job
         /\ \A k \in SUBSET Keys : [j EXCEPT !.keys = k] \in Job
         /\ \A n \in Nat : [j EXCEPT !.total = n] \in Job
         /\ \A q \in Seq(User) : [j EXCEPT !.users = q] \in Job
         /\ \A n \in Nat : \A q \in Seq(User) : \A s \in Statuses :
              [j EXCEPT !.total = n, !.users = q, !.status = s] \in Job
         /\ \A n \in Nat : \A s \in Statuses :
              [j EXCEPT !.count = n, !.status = s] \in Job
  BY DEF Job

\* Changing the job of one thread to a job keeps the type of job.
LEMMA OneJobTyped ==
  ASSUME TypeOK, NEW t \in Threads, NEW j \in Job, job' = [job EXCEPT ![t] = j]
  PROVE  job' \in [Threads -> Job]
  BY DEF TypeOK

\* A failed statement sets the status and leads to the end of the guard.
LEMMA SqlErrorTyped ==
  ASSUME TypeOK, NEW t \in Threads, NEW status \in Statuses, SqlError(t, status)
  PROVE  job' \in [Threads -> Job] /\ pc' \in [Threads -> Labels]
  <1>1. [job[t] EXCEPT !.status = status] \in Job
    BY JobUpdates DEF TypeOK
  <1>2. job' \in [Threads -> Job]
    BY <1>1, OneJobTyped DEF SqlError
  <1> QED
    BY <1>2 DEF SqlError, Goto, TypeOK, Labels

\* A thread at a label of ListUsers has a page to list.
LEMMA ListPage ==
  ASSUME RepositoryInv, NEW t \in Threads,
         pc[t] \in {"getList", "selectPage", "fillList", "sadd"}
  PROVE  /\ PageRequested(t).limit \in Nat /\ PageRequested(t).offset \in Nat
         /\ ListCacheKey(PageRequested(t)) \in Keys
  <1>1. job[t].req \in Requests /\ pc[t] \in LabelsOf(job[t].req.op)
    BY DEF RepositoryInv, OnItsPath, Op
  <1>2. job[t].req.op = "list"
    BY <1>1, RequestFields DEF LabelsOf
  <1> QED
    BY <1>1, <1>2, PageFields DEF PageRequested

\* The steps of a handler keep the types.
LEMMA WorkTyped ==
  ASSUME RepositoryInv, NEW t \in Threads, Work(t)
  PROVE  TypeOK'
  <1>0. /\ TypeOK /\ job[t] \in Job /\ pc[t] \in Labels
        /\ pc[t] # "out" => job[t].req \in Requests /\ pc[t] \in LabelsOf(Op(t))
    BY DEF RepositoryInv, TypeOK, OnItsPath
  <1> USE DEF redis, sql, Goto
  <1>1. CASE CountRequest(t)
    <2>1. job[t].req \in Requests /\ Op(t) # "stats"
      BY <1>0, <1>1, RequestFields DEF CountRequest, LabelsOf, Op
    <2>2. AfterCount(job[t].req) \in Labels
      BY <2>1, NextLabels DEF Op
    <2>3. requestCount' \in 0..MaxCount
      BY <1>0, <1>1, BoundsAssumption DEF CountRequest, TypeOK
    <2>4. pc' \in [Threads -> Labels]
      BY <1>0, <1>1, <2>2 DEF CountRequest, TypeOK, Labels
    <2>5. job' \in [Threads -> Job]
      <3>1. CASE job' = [job EXCEPT ![t].status = "invalid"]
        <4>1. [job[t] EXCEPT !.status = "invalid"] \in Job
          BY <1>0, JobUpdates DEF Statuses
        <4> QED
          BY <1>0, <3>1, <4>1, OneJobTyped
      <3> QED
        BY <1>0, <1>1, <3>1 DEF CountRequest, TypeOK
    <2> QED
      BY <1>0, <1>1, <2>3, <2>4, <2>5 DEF CountRequest, TypeOK
  <1>2. CASE Release(t)
    BY <1>0, <1>2 DEF Release, TypeOK, Labels
  <1>3. CASE Reply(t)
    <2>1. job' \in [Threads -> Job]
      BY <1>0, <1>3, NewJob DEF Reply, TypeOK
    <2>2. acked' \subseteq Nat
      BY <1>0, <1>3 DEF Reply, TypeOK, RepositoryInv, UsersAtHand, HasUser, User
    <2> QED
      BY <1>0, <1>3, <2>1, <2>2 DEF Reply, TypeOK, Labels
  <1>4. CASE Insert(t)
    <2>1. job[t].req.name \in Names
      BY <1>0, <1>4, RequestFields DEF Insert, LabelsOf, Op
    <2>2. rows' \in {rows, Append(rows, job[t].req.name)}
      BY <1>4 DEF Insert
    <2>3. rows' \in Seq(Names) /\ Len(rows) \in Nat
      BY <1>0, <2>1, <2>2, AppendProperties, LenProperties DEF TypeOK
    <2>4. lastId' \in [Conns -> Nat]
      BY <1>0, <1>4, <2>3 DEF Insert, TypeOK
    <2>5. job' \in [Threads -> Job] /\ pc' \in [Threads -> Labels]
      BY <1>0, <1>4, SqlErrorTyped DEF Insert, TypeOK, Statuses, Labels
    <2> QED
      BY <1>0, <1>4, <2>3, <2>4, <2>5 DEF Insert, TypeOK
  <1>5. CASE SetUser(t)
    <2> DEFINE u == [id |-> lastId[lent[t]], name |-> job[t].req.name]
    <2>1. u \in User
      BY <1>0, <1>5, RequestFields
      DEF SetUser, LabelsOf, Op, User, RepositoryInv, ConnHeld, SqlLabels, TypeOK
    <2>2. /\ job' = [job EXCEPT ![t].user = u]
          /\ userCache' \in {userCache, [userCache EXCEPT ![u.id] = u]}
      BY <1>5 DEF SetUser
    <2> HIDE DEF u
    <2>3. job' \in [Threads -> Job] /\ userCache' \in [Ids -> User \cup {Nil}]
      BY <1>0, <2>1, <2>2 DEF TypeOK, Job
    <2> QED
      BY <1>0, <1>5, <2>3 DEF SetUser, TypeOK, Labels
  <1>6. CASE Smembers(t)
    <2>1. [job[t] EXCEPT !.keys = listIndex] \in Job
      BY <1>0, JobUpdates DEF TypeOK
    <2>2. job' \in [Threads -> Job]
      BY <1>0, <1>6, <2>1, OneJobTyped DEF Smembers, TypeOK
    <2> QED
      BY <1>0, <1>6, <2>2 DEF Smembers, TypeOK, Labels
  <1>7. CASE DelKey(t)
    <2>1. PICK k \in job[t].keys :
            /\ job' = [job EXCEPT ![t].keys = @ \ {k}]
            /\ listCache' \in {listCache, [listCache EXCEPT ![k] = Nil]}
      BY <1>7 DEF DelKey
    <2>2. job[t].keys \subseteq Keys
      BY <1>0 DEF Job
    <2>3. [job[t] EXCEPT !.keys = @ \ {k}] \in Job
      BY <1>0, <2>2 DEF Job
    <2>4. job' \in [Threads -> Job]
      BY <1>0, <2>1, <2>3, OneJobTyped
    <2>5. listCache' \in [Keys -> Cached \cup {Nil}]
      BY <1>0, <2>1 DEF TypeOK
    <2> QED
      BY <1>0, <1>7, <2>4, <2>5 DEF DelKey, TypeOK
  <1>8. CASE DelIndex(t)
    BY <1>0, <1>8 DEF DelIndex, TypeOK, Labels
  <1>9. CASE DelTotal(t)
    <2>1. [job[t] EXCEPT !.status = "ok"] \in Job
      BY <1>0, JobUpdates DEF Statuses
    <2>2. job' \in [Threads -> Job]
      BY <1>0, <1>9, <2>1, OneJobTyped DEF DelTotal
    <2> QED
      BY <1>0, <1>9, <2>2 DEF DelTotal, TypeOK, Labels
  <1>10. CASE GetUser(t)
    <2> DEFINE hit == userCache[job[t].req.id]
    <2>1. job[t].req.id \in Ids
      BY <1>0, <1>10, RequestFields
      DEF GetUser, LabelsOf, Op, RepositoryInv, Validated, Invalid
    <2>2. hit \in User \cup {Nil}
      BY <1>0, <2>1 DEF TypeOK
    <2> HIDE DEF hit
    <2>3. [job[t] EXCEPT !.user = hit, !.status = "ok"] \in Job
      BY <1>0, <2>2, JobUpdates DEF Statuses
    <2>4. job' \in [Threads -> Job]
      BY <1>0, <1>10, <2>3, OneJobTyped DEF GetUser, TypeOK, hit
    <2> QED
      BY <1>0, <1>10, <2>4 DEF GetUser, TypeOK, Labels
  <1>11. CASE SelectUser(t)
    <2>1. job[t].req.id \in Ids
      BY <1>0, <1>11, RequestFields
      DEF SelectUser, LabelsOf, Op, RepositoryInv, Validated, Invalid
    <2>2. ASSUME job[t].req.id <= Len(rows)
          PROVE  [job[t] EXCEPT !.user = Row(job[t].req.id)] \in Job
      <3>1. Row(job[t].req.id) \in User
        BY <1>0, <2>1, <2>2, RowsAreUsers, BoundsAssumption DEF TypeOK, Ids
      <3> QED
        BY <1>0, <3>1, JobUpdates
    <2>3. [job[t] EXCEPT !.status = "not_found"] \in Job
      BY <1>0, JobUpdates DEF Statuses
    <2>4. job' \in [Threads -> Job]
      BY <1>0, <1>11, <2>2, <2>3, OneJobTyped DEF SelectUser, SqlError
    <2> QED
      BY <1>0, <1>11, <2>4 DEF SelectUser, SqlError, TypeOK, Labels
  <1>12. CASE FillUser(t)
    <2>1. job[t].user \in User \cup {Nil}
      BY <1>0 DEF Job
    <2>2. [job[t] EXCEPT !.status = "ok"] \in Job
      BY <1>0, JobUpdates DEF Statuses
    <2>3. job' \in [Threads -> Job]
      BY <1>0, <1>12, <2>2, OneJobTyped DEF FillUser
    <2> QED
      BY <1>0, <1>12, <2>1, <2>3 DEF FillUser, TypeOK, Labels
  <1>13. CASE GetList(t)
    <2> DEFINE hit == listCache[ListCacheKey(PageRequested(t))]
    <2>1. hit \in Cached \cup {Nil}
      BY <1>0, <1>13, ListPage DEF GetList, TypeOK
    <2> HIDE DEF hit
    <2>2. CASE hit \in Cached
      <3>1. [job[t] EXCEPT !.total = hit.total, !.users = hit.users, !.status = "ok"] \in Job
        BY <1>0, <2>2, JobUpdates DEF Statuses, Cached
      <3>2. job' \in [Threads -> Job]
        BY <1>0, <1>13, <3>1, OneJobTyped DEF GetList, TypeOK, hit
      <3> QED
        BY <1>0, <1>13, <3>2 DEF GetList, TypeOK, Labels
    <2>3. CASE hit = Nil
      BY <1>0, <1>13, <2>3 DEF GetList, TypeOK, Labels, hit
    <2> QED
      BY <2>1, <2>2, <2>3
  <1>14. CASE CountRows(t)
    <2>1. [job[t] EXCEPT !.total = Len(rows)] \in Job
      BY <1>0, RowsAreUsers, JobUpdates DEF TypeOK
    <2>2. job' \in [Threads -> Job] /\ pc' \in [Threads -> Labels]
      BY <1>0, <1>14, <2>1, OneJobTyped, SqlErrorTyped
      DEF CountRows, TypeOK, Labels, Statuses
    <2> QED
      BY <1>0, <1>14, <2>2 DEF CountRows, TypeOK
  <1>15. CASE SelectPage(t)
    <2> DEFINE q == PageOf(Len(rows), PageRequested(t))
    <2>1. q \in Seq(User)
      <3>1. PageRequested(t).limit \in Nat /\ PageRequested(t).offset \in Nat
        BY <1>15, ListPage DEF SelectPage
      <3>2. Len(rows) \in 0..Len(rows)
        BY <1>0, RowsAreUsers DEF TypeOK
      <3> QED
        BY <1>0, <3>1, <3>2, PagesAreUsers DEF TypeOK
    <2> HIDE DEF q
    <2>2. [job[t] EXCEPT !.users = q] \in Job
      BY <1>0, <2>1, JobUpdates
    <2>3. job' \in [Threads -> Job] /\ pc' \in [Threads -> Labels]
      BY <1>0, <1>15, <2>2, OneJobTyped, SqlErrorTyped
      DEF SelectPage, TypeOK, Labels, Statuses, q
    <2> QED
      BY <1>0, <1>15, <2>3 DEF SelectPage, TypeOK
  <1>16. CASE FillList(t)
    <2> DEFINE c == [total |-> job[t].total, users |-> job[t].users]
               k == ListCacheKey(PageRequested(t))
    <2>1. c \in Cached
      BY <1>0 DEF Job, Cached
    <2>2. listCache' \in {listCache, [listCache EXCEPT ![k] = c]}
      BY <1>16 DEF FillList
    <2> HIDE DEF c, k
    <2>3. listCache' \in [Keys -> Cached \cup {Nil}]
      BY <1>0, <2>1, <2>2 DEF TypeOK
    <2> QED
      BY <1>0, <1>16, <2>3 DEF FillList, TypeOK, Labels
  <1>17. CASE Sadd(t)
    <2>1. ListCacheKey(PageRequested(t)) \in Keys
      BY <1>17, ListPage DEF Sadd
    <2>2. [job[t] EXCEPT !.status = "ok"] \in Job
      BY <1>0, JobUpdates DEF Statuses
    <2>3. job' \in [Threads -> Job]
      BY <1>0, <1>17, <2>2, OneJobTyped DEF Sadd
    <2>4. listIndex' \subseteq Keys
      BY <1>0, <1>17, <2>1 DEF Sadd, TypeOK
    <2> QED
      BY <1>0, <1>17, <2>3, <2>4 DEF Sadd, TypeOK, Labels
  <1>18. CASE GetTotal(t)
    <2>1. totalCache # Nil => [job[t] EXCEPT !.total = totalCache] \in Job
      BY <1>0, JobUpdates DEF TypeOK
    <2>2. job' \in [Threads -> Job]
      BY <1>0, <1>18, <2>1, OneJobTyped DEF GetTotal, TypeOK
    <2> QED
      BY <1>0, <1>18, <2>2 DEF GetTotal, TypeOK, Labels
  <1>19. CASE CountTotal(t)
    <2>1. [job[t] EXCEPT !.total = Len(rows)] \in Job
      BY <1>0, RowsAreUsers, JobUpdates DEF TypeOK
    <2>2. job' \in [Threads -> Job] /\ pc' \in [Threads -> Labels]
      BY <1>0, <1>19, <2>1, OneJobTyped, SqlErrorTyped
      DEF CountTotal, TypeOK, Labels, Statuses
    <2> QED
      BY <1>0, <1>19, <2>2 DEF CountTotal, TypeOK
  <1>20. CASE FillTotal(t)
    <2>1. job[t].total \in Nat
      BY <1>0 DEF Job
    <2> QED
      BY <1>0, <1>20, <2>1 DEF FillTotal, TypeOK, Labels
  <1>21. CASE GetCount(t)
    <2>1. PICK n \in {requestCount, 0} :
            job' = [job EXCEPT ![t].count = n, ![t].status = "ok"]
      BY <1>21 DEF GetCount
    <2>2. n \in Nat
      BY <1>0, <2>1, BoundsAssumption DEF TypeOK
    <2>3. [job[t] EXCEPT !.count = n, !.status = "ok"] \in Job
      BY <1>0, <2>2, JobUpdates DEF Statuses
    <2>4. job' \in [Threads -> Job]
      BY <1>0, <2>1, <2>3, OneJobTyped
    <2> QED
      BY <1>0, <1>21, <2>4 DEF GetCount, TypeOK, Labels
  <1> QED
    BY <1>1, <1>2, <1>3, <1>4, <1>5, <1>6, <1>7, <1>8, <1>9, <1>10, <1>11,
       <1>12, <1>13, <1>14, <1>15, <1>16, <1>17, <1>18, <1>19, <1>20, <1>21
    DEF Work

\* A request that arrives, a connection that is borrowed, a key that expires
\* and a crash keep the types.
LEMMA OthersTyped ==
  ASSUME RepositoryInv,
         \/ \E t \in Threads : Acquire(t) \/ \E r \in Requests : Arrive(t, r)
         \/ Expire \/ Crash
  PROVE  TypeOK'
  <1>0. TypeOK
    BY DEF RepositoryInv
  <1> USE <1>0 DEF redis, sql, Goto
  <1>1. ASSUME NEW t \in Threads, Acquire(t)
        PROVE  TypeOK'
    <2>1. AfterAcquire(Op(t)) \in Labels
      BY <1>1, NextLabels DEF Op, Labels, Acquire, RepositoryInv, OnItsPath
    <2>2. lent' \in [Threads -> Conns \cup {NoConn}]
      BY <1>1 DEF Acquire, TypeOK, Lender!Free
    <2> QED
      BY <1>1, <2>1, <2>2 DEF Acquire, TypeOK
  <1>2. ASSUME NEW t \in Threads, NEW r \in Requests, Arrive(t, r)
        PROVE  TypeOK'
    <2>1. [NoJob EXCEPT !.req = r, !.known = acked] \in Job
      BY NewJob DEF TypeOK
    <2>2. job' \in [Threads -> Job]
      BY <1>2, <2>1, OneJobTyped DEF Arrive
    <2> QED
      BY <1>2, <2>2 DEF Arrive, TypeOK, Labels
  <1>3. CASE Expire
    BY <1>3 DEF Expire, ExpireUser, ExpireList, ExpireTotal, TypeOK
  <1>4. CASE Crash
    <2>1. NoJob \in Job
      BY NewJob DEF TypeOK
    <2> QED
      BY <1>4, <2>1 DEF Crash, TypeOK, Labels
  <1> QED
    BY <1>1, <1>2, <1>3, <1>4

-----------------------------------------------------------------------------
(* Paths and connections                                                   *)

\* Where a step of a handler may lead.
Follows(t) ==
  /\ pc[t] # "out"
  /\ \A u \in Threads \ {t} : pc'[u] = pc[u] /\ job'[u] = job[u]
  /\ pc'[t] # "out" =>
       job'[t].req = job[t].req /\ pc'[t] # "count" /\ pc'[t] \in LabelsOf(Op(t))
  /\ pc'[t] \notin {"out", "reply"} => ~Invalid(job[t].req)
  /\ \/ lent' = lent /\ (pc'[t] \in SqlLabels <=> pc[t] \in SqlLabels)
     \/ lent' = [lent EXCEPT ![t] = NoConn] /\ pc'[t] \notin SqlLabels

\* A step of a handler leads to a label of its request, and the connection
\* comes and goes with the labels at which the guard is alive.
LEMMA WorkFollows ==
  ASSUME RepositoryInv, NEW t \in Threads, Work(t)
  PROVE  Follows(t)
  <1>0. /\ pc \in [Threads -> Labels] /\ job \in [Threads -> Job]
        /\ pc[t] # "out" => job[t].req \in Requests /\ pc[t] \in LabelsOf(Op(t))
        /\ pc[t] \notin {"out", "count", "reply"} => ~Invalid(job[t].req)
        /\ job[t] \in Job
    BY DEF RepositoryInv, TypeOK, OnItsPath, Validated
  <1> USE <1>0 DEF Follows, Goto, SqlLabels
  <1>2. CASE CountRequest(t)
    <2>1. job[t].req \in Requests /\ Op(t) # "stats"
      BY <1>2, RequestFields DEF CountRequest, LabelsOf, Op
    <2>2. AfterCount(job[t].req) \in {"acquire", "getUser", "getList"} \cap LabelsOf(Op(t))
      BY <2>1, NextLabels DEF Op
    <2>3. "reply" \in LabelsOf(Op(t))
      BY <2>1, RequestFields DEF LabelsOf, Op
    <2> QED
      BY <1>2, <2>2, <2>3 DEF CountRequest, Job
  <1>3. CASE Release(t)
    <2>1. "reply" \in LabelsOf(Op(t)) /\ "getCount" \in LabelsOf("stats")
      BY <1>3, RequestFields DEF LabelsOf, Op, Release
    <2> QED
      BY <1>3, <2>1 DEF Release
  <1>4. CASE Reply(t)
    BY <1>4 DEF Reply
  <1>5. CASE Insert(t) \/ SetUser(t) \/ Smembers(t) \/ DelKey(t) \/ DelIndex(t) \/ DelTotal(t)
    <2>1. Op(t) = "create"
      BY <1>5, RequestFields
      DEF Insert, SetUser, Smembers, DelKey, DelIndex, DelTotal, LabelsOf, Op
    <2> QED
      BY <1>5, <2>1
      DEF Insert, SqlError, SetUser, Smembers, DelKey, DelIndex, DelTotal, LabelsOf, Job
  <1>6. CASE GetUser(t) \/ SelectUser(t) \/ FillUser(t)
    <2>1. Op(t) = "get"
      BY <1>6, RequestFields DEF GetUser, SelectUser, FillUser, LabelsOf, Op
    <2> QED
      BY <1>6, <2>1 DEF GetUser, SelectUser, SqlError, FillUser, LabelsOf, Job
  <1>7. CASE GetList(t) \/ CountRows(t) \/ SelectPage(t) \/ FillList(t) \/ Sadd(t)
    <2>1. Op(t) = "list"
      BY <1>7, RequestFields DEF GetList, CountRows, SelectPage, FillList, Sadd, LabelsOf, Op
    <2> QED
      BY <1>7, <2>1
      DEF GetList, CountRows, SelectPage, SqlError, FillList, Sadd, LabelsOf, Job
  <1>8. CASE GetTotal(t) \/ CountTotal(t) \/ FillTotal(t) \/ GetCount(t)
    <2>1. Op(t) = "stats"
      BY <1>8, RequestFields DEF GetTotal, CountTotal, FillTotal, GetCount, LabelsOf, Op
    <2>2. CASE GetTotal(t) \/ FillTotal(t)
      BY <2>1, <2>2 DEF GetTotal, FillTotal, LabelsOf, Job
    <2>3. CASE CountTotal(t)
      BY <2>1, <2>3 DEF CountTotal, SqlError, LabelsOf, Job
    <2>4. CASE GetCount(t)
      BY <2>1, <2>4 DEF GetCount, LabelsOf, Job
    <2> QED
      BY <1>8, <2>2, <2>3, <2>4
  <1> QED
    BY <1>2, <1>3, <1>4, <1>5, <1>6, <1>7, <1>8 DEF Work

Structure == ConnHeld /\ ConnExclusive /\ OnItsPath /\ Validated

\* The invariants on labels and connections follow from Follows.
LEMMA WorkStructure ==
  ASSUME RepositoryInv, NEW t \in Threads, Follows(t)
  PROVE  Structure'
  <1> USE DEF RepositoryInv
  <1>0. lent \in [Threads -> Conns \cup {NoConn}]
    BY DEF TypeOK
  <1>1. ConnHeld'
    BY <1>0 DEF Follows, ConnHeld
  <1>2. ConnExclusive'
    BY <1>0 DEF Follows, ConnExclusive
  <1>3. OnItsPath'
    BY DEF Follows, OnItsPath, Op
  <1>4. Validated'
    BY DEF Follows, Validated
  <1> QED
    BY <1>1, <1>2, <1>3, <1>4 DEF Structure

\* A borrowed connection is nobody else's; a new request starts its path.
LEMMA OthersStructure ==
  ASSUME RepositoryInv,
         \/ \E t \in Threads : Acquire(t) \/ \E r \in Requests : Arrive(t, r)
         \/ Expire \/ Crash
  PROVE  Structure'
  <1> USE DEF Structure, Goto, SqlLabels
  <1>0. /\ lent \in [Threads -> Conns \cup {NoConn}]
        /\ pc \in [Threads -> Labels] /\ job \in [Threads -> Job]
        /\ ConnHeld /\ ConnExclusive /\ OnItsPath /\ Validated
    BY DEF RepositoryInv, TypeOK
  <1>1. ASSUME NEW t \in Threads, Acquire(t)
        PROVE  Structure'
    <2>1. PICK c \in Lender!Free : lent' = [lent EXCEPT ![t] = c]
      BY <1>1 DEF Acquire
    <2>2. c # NoConn /\ \A u \in Threads : lent[u] # c
      BY NilAssumption DEF Lender!Free
    <2>3. /\ job[t].req \in Requests /\ ~Invalid(job[t].req)
          /\ AfterAcquire(Op(t)) \in LabelsOf(Op(t))
          /\ AfterAcquire(Op(t)) \in {"insert", "selectUser", "countRows", "countTotal"}
      BY <1>0, <1>1, NextLabels DEF Acquire, OnItsPath, Validated, Op
    <2>4. /\ pc' = [pc EXCEPT ![t] = AfterAcquire(Op(t))]
          /\ job' = job
      BY <1>1 DEF Acquire
    <2>5. ConnHeld'
      BY <1>0, <2>1, <2>2, <2>3, <2>4 DEF ConnHeld
    <2>6. ConnExclusive'
      BY <1>0, <2>1, <2>2 DEF ConnExclusive
    <2>7. OnItsPath'
      BY <1>0, <2>3, <2>4 DEF OnItsPath, Op
    <2>8. Validated'
      BY <1>0, <2>3, <2>4 DEF Validated
    <2> QED
      BY <2>5, <2>6, <2>7, <2>8
  <1>2. ASSUME NEW t \in Threads, NEW r \in Requests, Arrive(t, r)
        PROVE  Structure'
    <2> DEFINE j == [NoJob EXCEPT !.req = r, !.known = acked]
    <2>1. /\ job' = [job EXCEPT ![t] = j]
          /\ pc' = [pc EXCEPT ![t] = IF r.op = "stats" THEN "getTotal" ELSE "count"]
          /\ pc[t] = "out" /\ lent' = lent
      BY <1>2 DEF Arrive
    <2>2. j.req = r
      BY DEF NoJob
    <2> HIDE DEF j
    <2>3. ConnHeld' /\ ConnExclusive'
      BY <1>0, <2>1 DEF ConnHeld, ConnExclusive
    <2>4. (IF r.op = "stats" THEN "getTotal" ELSE "count") \in LabelsOf(r.op)
      BY RequestFields DEF LabelsOf
    <2>5. OnItsPath'
      BY <1>0, <2>1, <2>2, <2>4 DEF OnItsPath, Op
    <2>6. Validated'
      <3>1. r.op = "stats" => ~Invalid(r)
        BY DEF Invalid
      <3> QED
        BY <1>0, <2>1, <2>2, <3>1 DEF Validated
    <2> QED
      BY <2>3, <2>5, <2>6
  <1>3. CASE Expire
    <2>1. UNCHANGED <<lent, pc, job>>
      BY <1>3 DEF Expire, ExpireUser, ExpireList, ExpireTotal
    <2> QED
      BY <1>0, <2>1 DEF ConnHeld, ConnExclusive, OnItsPath, Validated, Op
  <1>4. CASE Crash
    BY <1>0, <1>4 DEF Crash, ConnHeld, ConnExclusive, OnItsPath, Validated
  <1> QED
    BY <1>1, <1>2, <1>3, <1>4

-----------------------------------------------------------------------------
(* Users                                                                   *)

Users == InsertedRows /\ UsersAtHand /\ CachedUsersAreRows

\* Thread t still has what it had, or has nothing of its own any more.
Keeps(t) ==
  /\ OwnIds(t)' = OwnIds(t)
  /\ HasUser(t)' => HasUser(t)
  /\ pc'[t] = "fillUser" => pc[t] = "fillUser"
  /\ job'[t].req = job[t].req /\ job'[t].user = job[t].user
HasNothing(t) ==
  OwnIds(t)' = {} /\ ~HasUser(t)' /\ pc'[t] # "fillUser"

\* A step that inserts nothing, caches no new user and moves each thread to
\* where it keeps its own row, or has none, keeps what is known of users.
LEMMA UsersKept ==
  ASSUME RepositoryInv, UNCHANGED <<rows, acked>>,
         \A i \in Ids : userCache'[i] \in {userCache[i], Nil},
         \A t \in Threads : Keeps(t) \/ HasNothing(t)
  PROVE  Users'
  <1> USE DEF RepositoryInv, Users, Keeps, HasNothing
  <1>1. InsertedRows'
    BY DEF InsertedRows
  <1>2. UsersAtHand'
    BY DEF UsersAtHand, Row
  <1>3. CachedUsersAreRows'
    BY DEF CachedUsersAreRows, Row
  <1> QED
    BY <1>1, <1>2, <1>3

\* A thread that a step does not touch keeps what it has.
LEMMA Untouched ==
  ASSUME NEW t \in Threads, pc'[t] = pc[t], job'[t] = job[t], lent'[t] = lent[t],
         pc[t] = "setUser" => lastId'[lent[t]] = lastId[lent[t]]
  PROVE  Keeps(t)
  BY DEF Keeps, OwnIds, HasUser, Op

\* A thread that does not step keeps its label, its job and its guard.
LEMMA OthersKeep ==
  ASSUME RepositoryInv, NEW t \in Threads, Follows(t), NEW u \in Threads \ {t},
         pc[u] = "setUser" => lastId'[lent[u]] = lastId[lent[u]]
  PROVE  Keeps(u)
  <1>1. lent'[u] = lent[u]
    BY DEF Follows, RepositoryInv, TypeOK
  <1> QED
    BY <1>1, Untouched DEF Follows

\* INSERT: the new row is the own row of the thread, in no other thread's
\* hands and told to no client, and the connection remembers its id.
LEMMA InsertUsers ==
  ASSUME RepositoryInv, NEW t \in Threads, Insert(t)
  PROVE  Users'
  <1> USE DEF RepositoryInv
  <1> DEFINE n == Len(rows) + 1
  <1>0. /\ TypeOK /\ pc[t] = "insert" /\ Follows(t)
        /\ job[t].req \in Requests /\ Op(t) = "create" /\ job[t].req.name \in Names
        /\ UNCHANGED <<lent, userCache, acked>>
        /\ lent[t] \in Conns
    <2>1. Work(t)
      BY DEF Work
    <2>2. pc[t] = "insert" /\ UNCHANGED <<lent, userCache, acked>>
      BY DEF Insert, redis
    <2>3. job[t].req \in Requests /\ Op(t) = "create"
      BY <2>2, RequestFields DEF OnItsPath, LabelsOf, Op
    <2>4. lent[t] \in Conns
      BY <2>2 DEF ConnHeld, SqlLabels, TypeOK
    <2> QED
      BY <2>1, <2>2, <2>3, <2>4, WorkFollows, RequestFields DEF Op
  <1>1. Len(rows) \in Nat /\ acked \subseteq 1..Len(rows)
    BY <1>0, LenProperties DEF TypeOK, InsertedRows
  <1>2. /\ Len(rows') \in Nat /\ Len(rows) <= Len(rows')
        /\ \A i \in 1..Len(rows) : rows'[i] = rows[i] /\ Row(i)' = Row(i)
    <2>1. rows' = rows \/ rows' = Append(rows, job[t].req.name)
      BY DEF Insert
    <2> QED
      BY <1>0, <1>1, <2>1, AppendRow DEF TypeOK, Row
  <1>3. CachedUsersAreRows'
    BY <1>0, <1>1, <1>2 DEF CachedUsersAreRows
  <1>4. \A u \in Threads \ {t} :
          pc[u] = "setUser" => lastId'[lent[u]] = lastId[lent[u]]
    <2> SUFFICES ASSUME NEW u \in Threads \ {t}, pc[u] = "setUser"
                 PROVE  lastId'[lent[u]] = lastId[lent[u]]
      OBVIOUS
    <2>1. lent[u] \in Conns /\ lent[u] # lent[t]
      BY <1>0 DEF ConnHeld, ConnExclusive, SqlLabels, TypeOK
    <2>2. lastId' = lastId \/ \E x : lastId' = [lastId EXCEPT ![lent[t]] = x]
      BY DEF Insert
    <2> QED
      BY <1>0, <2>1, <2>2 DEF TypeOK
  <1>5. \A u \in Threads \ {t} : Keeps(u)
    BY <1>0, <1>4, OthersKeep
  <1>6. UsersAtHand'
    <2>1. ~HasUser(t)' /\ pc'[t] # "fillUser"
      BY <1>0 DEF Insert, SqlError, Goto, HasUser, TypeOK, Job
    <2> QED
      BY <1>1, <1>2, <1>5, <2>1 DEF UsersAtHand, Keeps
  <1>7. CASE Goto(t, "setUser")
    <2>1. /\ rows' = Append(rows, job[t].req.name)
          /\ lastId' = [lastId EXCEPT ![lent[t]] = n]
          /\ job' = job /\ pc'[t] = "setUser"
      BY <1>0, <1>7 DEF Insert, SqlError, Goto, TypeOK
    <2>2. OwnIds(t)' = {n}
      BY <1>0, <2>1 DEF OwnIds, TypeOK
    <2>3. Len(rows') = n /\ rows'[n] = job[t].req.name
      BY <1>0, <2>1, AppendRow DEF TypeOK
    <2>4. n \notin acked /\ \A u \in Threads \ {t} : n \notin OwnIds(u)
      BY <1>1 DEF InsertedRows
    <2> QED
      BY <1>0, <1>1, <1>2, <1>3, <1>5, <1>6, <2>1, <2>2, <2>3, <2>4
      DEF Users, InsertedRows, Keeps
  <1>8. CASE SqlError(t, "internal")
    <2>1. OwnIds(t)' = {}
      BY <1>0, <1>8 DEF SqlError, Goto, OwnIds, HasUser, TypeOK, Job
    <2> QED
      BY <1>0, <1>1, <1>2, <1>3, <1>5, <1>6, <2>1 DEF Users, InsertedRows, Keeps
  <1> QED
    BY <1>7, <1>8 DEF Insert

\* The last insert id of the own connection is that of the own INSERT.
LEMMA SetUserUsers ==
  ASSUME RepositoryInv, NEW t \in Threads, SetUser(t)
  PROVE  Users'
  <1> USE DEF RepositoryInv
  <1> DEFINE u == [id |-> lastId[lent[t]], name |-> job[t].req.name]
  <1>1. /\ TypeOK /\ pc[t] = "setUser" /\ Follows(t)
        /\ job' = [job EXCEPT ![t].user = u]
        /\ userCache' \in {userCache, [userCache EXCEPT ![u.id] = u]}
        /\ pc' = [pc EXCEPT ![t] = "smembers"]
        /\ UNCHANGED <<rows, lastId, lent, acked>>
    BY WorkFollows DEF Work, SetUser, Goto, sql
  <1>2. u.id \in 1..Len(rows) \ acked /\ rows[u.id] = job[t].req.name
    BY <1>1 DEF InsertedRows, OwnIds
  <1>3. u = Row(u.id)
    BY <1>2 DEF Row
  <1>4. u \in User /\ u.name = job[t].req.name
    <2>1. rows[u.id] \in Names /\ u.id \in Nat
      BY <1>1, <1>2, RowsAreUsers DEF TypeOK
    <2> QED
      BY <1>2, <2>1 DEF User
  <1>5. OwnIds(t) = {u.id}
    BY <1>1 DEF OwnIds
  <1> HIDE DEF u
  <1>6. job'[t].user = u /\ job'[t].req = job[t].req
    BY <1>1 DEF TypeOK, Job
  <1>7. OwnIds(t)' = {u.id}
    BY <1>1, <1>6 DEF OwnIds, HasUser, TypeOK
  <1>8. \A v \in Threads \ {t} : Keeps(v)
    BY <1>1, OthersKeep
  <1>9. InsertedRows'
    BY <1>1, <1>5, <1>6, <1>7, <1>8 DEF InsertedRows, Keeps
  <1>10. UsersAtHand'
    BY <1>1, <1>4, <1>6, <1>8 DEF UsersAtHand, Keeps, TypeOK, Row
  <1>11. CachedUsersAreRows'
    BY <1>1, <1>2, <1>3 DEF CachedUsersAreRows, TypeOK, Row
  <1> QED
    BY <1>9, <1>10, <1>11 DEF Users

\* What GetUser caches is the row that it has read.
LEMMA FillUserUsers ==
  ASSUME RepositoryInv, NEW t \in Threads, FillUser(t)
  PROVE  Users'
  <1> USE DEF RepositoryInv
  <1>1. /\ TypeOK /\ pc[t] = "fillUser" /\ Follows(t) /\ Op(t) = "get"
        /\ job' = [job EXCEPT ![t].status = "ok"]
        /\ userCache' \in {userCache, [userCache EXCEPT ![job[t].req.id] = job[t].user]}
        /\ pc' = [pc EXCEPT ![t] = "release"]
        /\ UNCHANGED <<rows, lastId, lent, acked>>
    BY WorkFollows, RequestFields DEF Work, FillUser, Goto, sql, OnItsPath, LabelsOf, Op
  <1>2. job[t].req.id \in 1..Len(rows) /\ job[t].user = Row(job[t].req.id)
    BY <1>1 DEF UsersAtHand
  <1>3. \A v \in Threads \ {t} : Keeps(v)
    BY <1>1, OthersKeep
  <1>4. HasNothing(t)
    BY <1>1 DEF HasNothing, OwnIds, HasUser, Op, TypeOK, Job
  <1>5. InsertedRows' /\ UsersAtHand'
    <2>1. InsertedRows'
      BY <1>1, <1>3, <1>4 DEF InsertedRows, Keeps, HasNothing
    <2>2. UsersAtHand'
      BY <1>1, <1>3, <1>4 DEF UsersAtHand, Keeps, HasNothing, Row
    <2> QED
      BY <2>1, <2>2
  <1>6. CachedUsersAreRows'
    BY <1>1, <1>2 DEF CachedUsersAreRows, TypeOK, Row
  <1> QED
    BY <1>5, <1>6 DEF Users

\* What SELECT finds is a row.
LEMMA SelectUserUsers ==
  ASSUME RepositoryInv, NEW t \in Threads, SelectUser(t)
  PROVE  Users'
  <1> USE DEF RepositoryInv
  <1>1. /\ TypeOK /\ pc[t] = "selectUser" /\ Follows(t) /\ Op(t) = "get"
        /\ job[t].req.id \in Ids /\ Len(rows) \in Nat
        /\ UNCHANGED <<rows, lastId, lent, userCache, acked>>
    <2>1. pc[t] = "selectUser" /\ UNCHANGED <<rows, lastId, lent, userCache, acked>>
      BY DEF SelectUser, sql, redis
    <2>2. job[t].req \in Requests /\ Op(t) = "get"
      BY <2>1, RequestFields DEF OnItsPath, LabelsOf, Op
    <2>3. job[t].req.id \in Ids
      BY <2>1, <2>2, RequestFields DEF Validated, Invalid, Op
    <2>4. Len(rows) \in Nat
      BY RowsAreUsers DEF TypeOK
    <2> QED
      BY <2>1, <2>2, <2>3, <2>4, WorkFollows DEF Work
  <1>2. \A v \in Threads \ {t} : Keeps(v)
    BY <1>1, OthersKeep
  <1>3. CASE /\ job[t].req.id <= Len(rows)
             /\ job' = [job EXCEPT ![t].user = Row(job[t].req.id)]
             /\ Goto(t, "fillUser")
    <2>1. /\ pc'[t] = "fillUser" /\ job'[t].req = job[t].req
          /\ job'[t].user = Row(job[t].req.id)
          /\ job[t].req.id \in 1..Len(rows)
      BY <1>1, <1>3, BoundsAssumption DEF Goto, TypeOK, Job, Ids
    <2>2. OwnIds(t)' = {} /\ ~HasUser(t)'
      BY <2>1 DEF OwnIds, HasUser
    <2>3. InsertedRows'
      BY <1>1, <1>2, <2>2 DEF InsertedRows, Keeps
    <2>4. UsersAtHand'
      BY <1>1, <1>2, <2>1, <2>2 DEF UsersAtHand, Keeps, Row
    <2>5. CachedUsersAreRows'
      BY <1>1 DEF CachedUsersAreRows, Row
    <2> QED
      BY <2>3, <2>4, <2>5 DEF Users
  <1>4. CASE pc'[t] = "release"
    <2>1. HasNothing(t)
      BY <1>1, <1>4 DEF Follows, HasNothing, OwnIds, HasUser, Op
    <2> QED
      BY <1>1, <1>2, <2>1, UsersKept
  <1> QED
    BY <1>1, <1>3, <1>4 DEF SelectUser, SqlError, Goto, TypeOK

\* The client is told of the own row, which is nobody else's.
LEMMA ReplyUsers ==
  ASSUME RepositoryInv, NEW t \in Threads, Reply(t)
  PROVE  Users'
  <1> USE DEF RepositoryInv
  <1>1. /\ TypeOK /\ pc[t] = "reply" /\ Follows(t)
        /\ job' = [job EXCEPT ![t] = NoJob]
        /\ pc' = [pc EXCEPT ![t] = "out"]
        /\ UNCHANGED <<rows, lastId, lent, userCache>>
    BY WorkFollows DEF Work, Reply, Goto, sql, redis
  <1>2. \A v \in Threads \ {t} : Keeps(v)
    BY <1>1, OthersKeep
  <1>3. HasNothing(t)
    BY <1>1 DEF HasNothing, OwnIds, HasUser, TypeOK
  <1>4. acked' = acked \cup OwnIds(t)
    BY <1>1 DEF Reply, OwnIds, HasUser
  <1>5. InsertedRows'
    BY <1>1, <1>2, <1>3, <1>4 DEF InsertedRows, Keeps, HasNothing
  <1>6. UsersAtHand'
    BY <1>1, <1>2, <1>3 DEF UsersAtHand, Keeps, HasNothing, Row
  <1>7. CachedUsersAreRows'
    BY <1>1 DEF CachedUsersAreRows, Row
  <1> QED
    BY <1>5, <1>6, <1>7 DEF Users

\* The other steps of a handler change no user.
LEMMA WorkUsers ==
  ASSUME RepositoryInv, NEW t \in Threads, Work(t)
  PROVE  Users'
  <1> USE DEF RepositoryInv
  <1>1. TypeOK /\ Follows(t) /\ (pc[t] # "out" => job[t].req \in Requests /\ pc[t] \in LabelsOf(Op(t)))
    BY WorkFollows DEF OnItsPath
  <1>2. UNCHANGED lastId => \A v \in Threads \ {t} : Keeps(v)
    BY <1>1, OthersKeep
  <1>3. CASE CountRequest(t) \/ GetUser(t) \/ GetList(t) \/ GetTotal(t) \/ GetCount(t)
    <2>1. /\ UNCHANGED <<rows, lastId, userCache, acked>>
          /\ pc'[t] \in {"acquire", "getUser", "getList", "reply", "getCount"}
      <3>1. CASE CountRequest(t)
        <4>1. Op(t) # "stats" /\ job[t].req \in Requests
          BY <1>1, <3>1, RequestFields DEF CountRequest, LabelsOf, Op
        <4>2. AfterCount(job[t].req) \in {"acquire", "getUser", "getList"}
          BY <4>1, NextLabels DEF Op
        <4> QED
          BY <1>1, <3>1, <4>2 DEF CountRequest, Goto, sql, TypeOK
      <3>2. CASE GetUser(t) \/ GetList(t) \/ GetTotal(t) \/ GetCount(t)
        BY <1>1, <3>2 DEF GetUser, GetList, GetTotal, GetCount, Goto, sql, redis, TypeOK
      <3> QED
        BY <1>3, <3>1, <3>2
    <2>2. pc'[t] = "reply" => Op(t) # "create" \/ job'[t].status # "ok"
      BY <1>1, <1>3, RequestFields DEF CountRequest, AfterCount, GetUser, GetList,
         GetTotal, GetCount, Goto, TypeOK, Job, LabelsOf, Op
    <2>3. HasNothing(t)
      BY <1>1, <2>1, <2>2 DEF Follows, HasNothing, OwnIds, HasUser, Op
    <2> QED
      BY <1>2, <2>1, <2>3, UsersKept
  <1>4. CASE \/ CountRows(t) \/ SelectPage(t) \/ FillList(t) \/ Sadd(t)
             \/ CountTotal(t) \/ FillTotal(t)
    <2>1. /\ UNCHANGED <<rows, lastId, userCache, acked>>
          /\ pc'[t] \in {"selectPage", "fillList", "sadd", "fillTotal", "release"}
      BY <1>1, <1>4 DEF CountRows, SelectPage, FillList, Sadd, CountTotal,
         FillTotal, SqlError, Goto, sql, redis, TypeOK
    <2>2. Op(t) # "create"
      BY <1>1, <1>4, RequestFields DEF CountRows, SelectPage, FillList, Sadd,
         CountTotal, FillTotal, LabelsOf, Op
    <2>3. HasNothing(t)
      BY <1>1, <2>1, <2>2 DEF Follows, HasNothing, OwnIds, HasUser, Op
    <2> QED
      BY <1>2, <2>1, <2>3, UsersKept
  <1>5. CASE Release(t)
    <2>1. /\ UNCHANGED <<rows, lastId, userCache, acked, job>>
          /\ pc[t] = "release"
          /\ pc'[t] = "reply" \/ (pc'[t] = "getCount" /\ Op(t) = "stats")
      BY <1>1, <1>5 DEF Release, Goto, sql, redis, TypeOK
    <2>2. Keeps(t)
      BY <2>1 DEF Keeps, OwnIds, HasUser, Op
    <2> QED
      BY <1>2, <2>1, <2>2, UsersKept
  <1>6. CASE Smembers(t) \/ DelKey(t) \/ DelIndex(t) \/ DelTotal(t)
    <2>1. /\ UNCHANGED <<rows, lastId, userCache, acked>>
          /\ pc[t] \in {"smembers", "delKeys", "delTotal"}
      BY <1>6 DEF Smembers, DelKey, DelIndex, DelTotal, sql, redis
    <2>2. job'[t].user = job[t].user /\ job'[t].req = job[t].req
      BY <1>1, <1>6 DEF Smembers, DelKey, DelIndex, DelTotal, TypeOK, Job
    <2>3. \/ pc'[t] \in {"delKeys", "delTotal"}
          \/ pc'[t] = "release" /\ job'[t].status = "ok"
      BY <1>1, <1>6 DEF Smembers, DelKey, DelIndex, DelTotal, Goto, TypeOK, Job
    <2>4. Op(t) = "create"
      BY <1>1, <2>1, RequestFields DEF LabelsOf, Op
    <2>5. Keeps(t)
      BY <2>1, <2>2, <2>3, <2>4 DEF Keeps, OwnIds, HasUser, Op
    <2> QED
      BY <1>2, <2>1, <2>5, UsersKept
  <1> QED
    BY <1>3, <1>4, <1>5, <1>6, ReplyUsers, InsertUsers, SetUserUsers,
       SelectUserUsers, FillUserUsers DEF Work

\* Neither do requests, connections, expiry and crashes.
LEMMA OthersUsers ==
  ASSUME RepositoryInv,
         \/ \E t \in Threads : Acquire(t) \/ \E r \in Requests : Arrive(t, r)
         \/ Expire \/ Crash
  PROVE  Users'
  <1>0. TypeOK /\ OnItsPath
    BY DEF RepositoryInv
  <1>1. ASSUME NEW t \in Threads, Acquire(t)
        PROVE  Users'
    <2>1. /\ UNCHANGED <<rows, lastId, userCache, acked, job>> /\ pc[t] = "acquire"
          /\ pc' = [pc EXCEPT ![t] = AfterAcquire(Op(t))]
          /\ \E c \in Conns : lent' = [lent EXCEPT ![t] = c]
      BY <1>1 DEF Acquire, Goto, sql, redis, Lender!Free
    <2>2. AfterAcquire(Op(t)) \in {"insert", "selectUser", "countRows", "countTotal"}
      BY <1>0, <2>1, NextLabels DEF OnItsPath, Op
    <2>3. HasNothing(t)
      BY <1>0, <2>1, <2>2 DEF HasNothing, OwnIds, HasUser, TypeOK
    <2>4. \A v \in Threads \ {t} : Keeps(v)
      BY <1>0, <2>1, Untouched DEF TypeOK
    <2> QED
      BY <2>1, <2>3, <2>4, UsersKept
  <1>2. ASSUME NEW t \in Threads, NEW r \in Requests, Arrive(t, r)
        PROVE  Users'
    <2>1. /\ UNCHANGED <<rows, lastId, userCache, acked, lent>>
          /\ pc'[t] \in {"getTotal", "count"}
          /\ \A v \in Threads \ {t} : pc'[v] = pc[v] /\ job'[v] = job[v]
      BY <1>0, <1>2 DEF Arrive, Goto, sql, redis, TypeOK
    <2>2. HasNothing(t)
      BY <2>1 DEF HasNothing, OwnIds, HasUser
    <2>3. \A v \in Threads \ {t} : Keeps(v)
      BY <2>1, Untouched
    <2> QED
      BY <2>1, <2>2, <2>3, UsersKept
  <1>3. CASE Expire
    <2>1. UNCHANGED <<rows, lastId, lent, pc, job, acked>>
      BY <1>3 DEF Expire, ExpireUser, ExpireList, ExpireTotal, sql
    <2>2. \A i \in Ids : userCache'[i] \in {userCache[i], Nil}
      BY <1>0, <1>3 DEF Expire, ExpireUser, ExpireList, ExpireTotal, TypeOK
    <2>3. \A v \in Threads : Keeps(v)
      BY <2>1, Untouched
    <2> QED
      BY <2>1, <2>2, <2>3, UsersKept
  <1>4. CASE Crash
    <2>1. /\ UNCHANGED <<rows, userCache, acked>>
          /\ \A v \in Threads : pc'[v] = "out"
      BY <1>4 DEF Crash, redis
    <2>2. \A v \in Threads : HasNothing(v)
      BY <2>1 DEF HasNothing, OwnIds, HasUser
    <2> QED
      BY <2>1, <2>2, UsersKept
  <1> QED
    BY <1>1, <1>2, <1>3, <1>4

-----------------------------------------------------------------------------
(* The invariant                                                           *)

\* The empty table and the empty cache satisfy RepositoryInv.
LEMMA InitRepositoryInv == Init => RepositoryInv
  <1> SUFFICES ASSUME Init PROVE RepositoryInv
    OBVIOUS
  <1> USE DEF Init
  <1>1. TypeOK
    <2>1. NoJob \in Job
      BY NewJob
    <2>2. rows \in Seq(Names)
      BY EmptySeq
    <2> QED
      BY <2>1, <2>2, BoundsAssumption DEF TypeOK, Labels
  <1>2. ConnHeld /\ ConnExclusive /\ OnItsPath /\ Validated
    BY DEF ConnHeld, ConnExclusive, OnItsPath, Validated, SqlLabels
  <1>3. InsertedRows /\ UsersAtHand /\ CachedUsersAreRows
    BY DEF InsertedRows, UsersAtHand, OwnIds, HasUser, CachedUsersAreRows
  <1> QED
    BY <1>1, <1>2, <1>3 DEF RepositoryInv

\* Every step keeps RepositoryInv: each action of a thread, each expiry and
\* the crash.
LEMMA NextKeepsRepositoryInv == RepositoryInv /\ [Next]_vars => RepositoryInv'
  <1> SUFFICES ASSUME RepositoryInv, [Next]_vars PROVE RepositoryInv'
    OBVIOUS
  <1>1. ASSUME NEW t \in Threads, Work(t)
        PROVE  RepositoryInv'
    BY <1>1, WorkTyped, WorkFollows, WorkStructure, WorkUsers
    DEF RepositoryInv, Structure, Users
  <1>2. CASE \/ \E t \in Threads : Acquire(t) \/ \E r \in Requests : Arrive(t, r)
             \/ Expire \/ Crash
    BY <1>2, OthersTyped, OthersStructure, OthersUsers
    DEF RepositoryInv, Structure, Users
  <1>3. CASE UNCHANGED vars
    <2> USE <1>3 DEF vars
    <2>1. TypeOK'
      BY DEF RepositoryInv, TypeOK
    <2>2. ConnHeld' /\ ConnExclusive' /\ OnItsPath' /\ Validated'
      BY DEF RepositoryInv, ConnHeld, ConnExclusive, OnItsPath, Validated, Op
    <2>3. \A t \in Threads : Keeps(t)
      BY Untouched
    <2>4. Users'
      BY <2>3, UsersKept
    <2> QED
      BY <2>1, <2>2, <2>4 DEF RepositoryInv, Users
  <1> QED
    BY <1>1, <1>2, <1>3 DEF Next

\* RepositoryInv, the inductive invariant, holds in every state.
THEOREM RepositoryInvariant == Spec => []RepositoryInv
  BY InitRepositoryInv, NextKeepsRepositoryInv, PTL DEF Spec

\* The variables keep their types.
THEOREM RepositoryTyped == Spec => []TypeOK
  BY RepositoryInvariant, PTL DEF RepositoryInv

\* No user is cached that is not in the database, with any number of threads
\* and pages, whatever fails and whenever the server crashes.
THEOREM NoPhantomUsers == Spec => []CachedUsersAreRows
  BY RepositoryInvariant, PTL DEF RepositoryInv

\* A CreateUser that succeeds replies the row that it inserted itself.
THEOREM CreateRepliesTruth == Spec => []CreateRepliesOwnRow
  <1>1. RepositoryInv => CreateRepliesOwnRow
    <2> SUFFICES ASSUME RepositoryInv PROVE CreateRepliesOwnRow
      OBVIOUS
    <2>1. ASSUME NEW t \in Threads, Answered(t, "create")
          PROVE  /\ OwnIds(t) = {job[t].user.id}
                 /\ job[t].user \in User /\ job[t].user.name = job[t].req.name
      BY <2>1 DEF Answered, OwnIds, HasUser, RepositoryInv, UsersAtHand
    <2>2. ASSUME NEW t \in Threads, Answered(t, "create")
          PROVE  /\ job[t].user.id \in 1..Len(rows) \ acked
                 /\ job[t].user = Row(job[t].user.id)
                 /\ job[t].user.name = job[t].req.name
      BY <2>1, <2>2 DEF RepositoryInv, InsertedRows, User, Row
    <2>3. ASSUME NEW t \in Threads, NEW u \in Threads,
                 Answered(t, "create"), Answered(u, "create"),
                 job[t].user.id = job[u].user.id
          PROVE  t = u
      BY <2>1, <2>3 DEF RepositoryInv, InsertedRows
    <2> QED
      BY <2>2, <2>3 DEF CreateRepliesOwnRow
  <1> QED
    BY <1>1, RepositoryInvariant, PTL

=============================================================================
