---------------------------- MODULE UserRepository ----------------------------
(***************************************************************************)
(* The four RPCs of UserServiceImpl (src/src/grpc_server/user_service.cpp) *)
(* and the cache-aside code of UserRepository under them                   *)
(* (src/src/store/user_repository.cpp), run by several threads of the gRPC *)
(* server against one MySQL table and one Redis.                           *)
(*                                                                         *)
(* A step is one Redis command, one SQL statement, one acquire() or the    *)
(* end of one guard.  Connections come from a pool that keeps the promise  *)
(* of ConnLender, which MysqlPool is shown to implement.                   *)
(*                                                                         *)
(* Names stand for (name, email, created_at), ids for the canonical        *)
(* decimal id.  The key of a cached user is its id, that of a cached list  *)
(* its page.  A Redis command is atomic here, whichever thread sends it.   *)
(***************************************************************************)
EXTENDS Integers, Sequences, FiniteSets

CONSTANTS
  Threads,      \* threads of the gRPC server
  Conns,        \* connections of the MySQL pool
  NoConn,       \* no connection is borrowed
  Nil,          \* a missing key, row or value
  Names,        \* what users are called
  EmptyName,    \* the empty string, a name the service rejects
  Requests,     \* RPCs that clients may send
  MaxUsers,     \* bound: rows that clients create
  MaxCount,     \* bound: requestCount stays there once it gets there
  RedisFaults,  \* may a Redis command fail?
  SqlFaults,    \* may an SQL statement fail?
  Crashes       \* may the server process die and be restarted?

Ids == 1..MaxUsers
EmptyId == 0    \* the empty string as id, which the service rejects
User == [id : Nat, name : Names]

CreateRequest == [op : {"create"}, name : Names]
GetRequest == [op : {"get"}, id : Ids \cup {EmptyId}]
ListRequest == [op : {"list"}, limit : Int, offset : Int]
StatsRequest == [op : {"stats"}]

ASSUME RequestsAssumption ==
  Requests \subseteq CreateRequest \cup GetRequest \cup ListRequest \cup StatsRequest
ASSUME BoundsAssumption == MaxUsers \in Nat /\ MaxCount \in Nat
ASSUME NilAssumption == Nil \notin User \cup Requests /\ NoConn \notin Conns
ASSUME FaultsAssumption == {RedisFaults, SqlFaults, Crashes} \subseteq BOOLEAN

\* ListUsers of the service: limit and offset fall back to 10 and 0.
Page(r) ==
  [limit  |-> IF r.limit > 0 THEN r.limit ELSE 10,
   offset |-> IF r.offset > 0 THEN r.offset ELSE 0]

\* Mutant of ListCacheKey: the offset is left out of the key.
LimitOnlyKey(page) == <<page.limit, 0>>

\* users:list:{limit}:{offset}, the key under which a page is cached.
ListCacheKey(page) == <<page.limit, page.offset>>

Keys == {ListCacheKey(Page(r)) : r \in {q \in Requests : q.op = "list"}}

VARIABLES
  rows,          \* table users: the name of the user with id 1, 2, ...
  lastId,        \* lastId[c]: mysql_insert_id() of connection c
  lent,          \* lent[t]: the connection in the guard of thread t
  userCache,     \* Redis: user:{id}
  listCache,     \* Redis: users:list:{limit}:{offset}
  listIndex,     \* Redis: the set cache:users:list of list keys
  totalCache,    \* Redis: stats:total_users
  requestCount,  \* Redis: stats:request_count
  pc,            \* pc[t]: the next step of thread t
  job,           \* job[t]: request, local variables and reply of thread t
  acked          \* history: ids that clients have been told of

redis == <<userCache, listCache, listIndex, totalCache, requestCount>>
sql == <<rows, lastId>>
vars == <<rows, lastId, lent, userCache, listCache, listIndex, totalCache,
          requestCount, pc, job, acked>>

Statuses == {"pending", "ok", "invalid", "internal", "not_found"}

Labels ==
  {"out", "count", "acquire", "insert", "setUser", "smembers", "delKeys",
   "delTotal", "getUser", "selectUser", "fillUser", "getList", "countRows",
   "selectPage", "fillList", "sadd", "getTotal", "countTotal", "fillTotal",
   "release", "getCount", "reply"}

Cached == [total : Nat, users : Seq(User)]

Job ==
  [req    : Requests \cup {Nil},
   status : Statuses,
   user   : User \cup {Nil},       \* the user to cache and to reply
   keys   : SUBSET Keys,           \* list keys still to delete
   total  : Nat,
   users  : Seq(User),
   count  : Nat,
   known  : SUBSET Nat]            \* history: acked when the request arrived

NoJob ==
  [req |-> Nil, status |-> "pending", user |-> Nil, keys |-> {},
   total |-> 0, users |-> <<>>, count |-> 0, known |-> {}]

\* The row of user i; the rows that LIMIT and OFFSET select of the first n.
Row(i) == [id |-> i, name |-> rows[i]]
PageOf(n, page) ==
  LET first == page.offset
      size == IF n <= first THEN 0
              ELSE IF n - first < page.limit THEN n - first ELSE page.limit
  IN  [k \in 1..size |-> Row(first + k)]

\* The pool, with every connection open.
Lender == INSTANCE ConnLender
          WITH owned <- Conns, want <- {t \in Threads : pc[t] = "acquire"}

Init ==
  /\ rows = <<>>
  /\ lastId = [c \in Conns |-> 0]
  /\ lent = [t \in Threads |-> NoConn]
  /\ userCache = [i \in Ids |-> Nil]
  /\ listCache = [k \in Keys |-> Nil]
  /\ listIndex = {}
  /\ totalCache = Nil
  /\ requestCount = 0
  /\ pc = [t \in Threads |-> "out"]
  /\ job = [t \in Threads |-> NoJob]
  /\ acked = {}

Goto(t, label) == pc' = [pc EXCEPT ![t] = label]
Op(t) == job[t].req.op

-----------------------------------------------------------------------------
(* Every RPC                                                               *)

\* Rows that requests under way may still insert.
Pending == {t \in Threads : pc[t] \in {"count", "acquire", "insert"} /\ Op(t) = "create"}

\* A request reaches an idle thread.  GetStats is not counted.
Arrive(t, r) ==
  /\ pc[t] = "out"
  /\ r.op = "create" => Len(rows) + Cardinality(Pending) < MaxUsers
  /\ job' = [job EXCEPT ![t] = [NoJob EXCEPT !.req = r, !.known = acked]]
  /\ Goto(t, IF r.op = "stats" THEN "getTotal" ELSE "count")
  /\ UNCHANGED <<sql, lent, redis, acked>>

\* What the service rejects: an empty name, an empty id.
Invalid(r) ==
  \/ r.op = "create" /\ r.name = EmptyName
  \/ r.op = "get" /\ r.id = EmptyId

AfterCount(r) ==
  [create |-> "acquire", get |-> "getUser", list |-> "getList"][r.op]

\* INCR; then the service validates the request and calls the repository.
CountRequest(t) ==
  /\ pc[t] = "count"
  /\ \/ requestCount' = IF requestCount < MaxCount THEN requestCount + 1 ELSE MaxCount
     \/ RedisFaults /\ UNCHANGED requestCount
  /\ \/ /\ Invalid(job[t].req)
        /\ job' = [job EXCEPT ![t].status = "invalid"]
        /\ Goto(t, "reply")
     \/ /\ ~Invalid(job[t].req)
        /\ Goto(t, AfterCount(job[t].req))
        /\ UNCHANGED job
  /\ UNCHANGED <<sql, lent, userCache, listCache, listIndex, totalCache, acked>>

AfterAcquire(op) ==
  [create |-> "insert", get |-> "selectUser", list |-> "countRows",
   stats |-> "countTotal"][op]

\* Mutant of Acquire: the connection may be in the hands of another thread.
AcquireShared(t) ==
  /\ pc[t] = "acquire"
  /\ \E c \in Conns : lent' = [lent EXCEPT ![t] = c]
  /\ Goto(t, AfterAcquire(Op(t)))
  /\ UNCHANGED <<sql, redis, job, acked>>

\* acquire() blocks until the pool has a free connection.
Acquire(t) ==
  /\ pc[t] = "acquire"
  /\ \E c \in Lender!Free : lent' = [lent EXCEPT ![t] = c]
  /\ Goto(t, AfterAcquire(Op(t)))
  /\ UNCHANGED <<sql, redis, job, acked>>

\* Mutant of Release: the path leaves the connection in the guard.
ReleaseNothing(t) ==
  /\ pc[t] = "release"
  /\ Goto(t, IF Op(t) = "stats" /\ job[t].status = "pending" THEN "getCount" ELSE "reply")
  /\ UNCHANGED <<sql, lent, redis, job, acked>>

\* The guard dies where the method returns, in GetStats with the else-branch.
Release(t) ==
  /\ pc[t] = "release"
  /\ lent' = [lent EXCEPT ![t] = NoConn]
  /\ Goto(t, IF Op(t) = "stats" /\ job[t].status = "pending" THEN "getCount" ELSE "reply")
  /\ UNCHANGED <<sql, redis, job, acked>>

\* The client has its reply.
Reply(t) ==
  /\ pc[t] = "reply"
  /\ acked' = IF Op(t) = "create" /\ job[t].status = "ok"
              THEN acked \cup {job[t].user.id} ELSE acked
  /\ job' = [job EXCEPT ![t] = NoJob]
  /\ Goto(t, "out")
  /\ UNCHANGED <<sql, lent, redis>>

\* A statement of thread t fails: the method returns false or nullopt.
SqlError(t, status) ==
  /\ SqlFaults
  /\ job' = [job EXCEPT ![t].status = status]
  /\ Goto(t, "release")

-----------------------------------------------------------------------------
(* CreateUser                                                              *)

\* Mutant of Insert: the result of execute() is not tested.
InsertUnchecked(t) ==
  /\ pc[t] = "insert"
  /\ \/ /\ rows' = Append(rows, job[t].req.name)
        /\ lastId' = [lastId EXCEPT ![lent[t]] = Len(rows) + 1]
     \/ SqlFaults /\ UNCHANGED <<rows, lastId>>
  /\ Goto(t, "setUser")
  /\ UNCHANGED <<job, lent, redis, acked>>

\* INSERT.  When it fails the row may be there all the same: the answer of
\* the server was lost.
Insert(t) ==
  /\ pc[t] = "insert"
  /\ \/ /\ rows' = Append(rows, job[t].req.name)
        /\ lastId' = [lastId EXCEPT ![lent[t]] = Len(rows) + 1]
        /\ Goto(t, "setUser")
        /\ UNCHANGED job
     \/ /\ rows' \in {rows, Append(rows, job[t].req.name)}
        /\ SqlError(t, "internal")
        /\ UNCHANGED lastId
  /\ UNCHANGED <<lent, redis, acked>>

\* Mutant of SetUser: the id is the largest in the table.
SetUserByMaxId(t) ==
  /\ pc[t] = "setUser"
  /\ LET u == [id |-> Len(rows), name |-> job[t].req.name]
     IN  /\ job' = [job EXCEPT ![t].user = u]
         /\ userCache' = [userCache EXCEPT ![u.id] = u]
  /\ Goto(t, "smembers")
  /\ UNCHANGED <<sql, lent, listCache, listIndex, totalCache, requestCount, acked>>

\* lastInsertId() of the own connection, then SET user:{id}.
SetUser(t) ==
  /\ pc[t] = "setUser"
  /\ LET u == [id |-> lastId[lent[t]], name |-> job[t].req.name]
     IN  /\ job' = [job EXCEPT ![t].user = u]
         /\ \/ userCache' = [userCache EXCEPT ![u.id] = u]
            \/ RedisFaults /\ UNCHANGED userCache
  /\ Goto(t, "smembers")
  /\ UNCHANGED <<sql, lent, listCache, listIndex, totalCache, requestCount, acked>>

\* Mutant of Smembers: the lists are not looked up.
SkipSmembers(t) ==
  /\ pc[t] = "smembers"
  /\ Goto(t, "delKeys")
  /\ UNCHANGED <<sql, lent, redis, job, acked>>

\* InvalidateListCache: SMEMBERS of the index.
Smembers(t) ==
  /\ pc[t] = "smembers"
  /\ \/ job' = [job EXCEPT ![t].keys = listIndex]
     \/ RedisFaults /\ UNCHANGED job
  /\ Goto(t, "delKeys")
  /\ UNCHANGED <<sql, lent, redis, acked>>

\* InvalidateListCache: DEL of one of the keys.
DelKey(t) ==
  /\ pc[t] = "delKeys"
  /\ \E k \in job[t].keys :
       /\ job' = [job EXCEPT ![t].keys = @ \ {k}]
       /\ \/ listCache' = [listCache EXCEPT ![k] = Nil]
          \/ RedisFaults /\ UNCHANGED listCache
  /\ UNCHANGED <<sql, lent, userCache, listIndex, totalCache, requestCount, pc, acked>>

\* InvalidateListCache: DEL of the index.
DelIndex(t) ==
  /\ pc[t] = "delKeys"
  /\ job[t].keys = {}
  /\ \/ listIndex' = {}
     \/ RedisFaults /\ UNCHANGED listIndex
  /\ Goto(t, "delTotal")
  /\ UNCHANGED <<sql, lent, userCache, listCache, totalCache, requestCount, job, acked>>

\* Mutant of DelTotal: stats:total_users is left alone.
KeepTotal(t) ==
  /\ pc[t] = "delTotal"
  /\ job' = [job EXCEPT ![t].status = "ok"]
  /\ Goto(t, "release")
  /\ UNCHANGED <<sql, lent, redis, acked>>

\* DEL of stats:total_users.
DelTotal(t) ==
  /\ pc[t] = "delTotal"
  /\ \/ totalCache' = Nil
     \/ RedisFaults /\ UNCHANGED totalCache
  /\ job' = [job EXCEPT ![t].status = "ok"]
  /\ Goto(t, "release")
  /\ UNCHANGED <<sql, lent, userCache, listCache, listIndex, requestCount, acked>>

-----------------------------------------------------------------------------
(* GetUser                                                                 *)

\* Mutant of GetUser: a miss is reported as an unknown user.
GetUserCacheOnly(t) ==
  /\ pc[t] = "getUser"
  /\ LET hit == userCache[job[t].req.id]
     IN  job' = [job EXCEPT ![t].user = hit,
                            ![t].status = IF hit # Nil THEN "ok" ELSE "not_found"]
  /\ Goto(t, "reply")
  /\ UNCHANGED <<sql, lent, redis, acked>>

\* GET user:{id}; a failed GET is a miss.
GetUser(t) ==
  /\ pc[t] = "getUser"
  /\ LET hit == userCache[job[t].req.id]
     IN  \/ /\ hit # Nil
            /\ job' = [job EXCEPT ![t].user = hit, ![t].status = "ok"]
            /\ Goto(t, "reply")
         \/ /\ hit = Nil \/ RedisFaults
            /\ Goto(t, "acquire")
            /\ UNCHANGED job
  /\ UNCHANGED <<sql, lent, redis, acked>>

\* SELECT by id.  No row and a failed statement are the same to the caller.
SelectUser(t) ==
  /\ pc[t] = "selectUser"
  /\ LET id == job[t].req.id
     IN  \/ /\ id <= Len(rows)
            /\ job' = [job EXCEPT ![t].user = Row(id)]
            /\ Goto(t, "fillUser")
         \/ /\ id > Len(rows)
            /\ job' = [job EXCEPT ![t].status = "not_found"]
            /\ Goto(t, "release")
         \/ SqlError(t, "not_found")
  /\ UNCHANGED <<sql, lent, redis, acked>>

\* SET user:{id} with what was read.
FillUser(t) ==
  /\ pc[t] = "fillUser"
  /\ \/ userCache' = [userCache EXCEPT ![job[t].req.id] = job[t].user]
     \/ RedisFaults /\ UNCHANGED userCache
  /\ job' = [job EXCEPT ![t].status = "ok"]
  /\ Goto(t, "release")
  /\ UNCHANGED <<sql, lent, listCache, listIndex, totalCache, requestCount, acked>>

-----------------------------------------------------------------------------
(* ListUsers                                                               *)

PageRequested(t) == Page(job[t].req)

\* GET of the list; a failed GET is a miss.
GetList(t) ==
  /\ pc[t] = "getList"
  /\ LET hit == listCache[ListCacheKey(PageRequested(t))]
     IN  \/ /\ hit # Nil
            /\ job' = [job EXCEPT ![t].total = hit.total, ![t].users = hit.users,
                                  ![t].status = "ok"]
            /\ Goto(t, "reply")
         \/ /\ hit = Nil \/ RedisFaults
            /\ Goto(t, "acquire")
            /\ UNCHANGED job
  /\ UNCHANGED <<sql, lent, redis, acked>>

\* SELECT COUNT(*).
CountRows(t) ==
  /\ pc[t] = "countRows"
  /\ \/ /\ job' = [job EXCEPT ![t].total = Len(rows)]
        /\ Goto(t, "selectPage")
     \/ SqlError(t, "internal")
  /\ UNCHANGED <<sql, lent, redis, acked>>

\* SELECT of the page, a statement of its own.
SelectPage(t) ==
  /\ pc[t] = "selectPage"
  /\ \/ /\ job' = [job EXCEPT ![t].users = PageOf(Len(rows), PageRequested(t))]
        /\ Goto(t, "fillList")
     \/ SqlError(t, "internal")
  /\ UNCHANGED <<sql, lent, redis, acked>>

\* SET of the list with its total.
FillList(t) ==
  /\ pc[t] = "fillList"
  /\ \/ listCache' = [listCache EXCEPT ![ListCacheKey(PageRequested(t))] =
                        [total |-> job[t].total, users |-> job[t].users]]
     \/ RedisFaults /\ UNCHANGED listCache
  /\ Goto(t, "sadd")
  /\ UNCHANGED <<sql, lent, userCache, listIndex, totalCache, requestCount, job, acked>>

\* Mutant of Sadd: the key is not put into the index.
SkipSadd(t) ==
  /\ pc[t] = "sadd"
  /\ job' = [job EXCEPT ![t].status = "ok"]
  /\ Goto(t, "release")
  /\ UNCHANGED <<sql, lent, redis, acked>>

\* SADD of the key to the index.
Sadd(t) ==
  /\ pc[t] = "sadd"
  /\ \/ listIndex' = listIndex \cup {ListCacheKey(PageRequested(t))}
     \/ RedisFaults /\ UNCHANGED listIndex
  /\ job' = [job EXCEPT ![t].status = "ok"]
  /\ Goto(t, "release")
  /\ UNCHANGED <<sql, lent, userCache, listCache, totalCache, requestCount, acked>>

-----------------------------------------------------------------------------
(* GetStats                                                                *)

\* Mutant of GetTotal: the optional is used without a test.
GetTotalUnchecked(t) ==
  /\ pc[t] = "getTotal"
  /\ job' = [job EXCEPT ![t].total = totalCache]
  /\ Goto(t, "getCount")
  /\ UNCHANGED <<sql, lent, redis, acked>>

\* GET stats:total_users; a failed GET is a miss.
GetTotal(t) ==
  /\ pc[t] = "getTotal"
  /\ \/ /\ totalCache # Nil
        /\ job' = [job EXCEPT ![t].total = totalCache]
        /\ Goto(t, "getCount")
     \/ /\ totalCache = Nil \/ RedisFaults
        /\ Goto(t, "acquire")
        /\ UNCHANGED job
  /\ UNCHANGED <<sql, lent, redis, acked>>

\* SELECT COUNT(*).
CountTotal(t) ==
  /\ pc[t] = "countTotal"
  /\ \/ /\ job' = [job EXCEPT ![t].total = Len(rows)]
        /\ Goto(t, "fillTotal")
     \/ SqlError(t, "internal")
  /\ UNCHANGED <<sql, lent, redis, acked>>

\* SET stats:total_users.
FillTotal(t) ==
  /\ pc[t] = "fillTotal"
  /\ \/ totalCache' = job[t].total
     \/ RedisFaults /\ UNCHANGED totalCache
  /\ Goto(t, "release")
  /\ UNCHANGED <<sql, lent, userCache, listCache, listIndex, requestCount, job, acked>>

\* GET stats:request_count; a failed GET reads as 0.
GetCount(t) ==
  /\ pc[t] = "getCount"
  /\ \E n \in {requestCount} \cup IF RedisFaults THEN {0} ELSE {} :
       job' = [job EXCEPT ![t].count = n, ![t].status = "ok"]
  /\ Goto(t, "reply")
  /\ UNCHANGED <<sql, lent, redis, acked>>

-----------------------------------------------------------------------------
(* Redis drops keys whose time to live is over; the process may die        *)

ExpireUser(i) ==
  /\ userCache[i] # Nil
  /\ userCache' = [userCache EXCEPT ![i] = Nil]
  /\ UNCHANGED <<sql, lent, listCache, listIndex, totalCache, requestCount, pc, job, acked>>

\* Mutant of ExpireList: the list is SET without EX.
NeverExpireList(k) ==
  FALSE /\ k = Nil /\ UNCHANGED vars

ExpireList(k) ==
  /\ listCache[k] # Nil
  /\ listCache' = [listCache EXCEPT ![k] = Nil]
  /\ UNCHANGED <<sql, lent, userCache, listIndex, totalCache, requestCount, pc, job, acked>>

ExpireTotal ==
  /\ totalCache # Nil
  /\ totalCache' = Nil
  /\ UNCHANGED <<sql, lent, userCache, listCache, listIndex, requestCount, pc, job, acked>>

\* The server dies at any point and is started again: MySQL and Redis keep
\* what they have, the clients of the requests under way get no reply.
Crash ==
  /\ Crashes
  /\ pc' = [t \in Threads |-> "out"]
  /\ job' = [t \in Threads |-> NoJob]
  /\ lent' = [t \in Threads |-> NoConn]
  /\ lastId' = [c \in Conns |-> 0]
  /\ UNCHANGED <<rows, redis, acked>>

-----------------------------------------------------------------------------

\* What a handler does once it has a connection or needs none.
Work(t) ==
  \/ CountRequest(t) \/ Release(t) \/ Reply(t)
  \/ Insert(t) \/ SetUser(t) \/ Smembers(t) \/ DelKey(t) \/ DelIndex(t) \/ DelTotal(t)
  \/ GetUser(t) \/ SelectUser(t) \/ FillUser(t)
  \/ GetList(t) \/ CountRows(t) \/ SelectPage(t) \/ FillList(t) \/ Sadd(t)
  \/ GetTotal(t) \/ CountTotal(t) \/ FillTotal(t) \/ GetCount(t)

Expire ==
  \/ \E i \in Ids : ExpireUser(i)
  \/ \E k \in Keys : ExpireList(k)
  \/ ExpireTotal

Next ==
  \/ \E t \in Threads : Work(t) \/ Acquire(t) \/ \E r \in Requests : Arrive(t, r)
  \/ Expire
  \/ Crash

Spec == Init /\ [][Next]_vars

(***************************************************************************)
(* A handler goes on; acquire() promises what ConnLender does, that some   *)
(* waiting thread gets a free connection; Redis drops a key whose time is  *)
(* over.  No client has to send a request and no crash has to happen.      *)
(***************************************************************************)
Fairness ==
  /\ \A t \in Threads : WF_vars(Work(t))
  /\ WF_vars(\E t \in Threads : Acquire(t))
  /\ \A k \in Keys : WF_vars(ExpireList(k))
  /\ WF_vars(ExpireTotal)

FairSpec == Spec /\ Fairness

-----------------------------------------------------------------------------
(* Properties                                                              *)

TypeOK ==
  /\ rows \in Seq(Names)
  /\ lastId \in [Conns -> Nat]
  /\ lent \in [Threads -> Conns \cup {NoConn}]
  /\ userCache \in [Ids -> User \cup {Nil}]
  /\ listCache \in [Keys -> Cached \cup {Nil}]
  /\ listIndex \subseteq Keys
  /\ totalCache \in Nat \cup {Nil}
  /\ requestCount \in 0..MaxCount
  /\ pc \in [Threads -> Labels]
  /\ job \in [Threads -> Job]
  /\ acked \subseteq Nat

Answered(t, op) == pc[t] = "reply" /\ Op(t) = op /\ job[t].status = "ok"

\* "Users that are not in the database" (user_repository.cpp:73) are never
\* cached: a cached user is the row with its id, after failed statements,
\* failed commands and crashes too.
CachedUsersAreRows ==
  \A i \in Ids : userCache[i] # Nil => i \in 1..Len(rows) /\ userCache[i] = Row(i)

\* A CreateUser that succeeds replies the row it inserted, whatever other
\* threads insert at the same time through other connections.
CreateRepliesOwnRow ==
  /\ \A t \in Threads : Answered(t, "create") =>
       /\ job[t].user.id \in 1..Len(rows) \ acked
       /\ job[t].user = Row(job[t].user.id)
       /\ job[t].user.name = job[t].req.name
  /\ \A t, u \in Threads : Answered(t, "create") /\ Answered(u, "create")
       /\ job[t].user.id = job[u].user.id => t = u

\* A list is what the table once was: its total is the size of the table at
\* one moment, its users are the requested page at the same moment or later.
IsSnapshot(list, page) ==
  \E n \in list.total..Len(rows) : list.users = PageOf(n, page)

\* No reply and no cached list mixes pages, tears rows or counts rows that
\* are not there, however long it has been cached.
ListsAreSnapshots ==
  /\ \A t \in Threads : Answered(t, "list") => IsSnapshot(job[t], PageRequested(t))
  /\ \A r \in {q \in Requests : q.op = "list"} :
       LET hit == listCache[ListCacheKey(Page(r))]
       IN  hit # Nil => IsSnapshot(hit, Page(r))

\* A user that a client was told of before the request is found, and with
\* the right data; NOT_FOUND is for users that do not exist
\* (user_repository.h:44).
UserReadAfterWrite ==
  \A t \in Threads : pc[t] = "reply" /\ Op(t) = "get" /\ job[t].req.id \in job[t].known =>
    job[t].status = "ok" /\ job[t].user = Row(job[t].req.id)

\* "What is read after a write is the new data" (user_repository.h:24), for
\* lists: a list counts all users that clients were told of before.
ListReadAfterWrite ==
  \A t \in Threads : Answered(t, "list") => job[t].total >= Cardinality(job[t].known)

\* The same for GetStats (user_repository.cpp:102).
StatsReadAfterWrite ==
  \A t \in Threads : Answered(t, "stats") => job[t].total >= Cardinality(job[t].known)

\* The index enumerates "the list cache keys ever written"
\* (user_repository.cpp:55), or else InvalidateListCache misses them: when no
\* thread is between SET and SADD every cached list is in it.
IndexHoldsListKeys ==
  (\A t \in Threads : pc[t] # "sadd") => {k \in Keys : listCache[k] # Nil} \subseteq listIndex

\* Threads that have settled what they will reply, unless they failed.
Settled ==
  {"smembers", "delKeys", "delTotal", "fillUser", "fillList", "sadd", "fillTotal",
   "getCount", "release", "reply"}

\* The reply that thread t has in hand, from the moment on that it is settled.
ReplyOf(t) ==
  LET j == job[t]
      failed == pc[t] \in {"release", "reply"} /\ j.status \notin {"pending", "ok"}
  IN  CASE failed -> [status |-> j.status, value |-> Nil]
        [] pc[t] = "setUser" ->
             [status |-> "ok", value |-> [id |-> lastId[lent[t]], name |-> j.req.name]]
        [] pc[t] \in Settled /\ ~failed ->
             [status |-> "ok",
              value |-> CASE Op(t) \in {"create", "get"} -> j.user
                          [] Op(t) = "list" -> [total |-> j.total, users |-> j.users]
                          [] Op(t) = "stats" -> j.total]
        [] OTHER -> [status |-> "pending", value |-> Nil]

\* The RPCs keep the promises of UserDirectory: cache, connections and
\* statements do not show, except that lists and totals may be old and that a
\* failed call may have had its effect.
Directory == INSTANCE UserDirectory
             WITH users <- rows, told <- acked, Faults <- SqlFaults,
                  call <- [t \in Threads |-> IF pc[t] = "out" THEN Nil ELSE job[t].req],
                  answer <- [t \in Threads |-> ReplyOf(t)]
ImplementsDirectory == Directory!Spec

\* Handlers use the pool by its rules: none asks for a connection that holds
\* one, each returns what it borrowed, and only a crash takes connections away.
UsesLender == [][Lender!Next \/ Crash]_(Lender!vars)

\* When the clients stop to create users, lists and totals catch up with the
\* table, even those that a race left stale: "the TTL is the safety net"
\* (user_repository.cpp:22).
Fresh ==
  /\ totalCache \in {Nil, Len(rows)}
  /\ \A k \in Keys : listCache[k] # Nil => listCache[k].total = Len(rows)
EventuallyFresh == <>[]Fresh

\* Connections always come back: when every thread is busy, one of them ends
\* its request, though fewer connections than threads exist.
SomebodyFinishes ==
  (\A t \in Threads : pc[t] # "out") ~> (\E t \in Threads : pc[t] = "out")

=============================================================================
