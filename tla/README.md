# Verification of http_server_demo

TLA+ models, TLC runs and TLAPS proofs for `http_server_demo`: the MySQL
connection pool, its connections and the Redis client, the cache-aside repository
on MySQL and Redis, the four RPCs that use them, the server process around them,
the HTTP gateways in front, and the data formats in between: the generated protobuf
messages, the JSON of a user, the command line.  Paths below are relative to the
repository (`src/store/mysql_pool.cpp` and so on).

## 1. The system

```
client -> nginx (round robin) -> gateway 1, gateway 2   HTTP, Drogon
                                   | gRPC, 3 s deadline
                                   v
                  gRPC server: UserServiceImpl, several RPC threads
                                   |
                             UserRepository
                          /                    \
              MysqlPool -> MysqlConn          RedisClient
                          |                    |
                        MySQL                Redis
```

| component | state | operations | correct when |
|---|---|---|---|
| `MysqlPool` (`src/store/mysql_pool.{h,cpp}`) | `conns_`, `idle_` stack, `mu_`, `cv_` | `init`, `shutdown`, `acquire`, `release`, `Guard` move and destruction | a connection has one user, none is lost, no pop of an empty stack, no lost notification, the table exists when `init()` says so |
| `MysqlConn` (same files) | `mysql_` handle, `err_` | `connect`, `close`, `execute`, `query`, `lastInsertId`, `escape` | no statement is out of sync, also after a broken link; no statement goes to a null handle |
| `RedisClient` (`src/store/redis_client.{h,cpp}`) | one `redisContext`, `err_` | `connect`, `close`, `set`, `get`, `del`, `incr`, `sadd`, `smembers`; `exists`, `srem`, `scard` are unused | each caller gets the reply of its own command, no command runs twice, a reply is read by its type |
| `UserRepository` (`src/store/user_repository.{h,cpp}`) | none of its own: the table, `user:{id}`, `users:list:{limit}:{offset}`, the index `cache:users:list`, `stats:total_users`, `stats:request_count` | `CreateUser`, `GetUser`, `ListUsers`, `GetStats`, `CountRequest`, `InvalidateListCache` | the cache never shows what the database never held, and what it shows is fresh when it should be |
| `UserServiceImpl` (`src/grpc_server/user_service.cpp`) | none | the four RPCs | validation, defaults and status |
| server process (`src/grpc_server/main.cpp`) | - | pool, Redis, server, in this order; the RPC threads | nothing is served without its connections and its context, and the threads do not block each other for ever |
| gateway (`src/gateway/*`) | one `GrpcClient` with `err_`, the instance id | five HTTP handlers, each one RPC | status and body are those of the own RPC; a timeout does not create a user twice |
| `ParseArgs`, `GetArg`, JSON conversion (`src/common/*`) | none | pure functions | round trip, precedence of argument, environment and default |
| generated messages (`generated/user/v1/user.pb.{h,cc}`) | fields, has-bits, unknown fields | accessors, `Clear`, `MergeFrom`, copy, assign, swap, `ByteSizeLong`, `_InternalSerialize`, parsing | has-bits can be trusted, the announced size is the written one, nothing is lost on the wire or in a merge |
| nginx, generated gRPC stubs | - | - | only what nginx does with a request whose gateway dies |

The components call each other synchronously.  What the threads of the server
share is the pool (behind `mu_`), MySQL, Redis, and the single `redisContext`
(behind nothing).

What is hard:

* *interleaving*: every RPC is a sequence of Redis commands and SQL statements
  with no transaction or lock around it, run by several threads at the same
  time (two gateways behind nginx guarantee that there are at least two);
* *mutex and condition variable*: waiting, notifying one, spurious wakeups,
  newcomers that overtake;
* *partial failure*: nearly all Redis results are ignored, a failed SELECT and
  an empty one look alike, an INSERT may succeed and its answer be lost;
* *crash and restart* between any two commands; Redis and MySQL keep their data;
* *a context shared without a lock*, whose error stays for ever, and connections
  whose link breaks and that are lent again all the same;
* *redundant data in the messages*: has-bits beside the fields, a size that is
  computed before the bytes are written, strings that share one empty default;
* *time to live*: keys vanish at any moment, and for some races that is the
  only repair;
* *boundaries*: an empty pool, `pool_size <= 0`, pages beyond the end, negative
  offsets.

`PROJECT.json` lists these hazards at their lines with the properties that
would catch them going wrong.

## 2. Modules

| module | what it is |
|---|---|
| `ConnLender` | abstract specification of a connection pool: owned connections, what each thread holds, who wants one |
| `MysqlPool` | the pool as coded: one step per critical section of `mu_` and per operation on `cv_` |
| `MysqlPoolProofs` | inductive invariant, theorems, refinement of `ConnLender` |
| `UserRepository` | the four RPCs: one step per Redis command, SQL statement, `acquire()` and end of a guard; borrows connections by the rule of `ConnLender` |
| `MCUserRepository` | the requests that TLC chooses from, and the symmetry |
| `UserDirectory` | abstract specification of the four RPCs: one list of users, and one moment per call at which its answer is settled |
| `UserRepositoryProofs` | inductive invariant and theorems about users |
| `RepositoryReadProofs` | theorems about what readers are shown, refinement of `UserDirectory`, borrowing by the rules of `ConnLender` |
| `Gateway` | an HTTP request from nginx through a handler and its RPC to the response, with gateways that die and a server that is late |
| `Deployment` | the gateways with a server that is a `UserDirectory`, its threads and its restarts |
| `MCDeployment` | the kinds of request and body for TLC |
| `GatewayProofs` | inductive invariants and theorems of `Gateway` and `Deployment` |
| `RedisClient` | the methods of the client and `redisvCommand()` of several threads on one context |
| `RedisClientProofs` | inductive invariant and theorems |
| `MysqlConn` | the connections: handle, link, protocol state, error |
| `MysqlConnProofs` | inductive invariant and theorem |
| `Server` | composes the two: `main()`, and the RPCs as sequences of commands and statements |
| `MCServer` | which RPCs reach which thread, for TLC |
| `ServerProofs` | the server takes only steps of its two parts; its own invariant and theorems |
| `UserMessages` | the nine generated messages |
| `JsonUtils` | the JSON of a user, on top of `UserMessages` |
| `Config` | command line, environment and the start of a gateway |
| `MCFormats` | runs the messages and the command line for TLC |
| `FormatsProofs` | folds over sequences, the invariant of the messages, parser and serializer, theorems |

### MysqlPool

`phase` is where `main()` is.  `CreateDatabase`, `OpenConnection` (one iteration
of the loop, `CREATE TABLE` included when `i == 0`), `InitFails` and
`InitSucceeds` are `init()`; `StartServer` is the rest of `main()`; `Shutdown`
is the destructor after a failure.  `server->Wait()` never returns, because
nothing calls `Shutdown()` on the server, so the pool is not closed while it is
used.

For a thread, `pc` is

```
out -> enter -> test -> take -> using -> return -> push -> out
                  \-> waiting -> enter
```

`enter` is both the `unique_lock` and the re-lock inside `cv_.wait()`; `test` and
`take` are two steps, so that the model and not an assumption shows that nothing
comes between the predicate and `pop_back()`.  `PushAndNotify` is the body of
`release()`: push, wake one sleeper of any choice, unlock (the notification is
sent under the lock, so it is one step).  `SpuriousWake` may happen at any time.
`MoveGuard` hands a guard to an idle thread, which is more than the code does
today (it only returns guards by value) and what the class offers.

`table` starts TRUE or FALSE, because an earlier run may have created the table.
`PoolSize` is any integer, as `std::stoi` returns.

### UserRepository

The state is the table (`rows`, a sequence: row i has id i), what
`mysql_insert_id()` returns per connection (`lastId`), the guards (`lent`), and
the Redis keys, one variable for each family.  `job[t]` is the request, the local
variables and the reply of a handler; `acked` is a history variable with the ids
that clients were told of.

Each operation of the code is a path of labels:

```
create: count acquire insert setUser smembers delKeys delTotal release reply
get:    count getUser [acquire selectUser fillUser release] reply
list:   count getList [acquire countRows selectPage fillList sadd release] reply
stats:  getTotal [acquire countTotal fillTotal release] getCount reply
```

The validation and defaults of `UserServiceImpl` are in `CountRequest`
(`Invalid`) and in `Page`.  GetStats starts at `getTotal`: the service does not
count it.

Failures, each switched by a constant: `SqlFaults` lets any statement fail (an
INSERT that fails may still have inserted), `RedisFaults` lets any command fail
(a failed GET or SMEMBERS is a miss, a failed write does nothing, all others are
ignored, as the code does; a write whose answer is lost is the successful
case), `Crashes` restarts the server at any point.  Expiry is always possible.

`UserDirectory` says what all of this is for: a create adds one user at one moment
between the begin and the end of the call, a get answers what the directory has at
such a moment, a list is a page of what the directory was at some moment, a count is
one that was true once; a failed create may have had its effect, a failed get looks
like an unknown user.  `ImplementsDirectory` maps `rows` to the users and `acked` to
what clients know; `ReplyOf` is the answer that a handler has in hand, from the label
on at which it is settled (`Settled`): after the INSERT, the GET or SELECT of the
user, the SELECT of the page, the count.  Cache, connections and the rest of the
steps are stutters.  `UsesLender` maps the guards and the labels to `ConnLender`.

Abstractions:

* a name stands for name, email and `created_at`; a key is the tuple of its
  parameters; JSON is the record that it encodes, so the `catch` for a broken
  cached value is never taken;
* ids are canonical numbers.  `WHERE id='01'` finds row 1 in MySQL and the code
  caches it as `user:01`; that alias is left out;
* AUTO_INCREMENT leaves no gaps (real ones do after failures); no property
  depends on the numbers beyond their being unique;
* a Redis command is atomic whichever thread sends it.  **The code does not
  guarantee this**: all threads use one `redisContext` without a lock, which
  `redis_client.h:23` admits.  What the runs and theorems say of
  `UserRepository` holds when commands are serialised, and is what a client per
  thread, or a lock, would give.  The race is the subject of `RedisClient`;
* a dead MySQL link is a sequence of failing statements; `MysqlConn` and `Server`
  follow the connection that has it.

### Gateway

A request goes `new -> queued -> calling -> done`, or from `queued` to `done` when
no RPC is needed.  `sent` holds the RPCs that the server has not run, `replies`
those it has answered; an RPC stays in `sent` after the gateway has given it up,
as the handlers of the server never look at their context.  `HttpStatus` is the
`RpcStatus` of `GrpcClient` and the status of `UserController` together.  `Turn`
says that a gateway has one handler at a time: handlers are synchronous, and
`src/gateway/main.cpp` leaves Drogon at its default of one I/O thread.  For that
reason `err_` of `GrpcClient` is not shared, and it is left out.

External, by the documented defaults of the programs: nginx passes a request on
when its gateway dies, but not a POST that it has sent (`PassOn`); Drogon answers
500 when a handler throws, as `asString()` does for a structured name
(`ThrowOnName`).  The 60 s timeouts of nginx are left out.  A get with an empty id
(`NoId`) reaches the service, whose INVALID_ARGUMENT becomes a 502; only the 400 of
`getUser` for a request without a routing parameter is left out, as a request that
matches the route has one.

The server of this module creates, gets or fails in one step, and when it dies RPCs
are lost (`LoseRpcs`).  That nothing more is needed is the subject of `Deployment`.

### Deployment

`Deployment` puts `UserDirectory` in the place of the server: `rows` are its users, and
its threads take what is in `sent`.  `Begin` gives an RPC to an idle thread, `Decide`
is the moment at which `UserDirectory` settles the answer, `End` is the way back, which
finds the handler waiting or finds nobody; `Restart` takes all RPCs that threads have.
Each of them is the action of `UserDirectory` together with what the gateways see of it.
So the server is a `UserDirectory` by construction, and no property says that again.
`ImplementsGateway` says that `Gateway` knows all that can happen.  With
`ImplementsDirectory` of `UserRepository` this is the way of a request from nginx to the
cache and the table: what is true of an answer of `Gateway` is true with the repository
behind it.

Composing showed that `UserDirectory` was too weak: it let a create without a name fail
after adding a user.  The service refuses such a call before it asks the repository
(`user_service.cpp:15`), so `Fail` is for valid calls only, and `UserRepository` was
proved to implement the stronger form.

### RedisClient

`ctx`, `obuf` and `reader` are the parts of the `redisContext` that
`redisvCommand()` uses: its error flag, its output buffer and its reply reader;
`wire`, `replies` and `link` are the TCP connection.  A call goes

```
out -> append -> peek -> write -> trim -> read -> take -> done -> out
```

where `done` is the method with its reply in a `RedisReply`, and any socket error
leads to `done` with a null pointer.  hiredis is external, and is modelled in steps as small as its own:
append to the buffer, look for a reply in the reader, write the whole buffer, trim
what was written, read, look again.  A thread takes the *first* reply that it
finds, whoever it is for.  `Connect`, `Close`, `StartCall`, `EndCall` and the nine
result operators (`Set` to `Scard`) are the source's; the latter say for every
reply, own or foreign, whether the method succeeds and which fields of the reply it
reads.

`raced` remembers that two threads have been in the context together, or that two
whose commands failed both write `err_` (`WritesErr`), which has no lock either.
From then on
the C++ program has a data race, so that anything may happen; the model explores
what the hiredis steps give when they mix, and the death of the process.
`OwnReply` and `RunsOnce` are promises for the time before; `RightField` holds after
it too.  `runs` counts how often Redis has run a command, and starts again only when
its number is given to a new call, so a command that was left in the buffer and ran
after its call was over would show: `RunsOnce` says that Redis has nothing to run for a
call that is over, and that nothing left in the buffer of a context with an error has run.

After an error every command still appends to the buffer, and nothing ever writes
or frees it until a restart: `MaxUnsent` cuts that growth, which is real.

### MysqlConn

Four facts for each connection: is there a handle, does its link stand, are there
rows that nobody has stored (`unread`), and why the last failing method failed.
`query()` has two halves, so that the link can break between the SELECT and
`mysql_store_result()`.  `mysql_insert_id()` is in `UserRepository`; `escape()`
changes nothing.

### Server

`main()` (`ReadArgs` to `Leave`) and the RPCs, each a sequence of steps that are
a Redis command, a statement, `acquire()` or the end of a guard.  The sequences are
those of `UserRepository`, which says what they do to the data; here the data is
left to chance (a lookup hits or misses, a name is empty or not, SMEMBERS returns
some number of keys, each of which is deleted by a DEL of its own: `left`) and what counts
is which resource is used when, while which other is held.  `init()` is in
`CreateDatabase`, `OpenConnection`, `CreateTable` and `OpenFails`: each part of it may
fail, and `main()` with it.  `Crash` lets the process die at any step, with a restart
behind it.

`pool` is the stack of `MysqlPool` without its mutex: that `acquire()` and
`release()` are steps of this kind is what `PoolRefinesLender` proves.  In turn
`LendsByTheRules` says that the process uses the stack as `ConnLender` allows: what
is `owned` there are the connections that are idle or lent here, and who is in
`want` is at the step `acquire`.  A crash is the one step that is not allowed there.

### UserMessages, JsonUtils and Config

`UserMessages` has for each of the nine messages one operator for each generated
method, with the numbers of the has-bits as the method has them: constructor,
`Clear`, `_InternalSerialize`, `ByteSizeLong`, `MergeImpl`, the copy constructor
where it is not a plain copy, the accessors and the parse table.  The two messages
`a` and `b` of one type are changed by any sequence of these.  A string is its text
and whether it has storage of its own: the shared empty string must never be
written to.  Bytes are entries (number, wire form, value), and the functions for
sizes count the bytes of the real encoding.  Each int field has values of its whole
width (`IntsOf`).  A message starts empty or, if it is a user, full, as the server
fills it (`FullUser`); users inside of messages are new, full, or have an empty name
that was set.  The theorems have no bound on the number of edited fields.

`JsonUtils` reads a user from the JSON of another one, of which keys may be
missing.  `Config` is `ParseArgs`, `GetArg` and the `main()` of the gateway, which
aborts on a port that is no number.

## 3. Runs

Twelve runs.  Bounds are in the cfg files.

| run | expects | shows |
|---|---|---|
| `pool` | pass | 5 threads, 3 connections.  `Exclusion`, `NothingLeaks`, `NoEmptyPop`, `NoLostWakeup`, `TableReady`, and `ImplementsLender` with its liveness |
| `repo_users` | pass | 2 handlers create and get, with all faults and crashes.  `CachedUsersAreRows`, `CreateRepliesOwnRow`, `UsesLender` |
| `repo_reads` | pass | 2 handlers create, get and list two pages, no faults.  `UserReadAfterWrite`, `ListsAreSnapshots` |
| `repo_serial` | pass | 1 handler, statements may fail.  `ListReadAfterWrite`, `StatsReadAfterWrite`, `IndexHoldsListKeys` |
| `repo_live` | pass | 2 handlers, 1 connection, all faults and crashes, fairness.  Requests of all four kinds.  `ImplementsDirectory`, `EventuallyFresh`, `SomebodyFinishes` |
| `deployment` | pass | 2 requests of every kind, 2 gateways, a server that fails and restarts.  `CreatedIsStored`, `CreatedAtMostOnce`, `RefusedLeavesNothing`, `KnownUserFound`, `EveryRequestAnswered`, `ImplementsGateway` |
| `server` | pass | 2 threads (one creates, one lists and reads statistics), 1 connection, 1 broken link per life of the process, failing statements, crashes.  `OwnReply`, `RunsOnce`, `RightField`, `NeverOutOfSync`, `Equipped`, `SomeRpcEnds`, `LendsByTheRules` |
| `formats` | pass | every message type with two edited fields, with a full user, JSON, two arguments.  `HintsHold`, `SizeFits`, `RoundTrip`, `MergeIsConcatenation`, `CopiesEqual`, `JsonCarriesUser`, `StartsAsTold` |
| `pool_empty` | violation | `TableReady` with `pool_size` 0 |
| `list_stale` | violation | `ListReadAfterWrite` with 2 handlers |
| `index_gap` | violation | `IndexHoldsListKeys` with 2 handlers |
| `not_found` | violation | `UserReadAfterWrite` with a failing statement |

Why the bounds are enough.

* `pool`: 5 threads and 3 connections let every connection be lent while two
  threads sleep, so one notification too few shows; the theorems remove the
  bound for the safety part.
* `repo_users`, `repo_reads`: 2 connections let two handlers be in the database
  at the same time, 2 rows let one handler's INSERT fall between the steps of
  another's, and two names tell the rows apart.  With 2 users, page 0 and page 1
  of size 1 differ and a total can be stale by one.  `MaxCount` caps the request
  counter, which no guard reads.
* `repo_serial`: commands do not fail and the server does not crash, as either breaks
  what is promised even with one handler: an ignored DEL leaves an old list, and a
  crash between the SET of a list and its SADD leaves a list that the index does not
  have.
* `deployment`: with 2 requests both may create, or one may get what the other
  created, through different gateways; with 2 gateways a request can be passed on
  once and then not any more.  There is 1 thread, which may be taken by an RPC that its
  gateway has given up while the other one waits.  That threads may decide in another
  order than they were asked adds nothing to what `Gateway` allows: the theorems are for
  any number of threads, and for any server that `Gateway` allows.
* `repo_live`: 1 connection for 2 handlers is the smallest pool that blocks.  One user is
  enough for a get, a list and a count to be answered before or after its create; what
  two connections add to `ImplementsDirectory` is covered by its theorem.
* `server`: 2 threads are enough to meet in the context, and 1 connection makes one
  of them wait while the other holds it and waits for Redis.  3 calls name all
  commands that can be in the buffers at once; `MaxUnsent` 2 and `MaxInFlight` 2
  leave room for a foreign command and its reply.  `MaxKeys` 2 runs the loop of DELs
  never, once and twice.  Once `raced` is set only the
  commands under way are followed, until the process dies: the mix-ups then come
  from those.  `MaxBreaks` 1 is one broken link, to Redis or to MySQL, in each life
  of the process.  The safety part is proved without these bounds.
* `formats`: a method treats a field by its own bit, so two edited fields at a time
  show a wrong bit or a wrong field; texts of 0, 1 and 200 bytes have lengths of one
  and two bytes on the wire; ints are -1, 0 and 1000, with the widths of int32 and
  int64 cut to 6 and 16 bits (`Bits32`, `Bits64`), which keeps a negative int longer
  than a positive one, and 1000 too wide for an int32.  Each message type has one field
  this version does not know, or knows with another wire type; `MaxUnknown` 1 and
  `MaxUsers` 2 let unknown fields and lists be merged; `SampleUsers` are a new user, one
  that is empty with a bit set, and the full ones of `Samples`.  `MaxEdited` 2 is the
  number of edited fields.  The command line (`MaxArgs` 2, so that a key may come twice)
  moves only while the messages are as at the start, as the two share nothing.
* TLC checks deadlock in the other runs; the pool can only stop after `main()` has
  returned (`Terminated`), the gateways when all requests are answered (`Finished`),
  the repository and the server never.  It is off in `formats`, where a gateway that
  listens or has aborted is at its end.

### Fairness

`MysqlPool!Fairness`: a runnable thread is scheduled and a handler ends; nobody
has to call `acquire()`, move a guard or wake without a notification.  Each
mutex step is only weakly fair: `std::mutex` promises that somebody gets it.
`UserRepository!Fairness`: a handler that has what it needs goes on; for
`acquire()` only what `ConnLender` promises, that *some* waiting handler gets a
free connection; and Redis drops keys whose time is over, which it promises.
`Deployment!FairDeploymentSpec`: a gateway serves what is queued and its clock runs; the
server may never answer.
`Server!ServerFairSpec`: a thread that can go on does, and *some* waiting thread gets
a free connection, as `ConnLender` promises; Redis answers what has reached it or its
link breaks.  A Redis that keeps the link and never answers would stop all threads
for good, since no command has a timeout: `SomeRpcEnds` needs this assumption.
No fairness is assumed for clients, for creating users or against faults.  In
particular nothing guarantees that a command ever succeeds.

### What the code does that its comments do not say

* `pool_empty`: `init()` (`mysql_pool.h:117`) completes "create database, create
  table"; `CREATE TABLE` is inside the loop over `pool_size`.  With 0 or less
  nothing is created, `true` is returned, and the first RPC that needs a
  connection waits for ever.
* `list_stale`: "what is read after a write is the new data"
  (`user_repository.h:24`).  ListUsers reads the table, CreateUser inserts and
  invalidates, ListUsers caches the old list, and the creator's next ListUsers
  returns it for up to 10 s.  The same race exists for `stats:total_users`
  (`user_repository.cpp:238`), up to 30 s.  `EventuallyFresh` shows that the
  staleness ends.
* `index_gap`: the index holds "the list keys ever written"
  (`user_repository.cpp:55`).  A key added between the SMEMBERS and the DEL of
  the index is lost from it while its list stays cached.
* `not_found`: nullopt means "no such user" (`user_repository.h:44`), and also
  that the statement failed; the client sees NOT_FOUND for a user that exists.

Seen while modelling, without a run: an empty name passes the gateway, which only
asks for the member `name`, and the INVALID_ARGUMENT of the service becomes a 502;
GetStats is not counted though
`user_repository.h:54` counts every business RPC; a thread in `acquire()` can be
overtaken by newcomers without end, so "until a connection is returned"
(`mysql_pool.h:157`) is no promise to a single waiter; `user.proto:47` names
`SCARD users:ids` as the source of the total, the code counts rows;
`redis_client.cpp:109` mentions ids from `users:seq`, they come from MySQL;
`cfg_` is kept "for rebuilding" (`mysql_pool.h:165`) and nothing rebuilds;
`shutdown()` takes the lock because it may run beside `acquire()` and `release()`
(`mysql_pool.cpp:156`) but would destroy lent connections if it did.

## 4. Proofs

All statements below are for any number of threads, connections and requests.

Theorems about `MysqlPool`, `UserRepository`, `Gateway`, `Deployment`, `RedisClient`, `MysqlConn`,
`Server`, and the messages and the command line.

`MysqlPoolProofs`
* `PoolInvariant`: `PoolInv` is inductive.  Beyond `TypeOK`, `Exclusion`,
  `NothingLeaks` and `NoEmptyPop` it says that a thread at a critical label owns
  `mu_` (`MutexOwner`), which thread holds a connection at which label
  (`GuardLabels`), and that no handler runs before the server does
  (`QuietBeforeServing`).  `Exclusion` alone is not inductive: that a push adds
  a connection that is not idle yet needs the label of the pusher.
* `PoolTyped`, `PoolExclusion`, `PoolNothingLeaks`, `PoolNoEmptyPop` follow.
* `PoolNoLostWakeup`: a counting argument on finite sets of threads.  A push adds
  one idle connection and wakes one sleeper or finds none; a thread falls asleep
  only when the stack is empty.
* `PoolTableReady` under `PoolSize > 0`; `pool_empty` shows that the assumption is
  needed.
* `PoolRefinesLender`: the safety part of `ConnLender`, a step of the pool being a
  step of `ConnLender` or a stutter.

`UserRepositoryProofs`
* `RepositoryInvariant`: `RepositoryInv` is inductive.  It combines the types with
  the structure of a handler's run (which label goes with which request, a
  connection is held exactly at the labels inside a guard and by one handler,
  requests that pass validation are valid) and what is known of users: what a
  handler has in hand at each label is a row of the table, and the last insert id
  of a connection is that of its holder's INSERT, which no other handler or
  client has.
* `RepositoryTyped`, `NoPhantomUsers` (`CachedUsersAreRows`) and `CreateRepliesTruth`
  (`CreateRepliesOwnRow`) follow.

`RepositoryReadProofs`, where rows are only ever appended (`TableOnlyGrows`)
* `SnapshotInvariant`: `SnapshotInv` adds to `RepositoryInv` that every list, in a
  handler's hand and in the cache, is the page of an earlier state of the table that
  had no fewer rows than the total says.  `ListsAreTrue` (`ListsAreSnapshots`) follows,
  with all faults and crashes.
* `UsersAreFound` (`UserReadAfterWrite`) under `~SqlFaults`; `not_found` shows that this
  is needed.  `FoundInv`: what the client knew when it asked is in the table, so that
  the SELECT finds it, and a handler on its way to NOT_FOUND asked for something else.
* `StatsAreCurrent` (`StatsReadAfterWrite`) and `ListsAreCurrent` (`ListReadAfterWrite`),
  for any number of handlers, with failed statements and commands and with crashes.
  Neither holds without a condition, and the theorems name the only steps at which it
  goes wrong.  For totals (`TotalKept`): a total is cached that was counted before the
  INSERT of a user whose DEL is over (`user_repository.cpp:238`), or that DEL fails.
  For lists (`ListsKept`): a list is cached that an INSERT has so overtaken (`:214`, the
  run `list_stale`), SMEMBERS fails or does not name a cached list without the new user
  (`:59`; how an index gets that way is in `index_gap`), or a DEL of a list fails.  As
  long as none of these happens, everything that is read counts every user that its
  reader was told of.  `TotalsInv` and `ListsInv` say of whom a cached number must know:
  of the users that clients were told of, and of those whose handlers have passed the
  DEL that would remove it.
* `RepositoryImplementsDirectory` (`ImplementsDirectory`): each step maps to a step of
  `UserDirectory` or a stutter, for any number of handlers, with all faults and
  crashes.  It needs `DirectoryInv`: the lists are snapshots, a cached or read total is
  not above the table's size, and the status at a label is one that belongs there.
* `BorrowsByTheRules` (`UsesLender`): what the repository does with connections are
  steps of `ConnLender`, and `PoolRefinesLender` says that the pool makes no others.
  So the pool never waits for a handler that waits for the pool.

`GatewayProofs`
* `GatewayInvariant`: `GatewayInv` is inductive.  That a request creates one user at
  most (`CreationsAreUnique`, of `CreatedAtMostOnce`) is not inductive alone: it needs
  that an RPC still under way is that of the one gateway that had the request, and that
  no row is from it yet (`CallsFresh`); so a late answer, a timeout or a passed-on
  request never leads to a second one.  `RowsAskedFor`, `RepliesTrue` and
  `ResponsesTrue` follow the truth from the table to the client.
* `GatewayTyped`, `CreationsAreTrue` (`CreatedIsStored`), `RefusalsAreFinal`
  (`RefusedLeavesNothing`) and `NotFoundIsTrue` (`KnownUserFound`) follow, for any number
  of requests, gateways and rows.
* `DeploymentInvariant`: `DeploymentInv` is inductive.  Each busy thread has the RPC of one
  request, among those sent until its answer is settled and among the replies from then on,
  with the same status and user (`Serves`), and no two threads have the same one.
* `DeploymentImplementsGateway` (`ImplementsGateway`): a step of the composition is one of
  `Gateway` or a stutter; `DecideKeeps` goes through the ways in which `UserDirectory`
  settles an answer, and `UsersAreRows` says that the directory has one more user exactly
  when the table has one more row.  `DeploymentIsTrue` carries the four theorems on
  `Gateway` over, and `WhatIsKnownWasTold` (`KnownWasTold`) follows from the invariant.

`RedisClientProofs`
* `RedisAlwaysInv`: `RedisInv` is inductive.  `OwnReply` alone is not: that the first
  reply in the reader is one's own needs to know, for each step of the one thread that
  is inside, where its command and its reply are (`CommandAt`, `InFlight`), that
  nothing is left in buffer, link or reader when no thread is inside, and that a
  context with an error is never written or read again, so that what is in its buffer
  has not run (`BufferNotRun`).  All of that is `Alone`, which
  holds until `raced`; `OwnCommands` and `NullIsIdle` hold always.
* `RedisTypes`, `RepliesAreOwn` (`OwnReply`), `CommandsRunOnce` (`RunsOnce`) and
  `FieldsAreThere` (`RightField`) follow, for any number of threads and any bounds.

`MysqlConnProofs`
* `ConnectionsStayInSync` (`NeverOutOfSync`): rows are unread only inside `query()`, so
  that no other statement meets them (`SqlInv`).

`ServerProofs`
* `ServerImplementsParts`: every step of the process is a step of `RedisClient` or leaves
  it alone, and the same for `MysqlConn`.  This needs `ServerInv`: a thread holds a
  connection exactly at the steps of an RPC between `acquire()` and the end of the
  guard, and while the process serves, the connections in the pool and in guards are
  all there are and have handles.
* `ServerIsSafe` carries the theorems of the parts over to the process, and
  `ServerIsEquipped` (`Equipped`) follows from `ServerInv`.
* `ProcessLendsByTheRules` (`LendsByTheRules`) and `ProcessLendsOnce`: the connection on top
  of the stack is free in the sense of `ConnLender` only because no connection is in two
  places, neither twice on the stack, nor on it and in a guard, nor in two guards
  (`LentOnce`); `main()` closes them when `ServerInv` says that no RPC is under way.

`FormatsProofs`, for all texts and ints, and sequences of any length
* Parsing and `ParseArgs` are folds.  The library's induction theorems take an operator,
  which the provers cannot instantiate; here a set of numbers has a least one
  (`LeastNatural`), so a fold has no first step at which a claim fails (`NatSteps`).
  `FoldExists` says that the recursion behind `FoldLeft` has a solution at all.
* `CommandLineRules` (`StartsAsTold`): after i arguments the settings are what the last of
  these i say about each key (`LastArgumentCounts`).
* `MessagesInvAlways`: `MessagesInv` is inductive.  `Messages(k)` are the messages of type k
  whose fields fit their has-bits (`ValueGood`), row by row of the parser's table, with
  users inside that are good messages themselves.  Each method keeps it: the accessors
  (`EditsGood`), `Clear` (`ClearGood`), `MergeFrom` (`MergeGood`), the copies, the serializer
  into entries (`SerializeGood`), the parser on whatever another process sends
  (`ReadGood`, `ParseGood`), and loading from JSON (`LoadedUser`).  `HintsCanBeTrusted`
  (`HintsHold`) follows.
* `AssignmentsCopy` (`CopiesEqual`), `MessagesArrive` (`RoundTrip`) and `MergesConcatenate`
  (`MergeIsConcatenation`) go by what the getters return, row by row.  `Joins(k, n, to,
  from)` says that n has what `to` has with `from` put over it: a text or an int that is
  not empty or 0, the users of a list at the end, the fields of the one user, the unknown
  fields at the end.  `MergeFrom` joins (`MergeGood`), and so does reading the bytes of
  `from` into `to` (`SerializeCarries`): the rows come one after the other (`FirstRow`,
  `NextRow`, `LastRow`), each one gives nothing or its entries (`Wire`), which are read into
  its own field and leave the other fields alone (`PlainRead`, `UserRead`, `UsersRead`), and the
  unknown fields, which no row reads, come last (`UnknownRead`).  A new message, or a
  cleared one, joined with another is that one (`JoinedWithCleared`).  For an int this
  needs its range: it goes out as a 64-bit number and comes back when it fits into the
  width of its field (`WireKeepsInts`), so `ValueGood` has the range too.
* `JsonIsTheUser` (`JsonCarriesUser`): what is filled from JSON is a good user with what the
  object has (`LoadedUser`), and is read from its bytes as it was (`ReadUser`).
* `SizesFit` (`SizeFits`): the bytes of two sequences of entries add up (`TotalConcat`,
  `BytesAre`), and each row takes what `ByteSizeLong()` counts for it (`RowSize`), a user
  inside of a message included (`UserSize`).  The generated code counts one byte for each
  tag, which is right as all field numbers are below 16 (`TagSizeIs`); unknown fields have
  the tags they came with.  Of powers of 128 only the first is needed: a 64-bit varint
  ends with its tenth byte, so that every number has a size (`VarintSizeIs`).

Assumptions are those on the constants in the modules: `Threads` and `Conns` of the
pool are finite, `PoolSize` is an integer not above the number of connections that
can be allocated, the requests are well formed, ints fit into 64 bits, `Nil`, `NoConn` and `NoThread`
are not values of the program, and the null pointer is no user.  `PowersAssumption` states
what is true of the powers of two of the two widths and the provers do not know: they
are positive, each is twice the one before, and `2^Bits32` divides `2^Bits64`.

Only model-checked: the liveness part of `ConnLender` (`ImplementsLender`),
`EventuallyFresh`, `SomebodyFinishes`, `SomeRpcEnds` and `EveryRequestAnswered`, because
liveness and ENABLED are out of the prover's reach.  No module declares a recursive operator.

## 5. Not modelled

* The gRPC stubs and the service base class (`user.grpc.pb.{h,cc}`): they only pass a
  message on to the library, under a method name; the callback and asynchronous forms
  are not used by the program.
* Of the messages: arenas, descriptors and reflection, UTF-8 checks and the checks of
  hardened debug builds.
* Logging, the wording of messages, the text of SQL and of JSON, `escape()`.
* The timeouts of nginx, and Drogon beyond "one handler at a time, an exception is a
  500".
* What hiredis does to its own memory in a data race, beyond mixed, lost and repeated
  commands and the death of the process.

## 6. Plan

Done: `ConnLender`, `MysqlPool`, `UserDirectory`, `UserRepository`, `Gateway` and
`Deployment` with their runs; `RedisClient`, `MysqlConn`, `Server`; the messages, JSON and
the command line; the proofs of section 4.  Nothing of the plan is left.
