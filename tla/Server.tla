--------------------------------- MODULE Server ---------------------------------
(***************************************************************************)
(* The gRPC server process (src/src/grpc_server/main.cpp): main() fills    *)
(* the pool, connects to Redis and serves; then RPC threads run the four   *)
(* RPCs, each a sequence of Redis commands through the one RedisClient     *)
(* and of statements on a connection of the pool.                          *)
(*                                                                         *)
(* UserRepository says what the RPCs do to the data.  This module says     *)
(* what they do to the resources: which commands they send in which order, *)
(* while which connection is held, with links that break and a process     *)
(* that dies and is started again.                                         *)
(***************************************************************************)
EXTENDS RedisClient, MysqlConn

CONSTANTS
  Ops,         \* Ops[t]: the RPCs that reach thread t
  NoConn,      \* no connection is held
  SqlFaults,   \* may MySQL refuse a statement?
  MaxKeys,     \* bound: how many keys SMEMBERS of the index returns
  MaxBreaks    \* bound: how often links break while the process runs

ASSUME ServerAssumption ==
  /\ Ops \in [Threads -> SUBSET {"create", "get", "list", "stats"}]
  /\ NoConn \notin Conns /\ SqlFaults \in BOOLEAN
  /\ MaxKeys \in Nat /\ MaxBreaks \in Nat

VARIABLES
  phase,    \* what main() does next
  pool,     \* idle_: the connections that can be lent, the next one last
  op,       \* op[t]: the RPC of thread t
  step,     \* step[t]: the next step of that RPC, or "out"
  left,     \* left[t]: keys of the list index that thread t has yet to delete
  lent,     \* lent[t]: the connection in the guard of thread t
  breaks    \* links that have broken

rpcVars == <<op, step, left, lent>>
vars == <<redisVars, sqlVars, phase, pool, rpcVars, breaks>>

Phases == {"args", "database", "pool", "table", "redis", "listen", "serving", "exited"}

\* The steps that are a Redis command, and its method.
MethodOf ==
  [count |-> "incr", lookUp |-> "get", store |-> "set", keys |-> "smembers",
   dropKey |-> "del", dropIndex |-> "del", dropTotal |-> "del", index |-> "sadd",
   readCount |-> "get"]
RedisSteps == DOMAIN MethodOf
SqlSteps == {"insert", "select", "selectPage"}

ServerInit ==
  /\ RedisInit
  /\ SqlInit
  /\ phase = "args"
  /\ pool = <<>>
  /\ op = [t \in Threads |-> "none"]
  /\ step = [t \in Threads |-> "out"]
  /\ left = [t \in Threads |-> 0]
  /\ lent = [t \in Threads |-> NoConn]
  /\ breaks = 0

-----------------------------------------------------------------------------
(* main()                                                                  *)

Pooled == {pool[k] : k \in 1..Len(pool)} \cup ({lent[t] : t \in Threads} \ {NoConn})

\* The command line is read; std::stoi throws on what is not a number.
ReadArgs ==
  /\ phase = "args"
  /\ phase' \in {"database", "exited"}
  /\ UNCHANGED <<redisVars, sqlVars, pool, rpcVars, breaks>>

\* MysqlPool::init() creates the database over a connection of its own, which
\* it closes again, or fails.
CreateDatabase ==
  /\ phase = "database"
  /\ phase' \in {"pool", "exited"}
  /\ UNCHANGED <<redisVars, sqlVars, pool, rpcVars, breaks>>

\* init() opens the next connection and pushes it; over the first it creates
\* the table before that.
OpenConnection ==
  /\ phase = "pool"
  /\ \E c \in Conns \ Pooled :
       /\ SqlConnect(c)
       /\ IF pool = <<>> THEN phase' = "table" /\ UNCHANGED pool
          ELSE pool' = Append(pool, c) /\ UNCHANGED phase
  /\ UNCHANGED <<redisVars, rpcVars, breaks>>

\* CREATE TABLE IF NOT EXISTS over the first connection, or init() fails.
CreateTable ==
  /\ phase = "table"
  /\ \E c \in Conns \ Pooled :
       /\ Execute(c)
       /\ ~SqlFaults => err'[c] # "refused"
       /\ IF result'[c] THEN phase' = "pool" /\ pool' = Append(pool, c)
          ELSE phase' = "exited" /\ UNCHANGED pool
  /\ UNCHANGED <<redisVars, rpcVars, breaks>>

\* A connection fails, and init() with it; the others are closed on the way
\* out of main().
OpenFails ==
  /\ phase = "pool"
  /\ \E c \in Conns \ Pooled : SqlConnectFails(c)
  /\ phase' = "exited"
  /\ UNCHANGED <<redisVars, pool, rpcVars, breaks>>

\* init() has opened all connections.
PoolReady ==
  /\ phase = "pool"
  /\ Conns \subseteq Pooled
  /\ phase' = "redis"
  /\ UNCHANGED <<redisVars, sqlVars, pool, rpcVars, breaks>>

\* Mutant of ConnectRedis: the result of connect() is not tested.
ConnectRedisUntested ==
  /\ phase = "redis"
  /\ Connect \/ Close
  /\ phase' = "listen"
  /\ UNCHANGED <<sqlVars, pool, rpcVars, breaks>>

\* RedisClient::connect(), which closes what it has when it fails.
ConnectRedis ==
  /\ phase = "redis"
  /\ \/ Connect /\ phase' = "listen"
     \/ Close /\ phase' = "exited"
  /\ UNCHANGED <<sqlVars, pool, rpcVars, breaks>>

\* BuildAndStart() opens the port, or cannot.
Listen ==
  /\ phase = "listen"
  /\ phase' \in {"serving", "exited"}
  /\ UNCHANGED <<redisVars, sqlVars, pool, rpcVars, breaks>>

\* main() has returned before it served: the destructors close everything.
Leave ==
  /\ phase = "exited"
  /\ Close
  /\ SqlClose(Conns)
  /\ phase' = "args"
  /\ pool' = <<>>
  /\ breaks' = 0
  /\ UNCHANGED rpcVars

\* The process dies at any point, in a data race of two threads for one, and
\* is started again.
Crash ==
  /\ phase = "serving"
  /\ Die
  /\ SqlClose(Conns)
  /\ phase' = "args"
  /\ pool' = <<>>
  /\ step' = [t \in Threads |-> "out"]
  /\ left' = [t \in Threads |-> 0]
  /\ lent' = [t \in Threads |-> NoConn]
  /\ op' = [t \in Threads |-> "none"]
  /\ breaks' = 0

-----------------------------------------------------------------------------
(* The RPCs                                                                *)

\* A request reaches an idle thread.  GetStats does not count itself.
Arrive(t) ==
  /\ phase = "serving"
  /\ step[t] = "out"
  /\ \E o \in Ops[t] :
       /\ op' = [op EXCEPT ![t] = o]
       /\ step' = [step EXCEPT ![t] = IF o = "stats" THEN "lookUp" ELSE "count"]
  /\ UNCHANGED <<redisVars, sqlVars, phase, pool, left, lent, breaks>>

\* The next step of the RPC of thread t, or its end.
Goto(t, s) ==
  /\ step' = [step EXCEPT ![t] = s]
  /\ op' = IF s = "out" THEN [op EXCEPT ![t] = "none"] ELSE op

\* Where an RPC goes on after a Redis command; `ok' is what the method says, n
\* how many keys of the list index are left to be deleted.
AfterCommand(o, s, ok, n) ==
  CASE s = "count" -> IF o = "create" THEN {"acquire", "out"}   \* name empty?
                      ELSE IF o = "get" THEN {"lookUp", "out"}  \* id empty?
                      ELSE {"lookUp"}
    [] s = "lookUp" -> IF ~ok THEN {"acquire"}
                       ELSE IF o = "stats" THEN {"readCount"}
                       ELSE {"out", "acquire"}                  \* JSON broken?
    [] s = "store" -> IF o = "create" THEN {"keys"}
                      ELSE IF o = "list" THEN {"index"}
                      ELSE {"release"}
    [] s \in {"keys", "dropKey"} -> IF n > 0 THEN {"dropKey"} ELSE {"dropIndex"}
    [] s = "dropIndex" -> {"dropTotal"}
    [] s \in {"dropTotal", "index"} -> {"release"}
    [] s = "readCount" -> {"out"}

\* The RPC calls a method of RedisClient ...
SendCommand(t) ==
  /\ step[t] \in RedisSteps
  /\ Calls \ InUse # {}
  /\ StartCall(t, MethodOf[step[t]], CHOOSE c \in Calls : c \notin InUse)
  /\ UNCHANGED <<sqlVars, phase, pool, rpcVars, breaks>>

\* ... which goes through redisvCommand() ...
RunCommand(t) == CommandStep(t) /\ UNCHANGED <<sqlVars, phase, pool, rpcVars, breaks>>

\* The keys that are left: SMEMBERS returns them, each DEL is for one of them.
KeysLeft(t, ok) ==
  IF step[t] = "keys" /\ ok THEN 0..MaxKeys
  ELSE IF step[t] = "dropKey" THEN {left[t] - 1}
  ELSE {left[t]}

\* ... and returns.
EndCommand(t) ==
  LET ok == Result(command[t].method, got[t]).ok
  IN  /\ EndCall(t)
      /\ \E n \in KeysLeft(t, ok) :
           /\ left' = [left EXCEPT ![t] = n]
           /\ \E s \in AfterCommand(op[t], step[t], ok, n) : Goto(t, s)
      /\ UNCHANGED <<sqlVars, phase, pool, lent, breaks>>

AfterAcquire(o) == IF o = "create" THEN "insert" ELSE "select"

\* Mutant of Acquire: the connection stays on the stack while it is lent.
AcquireWithoutPop(t) ==
  /\ step[t] = "acquire"
  /\ pool # <<>>
  /\ lent' = [lent EXCEPT ![t] = pool[Len(pool)]]
  /\ step' = [step EXCEPT ![t] = AfterAcquire(op[t])]
  /\ UNCHANGED <<redisVars, sqlVars, phase, pool, op, left, breaks>>

\* acquire() takes the connection that came back last.
Acquire(t) ==
  /\ step[t] = "acquire"
  /\ pool # <<>>
  /\ lent' = [lent EXCEPT ![t] = pool[Len(pool)]]
  /\ pool' = SubSeq(pool, 1, Len(pool) - 1)
  /\ step' = [step EXCEPT ![t] = AfterAcquire(op[t])]
  /\ UNCHANGED <<redisVars, sqlVars, phase, op, left, breaks>>

\* Where an RPC goes on after a statement: a SELECT of one user may find none.
AfterStatement(o, s, ok) ==
  IF ~ok THEN {"release"}
  ELSE IF o = "get" THEN {"store", "release"}
  ELSE IF o = "list" /\ s = "select" THEN {"selectPage"}
  ELSE {"store"}

\* A statement of thread t on its connection.  query() has a second half.
Statement(t) ==
  LET c == lent[t]
  IN  /\ step[t] \in SqlSteps
      /\ IF step[t] = "insert" THEN Execute(c) ELSE Query(c) \/ StoreResult(c)
      /\ ~SqlFaults => err'[c] # "refused"
      /\ IF sqlAt'[c] = "storing" THEN UNCHANGED step
         ELSE \E s \in AfterStatement(op[t], step[t], result'[c]) :
                step' = [step EXCEPT ![t] = s]
      /\ UNCHANGED <<redisVars, phase, pool, op, left, lent, breaks>>

\* Mutant of Release: a connection whose statement failed is not returned.
ReleaseIfGood(t) ==
  /\ step[t] = "release"
  /\ pool' = IF result[lent[t]] THEN Append(pool, lent[t]) ELSE pool
  /\ lent' = [lent EXCEPT ![t] = NoConn]
  /\ Goto(t, IF op[t] = "stats" /\ result[lent[t]] THEN "readCount" ELSE "out")
  /\ UNCHANGED <<redisVars, sqlVars, phase, left, breaks>>

\* The guard dies: the connection goes back on top of the stack, in whatever
\* state.  GetStats then reads the count, unless its statement failed.
Release(t) ==
  /\ step[t] = "release"
  /\ pool' = Append(pool, lent[t])
  /\ lent' = [lent EXCEPT ![t] = NoConn]
  /\ Goto(t, IF op[t] = "stats" /\ result[lent[t]] THEN "readCount" ELSE "out")
  /\ UNCHANGED <<redisVars, sqlVars, phase, left, breaks>>

-----------------------------------------------------------------------------
(* Redis, MySQL and the network                                            *)

AnswerCommand == RedisRuns /\ UNCHANGED <<sqlVars, phase, pool, rpcVars, breaks>>

LoseLink ==
  /\ breaks < MaxBreaks
  /\ breaks' = breaks + 1
  /\ \/ LinkBreaks /\ UNCHANGED sqlVars
     \/ \E c \in Conns : SqlLinkBreaks(c) /\ UNCHANGED redisVars
  /\ UNCHANGED <<phase, pool, rpcVars>>

Handle(t) ==
  \/ SendCommand(t) \/ EndCommand(t) \/ Statement(t) \/ Release(t)

Main ==
  \/ ReadArgs \/ CreateDatabase \/ OpenConnection \/ CreateTable \/ OpenFails \/ PoolReady
  \/ ConnectRedis \/ Listen \/ Leave

\* Bound: when two threads have met in the context, only the commands under
\* way are followed, whatever becomes of them, until the process dies.
ServerNext ==
  \/ /\ ~raced
     /\ \/ Main \/ LoseLink
        \/ \E t \in Threads : Arrive(t) \/ Handle(t) \/ Acquire(t)
  \/ \E t \in Threads : RunCommand(t)
  \/ AnswerCommand
  \/ Crash

ServerSpec == ServerInit /\ [][ServerNext]_vars

(***************************************************************************)
(* Threads that can run do; some waiting thread gets a free connection,    *)
(* as ConnLender promises; Redis answers what it has received, or its link *)
(* breaks.  Nothing makes a request arrive, a link break or a crash come.  *)
(***************************************************************************)
ServerFairSpec ==
  /\ ServerSpec
  /\ \A t \in Threads : WF_vars(~raced /\ Handle(t)) /\ WF_vars(RunCommand(t))
  /\ WF_vars(~raced /\ \E t \in Threads : Acquire(t))
  /\ WF_vars(AnswerCommand)

-----------------------------------------------------------------------------
(* Properties                                                              *)

\* What is served has its resources: no command goes to a null context and no
\* statement to a null handle, and every connection that main() opened is
\* idle or lent, however often its statements failed.
Equipped ==
  phase = "serving" =>
    /\ ctx # "null"
    /\ \A c \in Conns : handle[c]
    /\ Pooled = Conns

\* What main() opens and the RPCs borrow and return are the steps of ConnLender,
\* which MysqlPool implements: main() closes connections only while no RPC runs,
\* no RPC waits for one while it holds one, each gets one that no other holds,
\* and all give back the one they got.  Only a crash breaks the rules.
Lender == INSTANCE ConnLender
            WITH owned <- Pooled, want <- {t \in Threads : step[t] = "acquire"}
LendsByTheRules == [][Lender!Next \/ Crash]_(Lender!vars)

\* The threads do not block one another for ever, though they hold connections
\* while they wait for Redis, which they ask without a timeout: when all are
\* busy, one of them ends its RPC, unless they met in the context.
SomeRpcEnds ==
  (phase = "serving" /\ \A t \in Threads : step[t] # "out")
    ~> (raced \/ \E t \in Threads : step[t] = "out")

=============================================================================
