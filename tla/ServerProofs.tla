------------------------------ MODULE ServerProofs ------------------------------
(***************************************************************************)
(* Proofs about Server, for every number of threads and connections and    *)
(* whatever the bounds.  Every step of the process is a step of the Redis  *)
(* client and a step of the connections, or leaves them alone: what was    *)
(* proved of them holds in the process.  That a statement goes to a        *)
(* connection at all needs ServerInv: a thread holds a connection exactly  *)
(* in those steps of an RPC that lie between acquire() and the guard's end.*)
(***************************************************************************)
EXTENDS Server, RedisClientProofs, MysqlConnProofs

\* The steps of an RPC with a connection, and those without.
Holding == SqlSteps \cup
  {"store", "keys", "dropKey", "dropIndex", "dropTotal", "index", "release"}
Free == {"out", "count", "lookUp", "readCount", "acquire"}

Resources ==
  /\ phase \in {"args", "database"} => pool = <<>>
  /\ phase \in {"pool", "table", "redis", "listen", "serving"} => \A c \in Pooled : handle[c]
  /\ phase \in {"redis", "listen", "serving"} => Pooled = Conns
  /\ phase \in {"listen", "serving"} => ctx # "null"

ServerInv ==
  /\ phase \in Phases
  /\ pool \in Seq(Conns)
  /\ lent \in [Threads -> Conns \cup {NoConn}]
  /\ step \in [Threads -> Holding \cup Free]
  /\ \A t \in Threads : lent[t] # NoConn <=> step[t] \in Holding
  /\ \A t \in Threads : at[t] # "out" => step[t] \in RedisSteps
  /\ phase # "serving" => \A t \in Threads : step[t] = "out"
  /\ Resources

FullInv == RedisInv /\ SqlInv /\ ServerInv

-----------------------------------------------------------------------------
(* The steps of the process are steps of its parts                         *)

LEMMA StepNames ==
  /\ RedisSteps = {"count", "lookUp", "store", "keys", "dropKey", "dropIndex",
                   "dropTotal", "index", "readCount"}
  /\ \A s \in RedisSteps : MethodOf[s] \in Methods
  BY DEF RedisSteps, MethodOf, Methods

LEMMA NextIsRedisStep ==
  ASSUME FullInv, [ServerNext]_vars
  PROVE  [RedisNext]_redisVars
  <1>1. CASE Main
    BY <1>1 DEF Main, ReadArgs, CreateDatabase, OpenConnection, CreateTable, OpenFails,
                PoolReady, ConnectRedis, Listen, Leave, RedisNext
  <1>2. CASE LoseLink \/ AnswerCommand \/ Crash
    BY <1>2 DEF LoseLink, AnswerCommand, Crash, RedisNext
  <1>3. ASSUME NEW t \in Threads, Arrive(t) \/ Statement(t) \/ Release(t) \/ Acquire(t)
        PROVE  UNCHANGED redisVars
    BY <1>3 DEF Arrive, Statement, Release, Acquire
  <1>4. ASSUME NEW t \in Threads, RunCommand(t) \/ EndCommand(t)
        PROVE  RedisNext
    BY <1>4 DEF RunCommand, EndCommand, RedisNext
  <1>5. ASSUME NEW t \in Threads, SendCommand(t)
        PROVE  RedisNext
    <2>1. PICK c : StartCall(t, MethodOf[step[t]], c) /\ step[t] \in RedisSteps
      BY <1>5 DEF SendCommand
    <2>2. c \in Calls /\ MethodOf[step[t]] \in Methods
      BY <2>1, StepNames DEF StartCall
    <2> QED
      BY <2>1, <2>2 DEF RedisNext
  <1>6. CASE UNCHANGED vars
    BY <1>6 DEF vars
  <1> QED
    BY <1>1, <1>2, <1>3, <1>4, <1>5, <1>6 DEF ServerNext, Handle

LEMMA NextIsSqlStep ==
  ASSUME FullInv, [ServerNext]_vars
  PROVE  [SqlNext]_sqlVars
  <1>1. CASE Main
    BY <1>1 DEF Main, ReadArgs, CreateDatabase, OpenConnection, CreateTable, OpenFails,
                PoolReady, ConnectRedis, Listen, Leave, SqlNext
  <1>2. CASE LoseLink \/ AnswerCommand \/ Crash
    BY <1>2 DEF LoseLink, AnswerCommand, Crash, SqlNext
  <1>3. ASSUME NEW t \in Threads,
               Arrive(t) \/ Release(t) \/ Acquire(t) \/ RunCommand(t) \/ EndCommand(t)
               \/ SendCommand(t)
        PROVE  UNCHANGED sqlVars
    BY <1>3 DEF Arrive, Release, Acquire, RunCommand, EndCommand, SendCommand
  <1>4. ASSUME NEW t \in Threads, Statement(t)
        PROVE  SqlNext
    <2>1. lent[t] \in Conns
      BY <1>4 DEF Statement, FullInv, ServerInv, Holding
    <2>2. Execute(lent[t]) \/ Query(lent[t]) \/ StoreResult(lent[t])
      BY <1>4 DEF Statement
    <2> QED
      BY <2>1, <2>2 DEF SqlNext
  <1>5. CASE UNCHANGED vars
    BY <1>5 DEF vars
  <1> QED
    BY <1>1, <1>2, <1>3, <1>4, <1>5 DEF ServerNext, Handle

-----------------------------------------------------------------------------
(* ServerInv                                                               *)

\* A connection that is pushed joins those of the pool.
LEMMA PushedOne ==
  ASSUME pool \in Seq(Conns), NEW c \in Conns, lent' = lent, pool' = Append(pool, c)
  PROVE  pool' \in Seq(Conns) /\ Pooled' = Pooled \cup {c}
  <1> DEFINE n == Len(pool)
  <1>1. /\ pool' \in Seq(Conns) /\ n \in Nat /\ Len(pool') = n + 1
        /\ \A k \in 1..n + 1 : pool'[k] = IF k <= n THEN pool[k] ELSE c
    BY AppendProperties, LenProperties
  <1>2. {pool'[k] : k \in 1..Len(pool')} = {pool[k] : k \in 1..n} \cup {c}
    BY <1>1
  <1>3. c # NoConn
    BY ServerAssumption
  <1> QED
    BY <1>1, <1>2, <1>3 DEF Pooled

\* What main() does while no RPC runs.
LEMMA MainKeepsServerInv ==
  ASSUME FullInv, Main
  PROVE  ServerInv'
  <1> USE ServerAssumption DEF FullInv, ServerInv, Phases
  <1>1. CASE ReadArgs \/ CreateDatabase
    <2>1. /\ UNCHANGED <<pool, lent, step, at, handle>>
          /\ phase \in {"args", "database"} /\ phase' \in {"database", "pool", "exited"}
      BY <1>1 DEF ReadArgs, CreateDatabase, redisVars, sqlVars, rpcVars, local
    <2>2. pool = <<>> /\ \A t \in Threads : lent[t] = NoConn
      BY <2>1 DEF Resources, Holding, SqlSteps
    <2>3. Pooled = {} /\ Pooled' = Pooled
      BY <2>1, <2>2, EmptySeq DEF Pooled
    <2> QED
      BY <2>1, <2>2, <2>3 DEF Resources
  <1>2. CASE OpenConnection
    <2>1. PICK c \in Conns \ Pooled :
            /\ SqlConnect(c)
            /\ \/ phase' = "table" /\ pool' = pool
               \/ phase' = "pool" /\ pool' = Append(pool, c)
      BY <1>2 DEF OpenConnection
    <2>2. UNCHANGED <<lent, step, at>> /\ phase = "pool"
      BY <1>2 DEF OpenConnection, redisVars, rpcVars, local
    <2>3. pool' \in Seq(Conns) /\ Pooled' \subseteq Pooled \cup {c}
      BY <2>1, <2>2, PushedOne DEF Pooled
    <2>4. \A d \in Pooled' : handle'[d]
      <3>1. handle'[c] /\ \A d \in Conns \ {c} : handle'[d] = handle[d]
        BY <2>1 DEF SqlConnect, SqlInv, SqlTypeOK
      <3>2. Pooled \subseteq Conns
        BY ElementOfSeq DEF Pooled
      <3> QED
        BY <2>1, <2>2, <2>3, <3>1, <3>2 DEF Resources
    <2> QED
      BY <2>1, <2>2, <2>3, <2>4 DEF Resources
  <1>3. CASE CreateTable
    <2>1. PICK c \in Conns \ Pooled :
            /\ Execute(c)
            /\ \/ phase' = "exited" /\ pool' = pool
               \/ phase' = "pool" /\ pool' = Append(pool, c)
      BY <1>3 DEF CreateTable
    <2>2. UNCHANGED <<lent, step, at>> /\ phase = "table"
      BY <1>3 DEF CreateTable, redisVars, rpcVars, local
    <2>3. pool' \in Seq(Conns) /\ Pooled' \subseteq Pooled \cup {c}
      BY <2>1, <2>2, PushedOne DEF Pooled
    <2>4. handle[c] /\ handle' = handle
      BY <2>1 DEF Execute, QueryFails
    <2>5. \A d \in Pooled' : handle'[d]
      BY <2>2, <2>3, <2>4 DEF Resources
    <2> QED
      BY <2>1, <2>2, <2>3, <2>5 DEF Resources
  <1>4. CASE OpenFails
    BY <1>4 DEF OpenFails, Resources, redisVars, rpcVars, local
  <1>5. CASE PoolReady
    <2>1. UNCHANGED <<pool, lent, step, at, handle, ctx>> /\ phase = "pool" /\ phase' = "redis"
          /\ Conns \subseteq Pooled
      BY <1>5 DEF PoolReady, redisVars, sqlVars, rpcVars, local
    <2>2. Pooled \subseteq Conns
      BY ElementOfSeq DEF Pooled
    <2> QED
      BY <2>1, <2>2 DEF Resources, Pooled
  <1>6. CASE ConnectRedis
    <2>1. UNCHANGED <<pool, lent, step, at, handle>> /\ phase = "redis"
          /\ ((phase' = "listen" /\ ctx' = "ok") \/ phase' = "exited")
      BY <1>6 DEF ConnectRedis, Connect, Close, sqlVars, rpcVars
    <2> QED
      BY <2>1 DEF Resources, Pooled
  <1>7. CASE Listen
    BY <1>7 DEF Listen, Resources, Pooled, redisVars, sqlVars, rpcVars, local
  <1>8. CASE Leave
    <2>1. UNCHANGED <<lent, step, at>> /\ phase = "exited" /\ phase' = "args" /\ pool' = <<>>
      BY <1>8 DEF Leave, Close, rpcVars
    <2> QED
      BY <2>1, EmptySeq DEF Resources
  <1> QED
    BY <1>1, <1>2, <1>3, <1>4, <1>5, <1>6, <1>7, <1>8 DEF Main

\* The stack without its top.
LEMMA Popped ==
  ASSUME NEW s \in Seq(Conns), Len(s) > 0
  PROVE  /\ SubSeq(s, 1, Len(s) - 1) \in Seq(Conns)
         /\ Len(SubSeq(s, 1, Len(s) - 1)) = Len(s) - 1
         /\ \A k \in 1..Len(s) - 1 : SubSeq(s, 1, Len(s) - 1)[k] = s[k]
  <1> DEFINE n == Len(s) - 1
  <1>1. n \in Nat /\ n - 1 + 1 = n /\ \A k \in 1..n : s[k] \in Conns /\ 1 + k - 1 = k
    BY LenProperties, ElementOfSeq
  <1> HIDE DEF n
  <1>2. /\ SubSeq(s, 1, n) \in Seq(Conns)
        /\ Len(SubSeq(s, 1, n)) = IF 1 <= n THEN n - 1 + 1 ELSE 0
        /\ \A k \in 1..n - 1 + 1 : SubSeq(s, 1, n)[k] = s[1 + k - 1]
    BY <1>1, SubSeqProperties
  <1>3. Len(SubSeq(s, 1, n)) = n /\ \A k \in 1..n : SubSeq(s, 1, n)[k] = s[k]
    BY <1>1, <1>2
  <1> QED
    BY <1>2, <1>3 DEF n

\* A connection that is lent or returned stays one of the pool's.
LEMMA AcquireKeepsPooled ==
  ASSUME FullInv, NEW t \in Threads, Acquire(t) \/ Release(t)
  PROVE  pool' \in Seq(Conns) /\ Pooled' = Pooled
         /\ lent' \in [Threads -> Conns \cup {NoConn}]
         /\ (lent'[t] # NoConn <=> Acquire(t))
  <1> USE ServerAssumption DEF FullInv, ServerInv
  <1>1. CASE Acquire(t)
    <2>1. /\ step[t] = "acquire" /\ pool # <<>>
          /\ lent' = [lent EXCEPT ![t] = pool[Len(pool)]]
          /\ pool' = SubSeq(pool, 1, Len(pool) - 1)
      BY <1>1 DEF Acquire
    <2>2. Len(pool) \in Nat /\ Len(pool) > 0 /\ \A k \in 1..Len(pool) : pool[k] \in Conns
      BY <2>1, LenProperties, EmptySeq, ElementOfSeq
    <2>3. pool' \in Seq(Conns) /\ Len(pool') = Len(pool) - 1
          /\ \A k \in 1..Len(pool') : pool'[k] = pool[k]
      BY <2>1, <2>2, Popped
    <2>4. lent[t] = NoConn
      BY <2>1 DEF Holding, SqlSteps
    <2>5. lent'[t] = pool[Len(pool)] /\ pool[Len(pool)] \in Conns
          /\ \A u \in Threads \ {t} : lent'[u] = lent[u]
      BY <2>1, <2>2
    <2>6. {lent'[u] : u \in Threads} \ {NoConn}
          = ({lent[u] : u \in Threads} \ {NoConn}) \cup {pool[Len(pool)]}
      BY <2>4, <2>5
    <2>7. {pool[k] : k \in 1..Len(pool)} = {pool'[k] : k \in 1..Len(pool')} \cup {pool[Len(pool)]}
      BY <2>2, <2>3
    <2> QED
      BY <1>1, <2>1, <2>3, <2>5, <2>6, <2>7 DEF Pooled
  <1>2. CASE Release(t)
    <2>1. /\ step[t] = "release"
          /\ lent' = [lent EXCEPT ![t] = NoConn]
          /\ pool' = Append(pool, lent[t])
      BY <1>2 DEF Release
    <2>2. lent[t] \in Conns
      BY <2>1 DEF Holding
    <2>3. pool' \in Seq(Conns) /\ Len(pool') = Len(pool) + 1 /\ Len(pool) \in Nat
          /\ \A k \in 1..Len(pool') : pool'[k] = IF k <= Len(pool) THEN pool[k] ELSE lent[t]
      BY <2>1, <2>2, AppendProperties, LenProperties
    <2>4. lent'[t] = NoConn /\ \A u \in Threads \ {t} : lent'[u] = lent[u]
      BY <2>1
    <2>5. {pool'[k] : k \in 1..Len(pool')} = {pool[k] : k \in 1..Len(pool)} \cup {lent[t]}
      BY <2>3
    <2>6. ({lent'[u] : u \in Threads} \ {NoConn}) \cup {lent[t]}
          = {lent[u] : u \in Threads} \ {NoConn}
      BY <2>2, <2>4
    <2> QED
      BY <1>2, <2>1, <2>3, <2>4, <2>5, <2>6 DEF Pooled, Acquire
  <1> QED
    BY <1>1, <1>2

\* A Redis command leaves the connection of its RPC where it is, held or not.
LEMMA CommandKeepsHolding ==
  ASSUME NEW o, NEW s \in RedisSteps, NEW ok, NEW k, NEW n \in AfterCommand(o, s, ok, k)
  PROVE  n \in Holding \cup Free /\ (n \in Holding <=> s \in Holding)
  <1> USE DEF Holding, Free, SqlSteps, AfterCommand
  <1>1. CASE s \in {"count", "lookUp", "readCount"}
    <2>1. n \in {"out", "lookUp", "acquire", "readCount"}
      BY <1>1
    <2> QED
      BY <1>1, <2>1
  <1>2. CASE s \in {"store", "keys", "dropKey", "dropIndex"}
    <2>1. n \in {"keys", "index", "release", "dropKey", "dropIndex", "dropTotal"}
      BY <1>2
    <2> QED
      BY <1>2, <2>1
  <1>3. CASE s \in {"dropTotal", "index"}
    <2>1. n = "release"
      BY <1>3
    <2> QED
      BY <1>3, <2>1
  <1> QED
    BY <1>1, <1>2, <1>3, StepNames

\* What a thread does with its commands and its requests.
LEMMA CommandsKeepServerInv ==
  ASSUME FullInv, NEW t \in Threads,
         Arrive(t) \/ SendCommand(t) \/ RunCommand(t) \/ EndCommand(t)
  PROVE  ServerInv'
  <1> USE DEF FullInv, ServerInv
  <1>1. CASE Arrive(t)
    <2>1. PICK s \in {"count", "lookUp"} : step' = [step EXCEPT ![t] = s]
      BY <1>1 DEF Arrive
    <2>2. UNCHANGED <<phase, pool, lent, at, handle, ctx>> /\ phase = "serving" /\ step[t] = "out"
      BY <1>1 DEF Arrive, redisVars, sqlVars, local
    <2>3. step'[t] = s /\ \A u \in Threads \ {t} : step'[u] = step[u]
      BY <2>1
    <2>4. step[t] \notin RedisSteps /\ {step[t], s} \subseteq Free /\ s \notin Holding
          /\ step[t] \notin Holding
      BY <2>2, StepNames DEF Holding, Free, SqlSteps
    <2> QED
      BY <2>1, <2>2, <2>3, <2>4 DEF Resources, Pooled
  <1>2. CASE SendCommand(t)
    <2>1. /\ UNCHANGED <<phase, pool, lent, step, handle, ctx>> /\ step[t] \in RedisSteps
          /\ at' = [at EXCEPT ![t] = "append"]
      BY <1>2 DEF SendCommand, StartCall, sqlVars, rpcVars
    <2>2. \A u \in Threads \ {t} : at'[u] = at[u]
      BY <2>1 DEF RedisInv, RedisTypeOK
    <2> QED
      BY <2>1, <2>2 DEF Resources, Pooled
  <1>3. CASE RunCommand(t)
    <2>1. UNCHANGED <<phase, pool, lent, step, handle>> /\ CommandStep(t)
      BY <1>3 DEF RunCommand, sqlVars, rpcVars
    <2>2. at[t] # "out" /\ \A u \in Threads \ {t} : at'[u] = at[u]
      BY <2>1, StepKeepsOwnCommands DEF RedisInv
    <2>3. ctx' = ctx \/ ctx' = "err"
      BY <2>1 DEF CommandStep, AppendCommand, Peek, Take, TakeReply, GiveUp, Write,
                  SocketError, Trim, ReadSocket
    <2> QED
      BY <2>1, <2>2, <2>3 DEF Resources, Pooled
  <1>4. CASE EndCommand(t)
    <2>1. /\ UNCHANGED <<phase, pool, lent, handle, ctx>> /\ at[t] = "done"
          /\ at' = [at EXCEPT ![t] = "out"]
      BY <1>4 DEF EndCommand, EndCall, sqlVars, buffers
    <2>2. at'[t] = "out" /\ (\A u \in Threads \ {t} : at'[u] = at[u])
          /\ step[t] \in RedisSteps
      BY <2>1 DEF RedisInv, RedisTypeOK
    <2>3. PICK ok, n, s :
            s \in AfterCommand(op[t], step[t], ok, n) /\ step' = [step EXCEPT ![t] = s]
      BY <1>4 DEF EndCommand, Goto
    <2>4. s \in Holding \cup Free /\ (s \in Holding <=> step[t] \in Holding)
      BY <2>2, <2>3, CommandKeepsHolding
    <2>5. phase = "serving"
      BY <2>2, StepNames
    <2>6. step'[t] = s /\ (\A u \in Threads \ {t} : step'[u] = step[u])
          /\ step' \in [Threads -> Holding \cup Free]
      BY <2>3, <2>4
    <2> QED
      BY <2>1, <2>2, <2>4, <2>5, <2>6 DEF Resources, Pooled
  <1> QED
    BY <1>1, <1>2, <1>3, <1>4

\* What a thread does with its connection.
LEMMA ConnectionsKeepServerInv ==
  ASSUME FullInv, NEW t \in Threads, Acquire(t) \/ Release(t) \/ Statement(t)
  PROVE  ServerInv'
  <1> USE DEF FullInv, ServerInv
  <1>1. CASE Acquire(t) \/ Release(t)
    <2>1. pool' \in Seq(Conns) /\ Pooled' = Pooled
          /\ lent' \in [Threads -> Conns \cup {NoConn}]
          /\ (lent'[t] # NoConn <=> Acquire(t))
      BY <1>1, AcquireKeepsPooled
    <2>2. \A u \in Threads \ {t} : lent'[u] = lent[u]
      BY <1>1 DEF Acquire, Release
    <2>3. UNCHANGED <<phase, at, handle, ctx>>
      BY <1>1 DEF Acquire, Release, redisVars, sqlVars, local
    <2>4. PICK s \in Holding \cup Free :
            /\ step' = [step EXCEPT ![t] = s]
            /\ s \in Holding <=> Acquire(t)
            /\ step[t] \in {"acquire", "release"}
      BY <1>1 DEF Acquire, Release, AfterAcquire, Goto, Holding, Free, SqlSteps
    <2>5. step'[t] = s /\ \A u \in Threads \ {t} : step'[u] = step[u]
      BY <2>4
    <2>6. at[t] = "out" /\ phase = "serving"
      BY <2>4, StepNames
    <2>7. step' \in [Threads -> Holding \cup Free]
      BY <2>4
    <2> QED
      BY <2>1, <2>2, <2>3, <2>4, <2>5, <2>6, <2>7 DEF Resources
  <1>2. CASE Statement(t)
    <2>1. UNCHANGED <<phase, pool, lent, at, handle, ctx>> /\ step[t] \in SqlSteps
      BY <1>2 DEF Statement, redisVars, local, Execute, Query, StoreResult, QueryFails
    <2>2. PICK s \in Holding : step' = [step EXCEPT ![t] = s]
      BY <1>2 DEF Statement, AfterStatement, Holding, SqlSteps
    <2>3. step'[t] = s /\ \A u \in Threads \ {t} : step'[u] = step[u]
      BY <2>2
    <2>4. at[t] = "out" /\ phase = "serving" /\ step[t] \in Holding
      BY <2>1, StepNames DEF SqlSteps, Holding
    <2>5. step' \in [Threads -> Holding \cup Free]
      BY <2>2
    <2> QED
      BY <2>1, <2>2, <2>3, <2>4, <2>5 DEF Resources, Pooled
  <1> QED
    BY <1>1, <1>2

\* What happens to the process from outside.
LEMMA OthersKeepServerInv ==
  ASSUME FullInv, LoseLink \/ AnswerCommand \/ Crash \/ UNCHANGED vars
  PROVE  ServerInv'
  <1> USE ServerAssumption DEF FullInv, ServerInv
  <1>1. CASE LoseLink \/ AnswerCommand \/ UNCHANGED vars
    <2>1. UNCHANGED <<phase, pool, lent, step, at, handle, ctx>>
      BY <1>1 DEF LoseLink, AnswerCommand, vars, redisVars, sqlVars, rpcVars, local, LinkBreaks,
                  RedisRuns, SqlLinkBreaks
    <2> QED
      BY <2>1 DEF Resources, Pooled
  <1>2. CASE Crash
    <2>1. /\ phase' = "args" /\ pool' = <<>>
          /\ step' = [t \in Threads |-> "out"] /\ lent' = [t \in Threads |-> NoConn]
          /\ at' = [t \in Threads |-> "out"]
      BY <1>2 DEF Crash, Die
    <2>2. "out" \in Free /\ "out" \notin Holding
      BY DEF Free, Holding, SqlSteps
    <2> QED
      BY <2>1, <2>2, EmptySeq DEF Resources, Phases
  <1> QED
    BY <1>1, <1>2

-----------------------------------------------------------------------------
(* The theorems                                                            *)

LEMMA InitFullInv == ServerInit => FullInv
  <1> SUFFICES ASSUME ServerInit PROVE FullInv
    OBVIOUS
  <1>1. RedisInv /\ SqlInv
    BY InitRedisInv, InitSqlInv DEF ServerInit
  <1>2. "out" \in Free /\ "out" \notin Holding
    BY DEF Free, Holding, SqlSteps
  <1>3. ServerInv
    BY <1>2, EmptySeq DEF ServerInit, RedisInit, ServerInv, Resources, Phases
  <1> QED
    BY <1>1, <1>3 DEF FullInv

LEMMA NextKeepsFullInv == FullInv /\ [ServerNext]_vars => FullInv'
  <1> SUFFICES ASSUME FullInv, [ServerNext]_vars PROVE FullInv'
    OBVIOUS
  <1>1. RedisInv'
    BY NextIsRedisStep, NextKeepsRedisInv DEF FullInv
  <1>2. SqlInv'
    BY NextIsSqlStep, NextKeepsSqlInv DEF FullInv
  <1>3. ServerInv'
    BY MainKeepsServerInv, CommandsKeepServerInv, ConnectionsKeepServerInv, OthersKeepServerInv
       DEF ServerNext, Handle
  <1> QED
    BY <1>1, <1>2, <1>3 DEF FullInv

\* The strengthened invariant holds of the process.
THEOREM ServerAlwaysInv == ServerSpec => []FullInv
  BY InitFullInv, NextKeepsFullInv, PTL DEF ServerSpec

\* The process uses the Redis client and the connections only as their own
\* specifications allow.
THEOREM ServerImplementsParts == ServerSpec => RedisSpec /\ SqlSpec
  <1>1. ServerInit => RedisInit /\ SqlInit
    BY DEF ServerInit
  <1>2. FullInv /\ [ServerNext]_vars => [RedisNext]_redisVars /\ [SqlNext]_sqlVars
    BY NextIsRedisStep, NextIsSqlStep
  <1> QED
    BY <1>1, <1>2, ServerAlwaysInv, PTL DEF ServerSpec, RedisSpec, SqlSpec

\* In the running process, as long as no two RPC threads have met in the
\* redisContext, each gets its own reply and no command runs twice; no RPC
\* reads a field that its reply does not have; and no statement finds the rows
\* of another RPC on its connection.
THEOREM ServerIsSafe == ServerSpec => [](OwnReply /\ RunsOnce /\ RightField /\ NeverOutOfSync)
  BY ServerImplementsParts, RepliesAreOwn, CommandsRunOnce, FieldsAreThere,
     ConnectionsStayInSync, PTL

\* While the process serves, the context and every handle is there, and every
\* connection that was opened is idle or lent.
THEOREM ServerIsEquipped == ServerSpec => []Equipped
  <1>1. FullInv => Equipped
    <2> SUFFICES ASSUME FullInv, phase = "serving"
                 PROVE  ctx # "null" /\ (\A c \in Conns : handle[c]) /\ Pooled = Conns
      BY DEF Equipped
    <2> QED
      BY DEF FullInv, ServerInv, Resources
  <1> QED
    BY <1>1, ServerAlwaysInv, PTL

-----------------------------------------------------------------------------
(* The pool of the process lends by the rules                              *)

\* No connection is in two places.
LentOnce ==
  /\ \A j \in 1..Len(pool) : \A k \in 1..Len(pool) : pool[j] = pool[k] => j = k
  /\ \A k \in 1..Len(pool) : \A t \in Threads : pool[k] # lent[t]
  /\ \A t \in Threads : \A u \in Threads : lent[t] = lent[u] /\ lent[t] # NoConn => t = u

LEMMA InitLentOnce == ServerInit => LentOnce
  BY EmptySeq DEF ServerInit, LentOnce

LEMMA EmptyIsLentOnce ==
  ASSUME pool' = <<>>, \A t \in Threads : lent'[t] = NoConn
  PROVE  LentOnce'
  BY EmptySeq DEF LentOnce

\* An acquire() and the end of a guard move one connection.
LEMMA AcquireKeepsLentOnce ==
  ASSUME FullInv, LentOnce, NEW t \in Threads, Acquire(t)
  PROVE  LentOnce' /\ Lender!Borrow(t)
  <1> USE ServerAssumption DEF FullInv, ServerInv
  <1> DEFINE n == Len(pool)
             c == pool[n]
  <1>1. /\ step[t] = "acquire" /\ pool # <<>>
        /\ lent' = [lent EXCEPT ![t] = c]
        /\ pool' = SubSeq(pool, 1, n - 1)
        /\ step' = [step EXCEPT ![t] = AfterAcquire(op[t])]
    BY DEF Acquire
  <1>2. n \in Nat /\ n > 0 /\ c \in Conns /\ \A k \in 1..n : pool[k] \in Conns
    BY <1>1, LenProperties, EmptySeq, ElementOfSeq
  <1>3. Len(pool') = n - 1 /\ \A k \in 1..n - 1 : pool'[k] = pool[k]
    BY <1>1, <1>2, Popped
  <1>4. lent'[t] = c /\ \A u \in Threads \ {t} : lent'[u] = lent[u]
    BY <1>1
  <1>5. lent[t] = NoConn /\ \A u \in Threads : lent[u] # c
    BY <1>1, <1>2 DEF Holding, SqlSteps, LentOnce
  <1>6. LentOnce'
    <2>1. \A k \in 1..Len(pool') : k \in 1..n /\ k # n /\ pool'[k] = pool[k]
      BY <1>2, <1>3
    <2>2. \A j \in 1..Len(pool') : \A k \in 1..Len(pool') : pool'[j] = pool'[k] => j = k
      BY <2>1 DEF LentOnce
    <2>3. \A k \in 1..Len(pool') : pool'[k] # c
      BY <1>2, <2>1 DEF LentOnce
    <2>4. \A k \in 1..Len(pool') : \A u \in Threads : pool'[k] # lent'[u]
      BY <1>4, <2>1, <2>3 DEF LentOnce
    <2>5. \A u \in Threads : \A w \in Threads : lent'[u] = lent'[w] /\ lent'[u] # NoConn => u = w
      BY <1>4, <1>5 DEF LentOnce
    <2> QED
      BY <2>2, <2>4, <2>5 DEF LentOnce
  <1>7. Pooled' = Pooled
    BY AcquireKeepsPooled
  <1>8. c \in Pooled \ {lent[u] : u \in Threads}
    BY <1>2, <1>5 DEF Pooled
  <1>9. {u \in Threads : step'[u] = "acquire"} = {u \in Threads : step[u] = "acquire"} \ {t}
    BY <1>1 DEF AfterAcquire
  <1> HIDE DEF c, n
  <1>10. Lender!Borrow(t)
    BY <1>1, <1>7, <1>8, <1>9 DEF Lender!Borrow, Lender!Free
  <1> QED
    BY <1>6, <1>10

LEMMA ReleaseKeepsLentOnce ==
  ASSUME FullInv, LentOnce, NEW t \in Threads, Release(t)
  PROVE  LentOnce' /\ Lender!Return(t)
  <1> USE ServerAssumption DEF FullInv, ServerInv
  <1> DEFINE n == Len(pool)
             c == lent[t]
  <1>1. /\ step[t] = "release"
        /\ lent' = [lent EXCEPT ![t] = NoConn]
        /\ pool' = Append(pool, c)
    BY DEF Release
  <1>2. c \in Conns /\ c # NoConn /\ n \in Nat /\ \A k \in 1..n : pool[k] \in Conns
    BY <1>1, LenProperties, ElementOfSeq DEF Holding
  <1>3. Len(pool') = n + 1 /\ \A k \in 1..n + 1 : pool'[k] = IF k <= n THEN pool[k] ELSE c
    BY <1>1, <1>2, AppendProperties
  <1>4. lent'[t] = NoConn /\ \A u \in Threads \ {t} : lent'[u] = lent[u]
    BY <1>1
  <1>5. LentOnce'
    <2>1. \A k \in 1..Len(pool') : (k \in 1..n /\ pool'[k] = pool[k]) \/ (k = n + 1 /\ pool'[k] = c)
      <3> HIDE DEF n, c
      <3> QED
        BY <1>2, <1>3
    <2>2. \A j \in 1..Len(pool') : \A k \in 1..Len(pool') : pool'[j] = pool'[k] => j = k
      BY <2>1 DEF LentOnce
    <2>3. \A k \in 1..Len(pool') : \A u \in Threads : pool'[k] # lent'[u]
      BY <1>2, <1>4, <2>1 DEF LentOnce
    <2>4. \A u \in Threads : \A w \in Threads : lent'[u] = lent'[w] /\ lent'[u] # NoConn => u = w
      BY <1>4 DEF LentOnce
    <2> QED
      BY <2>2, <2>3, <2>4 DEF LentOnce
  <1>6. Pooled' = Pooled
    BY AcquireKeepsPooled
  <1>7. {u \in Threads : step'[u] = "acquire"} = {u \in Threads : step[u] = "acquire"}
    <2>1. PICK s \in {"readCount", "out"} : step' = [step EXCEPT ![t] = s]
      BY DEF Release, Goto
    <2> QED
      BY <1>1, <2>1
  <1> HIDE DEF c, n
  <1>8. Lender!Return(t)
    BY <1>1, <1>2, <1>6, <1>7 DEF Lender!Return, c
  <1> QED
    BY <1>5, <1>8

\* What main() does to the pool.
LEMMA MainLends ==
  ASSUME FullInv, LentOnce, Main
  PROVE  LentOnce' /\ (Lender!Next \/ UNCHANGED Lender!vars)
  <1> USE ServerAssumption DEF FullInv, ServerInv
  <1>1. ASSUME NEW c \in Conns \ Pooled, pool' = Append(pool, c), UNCHANGED <<lent, step>>
        PROVE  LentOnce' /\ Lender!Next
    <2> DEFINE n == Len(pool)
    <2>1. n \in Nat /\ Len(pool') = n + 1 /\ \A k \in 1..n + 1 : pool'[k] = IF k <= n THEN pool[k] ELSE c
      BY <1>1, AppendProperties, LenProperties
    <2>2. \A k \in 1..Len(pool') : (k \in 1..n /\ pool'[k] = pool[k]) \/ (k = n + 1 /\ pool'[k] = c)
      <3> HIDE DEF n
      <3> QED
        BY <2>1
    <2>3. (\A k \in 1..n : pool[k] # c) /\ \A t \in Threads : lent[t] # c
      BY DEF Pooled
    <2>4. LentOnce'
      BY <1>1, <2>2, <2>3 DEF LentOnce
    <2>5. Pooled' = Pooled \cup {c}
      BY <1>1, PushedOne
    <2>6. Lender!Open(c)
      BY <1>1, <2>5 DEF Lender!Open
    <2> QED
      BY <2>4, <2>6 DEF Lender!Next
  <1>2. CASE OpenConnection \/ CreateTable
    <2>1. UNCHANGED <<lent, step>>
          /\ (pool' = pool \/ \E c \in Conns \ Pooled : pool' = Append(pool, c))
      BY <1>2 DEF OpenConnection, CreateTable, rpcVars
    <2>2. CASE pool' = pool
      BY <2>1, <2>2 DEF LentOnce, Pooled, Lender!vars
    <2> QED
      BY <1>1, <2>1, <2>2
  <1>3. CASE Leave
    <2>1. pool' = <<>> /\ UNCHANGED <<lent, step>> /\ phase = "exited"
      BY <1>3 DEF Leave, rpcVars
    <2>2. \A t \in Threads : step[t] = "out" /\ lent[t] = NoConn /\ lent'[t] = NoConn
      BY <2>1 DEF Holding, SqlSteps
    <2>3. LentOnce'
      BY <2>1, <2>2, EmptyIsLentOnce
    <2>4. Pooled' = {}
      BY <2>1, <2>2, EmptySeq DEF Pooled
    <2>5. Lender!CloseAll
      BY <2>1, <2>2, <2>4 DEF Lender!CloseAll
    <2> QED
      BY <2>3, <2>5 DEF Lender!Next
  <1>4. CASE ReadArgs \/ CreateDatabase \/ OpenFails \/ PoolReady \/ ConnectRedis \/ Listen
    <2>1. UNCHANGED <<pool, lent, step>>
      BY <1>4 DEF ReadArgs, CreateDatabase, OpenFails, PoolReady, ConnectRedis, Listen, rpcVars
    <2> QED
      BY <2>1 DEF LentOnce, Pooled, Lender!vars
  <1> QED
    BY <1>2, <1>3, <1>4 DEF Main

\* What the RPCs do between an acquire() and the end of the guard.
LEMMA HandleLends ==
  ASSUME FullInv, LentOnce, NEW t \in Threads,
         Arrive(t) \/ SendCommand(t) \/ RunCommand(t) \/ EndCommand(t) \/ Statement(t)
  PROVE  LentOnce' /\ (Lender!Next \/ UNCHANGED Lender!vars)
  <1> USE DEF FullInv, ServerInv
  <1>0. UNCHANGED <<pool, lent>>
    BY DEF Arrive, SendCommand, RunCommand, EndCommand, Statement, rpcVars
  <1>1. LentOnce' /\ Pooled' = Pooled
    BY <1>0 DEF LentOnce, Pooled
  <1>2. CASE EndCommand(t)
    <2>1. PICK ok, n, s :
            s \in AfterCommand(op[t], step[t], ok, n) /\ step' = [step EXCEPT ![t] = s]
      BY <1>2 DEF EndCommand, Goto
    <2>2. step[t] \in RedisSteps
      BY <1>2 DEF EndCommand, EndCall
    <2>3. step[t] # "acquire" /\ (s = "acquire" => lent[t] = NoConn)
      <3>1. s \in Holding <=> step[t] \in Holding
        BY <2>1, <2>2, CommandKeepsHolding
      <3> QED
        BY <2>2, <3>1, StepNames DEF Holding, SqlSteps
    <2>4. CASE s = "acquire"
      <3>1. {u \in Threads : step'[u] = "acquire"} = {u \in Threads : step[u] = "acquire"} \cup {t}
        BY <2>1, <2>4
      <3>2. Lender!Ask(t)
        BY <1>0, <1>1, <2>3, <2>4, <3>1 DEF Lender!Ask
      <3> QED
        BY <1>1, <3>2 DEF Lender!Next
    <2>5. CASE s # "acquire"
      <3>1. {u \in Threads : step'[u] = "acquire"} = {u \in Threads : step[u] = "acquire"}
        BY <2>1, <2>3, <2>5
      <3> QED
        BY <1>0, <1>1, <3>1 DEF Lender!vars
    <2> QED
      BY <2>4, <2>5
  <1>3. CASE Arrive(t)
    <2>1. PICK s \in {"count", "lookUp"} : step' = [step EXCEPT ![t] = s]
      BY <1>3 DEF Arrive
    <2>2. step[t] = "out"
      BY <1>3 DEF Arrive
    <2>3. {u \in Threads : step'[u] = "acquire"} = {u \in Threads : step[u] = "acquire"}
      BY <2>1, <2>2
    <2> QED
      BY <1>0, <1>1, <2>3 DEF Lender!vars
  <1>4. CASE Statement(t)
    <2>1. PICK s \in Holding : step' = [step EXCEPT ![t] = s]
      BY <1>4 DEF Statement, AfterStatement, Holding, SqlSteps
    <2>2. step[t] # "acquire" /\ s # "acquire"
      BY <1>4 DEF Statement, SqlSteps, Holding
    <2>3. {u \in Threads : step'[u] = "acquire"} = {u \in Threads : step[u] = "acquire"}
      BY <2>1, <2>2
    <2> QED
      BY <1>0, <1>1, <2>3 DEF Lender!vars
  <1>5. CASE SendCommand(t) \/ RunCommand(t)
    <2>1. UNCHANGED step
      BY <1>5 DEF SendCommand, RunCommand, rpcVars
    <2> QED
      BY <1>0, <1>1, <2>1 DEF Lender!vars
  <1> QED
    BY <1>2, <1>3, <1>4, <1>5

LEMMA NextLends ==
  ASSUME FullInv, LentOnce, [ServerNext]_vars
  PROVE  LentOnce' /\ (Lender!Next \/ Crash \/ UNCHANGED Lender!vars)
  <1>1. CASE Main
    BY <1>1, MainLends
  <1>2. ASSUME NEW t \in Threads, Acquire(t)
        PROVE  LentOnce' /\ Lender!Next
    BY <1>2, AcquireKeepsLentOnce DEF Lender!Next
  <1>3. ASSUME NEW t \in Threads, Release(t)
        PROVE  LentOnce' /\ Lender!Next
    BY <1>3, ReleaseKeepsLentOnce DEF Lender!Next
  <1>4. ASSUME NEW t \in Threads,
               Arrive(t) \/ SendCommand(t) \/ RunCommand(t) \/ EndCommand(t) \/ Statement(t)
        PROVE  LentOnce' /\ (Lender!Next \/ UNCHANGED Lender!vars)
    BY <1>4, HandleLends
  <1>5. CASE LoseLink \/ AnswerCommand \/ UNCHANGED vars
    <2>1. UNCHANGED <<pool, lent, step>>
      BY <1>5 DEF LoseLink, AnswerCommand, vars, rpcVars
    <2> QED
      BY <2>1 DEF LentOnce, Pooled, Lender!vars
  <1>6. CASE Crash
    <2>1. pool' = <<>> /\ \A t \in Threads : lent'[t] = NoConn
      BY <1>6 DEF Crash
    <2> QED
      BY <1>6, <2>1, EmptyIsLentOnce
  <1> QED
    BY <1>1, <1>2, <1>3, <1>4, <1>5, <1>6 DEF ServerNext, Handle

LEMMA AlwaysLentOnce == ServerSpec => []LentOnce
  <1>1. FullInv /\ LentOnce /\ [ServerNext]_vars => LentOnce'
    BY NextLends
  <1> QED
    BY <1>1, InitLentOnce, ServerAlwaysInv, PTL DEF ServerSpec

\* Whatever links break and statements fail, the process opens, lends and takes
\* back its connections by the rules under which the pool promises that each
\* goes to one thread and that somebody who waits is served.
THEOREM ProcessLendsByTheRules == ServerSpec => LendsByTheRules
  <1>1. FullInv /\ LentOnce /\ [ServerNext]_vars => [Lender!Next \/ Crash]_(Lender!vars)
    BY NextLends
  <1> QED
    BY <1>1, AlwaysLentOnce, ServerAlwaysInv, PTL DEF ServerSpec, LendsByTheRules

\* No two RPCs of the process run statements on one connection.
THEOREM ProcessLendsOnce == ServerSpec => []Lender!Exclusive
  <1>1. LentOnce => Lender!Exclusive
    BY DEF LentOnce, Lender!Exclusive
  <1> QED
    BY <1>1, AlwaysLentOnce, PTL

=============================================================================
