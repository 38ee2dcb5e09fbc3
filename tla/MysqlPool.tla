------------------------------ MODULE MysqlPool ------------------------------
(***************************************************************************)
(* The connection pool of src/src/store/mysql_pool.{h,cpp}: a vector that  *)
(* owns the connections, a stack of the idle ones, a mutex, a condition    *)
(* variable, and RAII guards that return a connection when they die.       *)
(*                                                                         *)
(* One thread, main(), runs init(), starts the gRPC server and destroys    *)
(* the pool.  The RPC threads call acquire() and destroy their guard.      *)
(* A step of a thread is what it does between two operations on mu_ or     *)
(* cv_, so that every interleaving of the critical sections is explored.   *)
(***************************************************************************)
EXTENDS Integers, Sequences, FiniteSets

CONSTANTS
  Threads,               \* threads of the gRPC server that run handlers
  Conns,                 \* MysqlConn objects that init() can allocate
  PoolSize,              \* cfg.pool_size, any value std::stoi accepts
  NoThread,              \* nobody owns mu_
  NoConn                 \* a guard whose conn_ is nullptr

ASSUME PoolSizeAssumption == PoolSize \in Int
ASSUME ConnsAssumption ==
  IsFiniteSet(Conns) /\ NoConn \notin Conns /\ PoolSize <= Cardinality(Conns)
ASSUME ThreadsAssumption == IsFiniteSet(Threads) /\ NoThread \notin Threads

VARIABLES
  phase,     \* where main() is: init(), the server, the destructor
  opened,    \* loop counter i of init()
  table,     \* does the users table exist?
  conns,     \* conns_: the connections the pool owns
  idle,      \* idle_: the stack of connections that can be lent
  mu,        \* the thread that owns mu_, or NoThread
  pc,        \* pc[t]: where thread t is
  guard      \* guard[t]: conn_ of the guard of thread t

mainVars == <<phase, opened, table>>
vars == <<phase, opened, table, conns, idle, mu, pc, guard>>

Phases == {"createdb", "filling", "ready", "serving", "failed", "closed"}

\* "enter" is the lock at the top of acquire() and the re-lock inside
\* cv_.wait(); "waiting" sleeps in cv_.wait(); a thread at one of the
\* CriticalLabels owns mu_.
Labels ==
  {"out", "enter", "test", "take", "waiting", "using", "return", "push"}
CriticalLabels == {"test", "take", "push"}

Waiting == {t \in Threads : pc[t] = "waiting"}
Awake == {t \in Threads : pc[t] \in {"enter", "test", "take"}}
Lent == {guard[t] : t \in Threads} \ {NoConn}
Idle == {idle[k] : k \in 1..Len(idle)}

Init ==
  /\ phase = "createdb"
  /\ opened = 0
  /\ table \in BOOLEAN        \* an earlier run may have created it
  /\ conns = {}
  /\ idle = <<>>
  /\ mu = NoThread
  /\ pc = [t \in Threads |-> "out"]
  /\ guard = [t \in Threads |-> NoConn]

-----------------------------------------------------------------------------
(* main(): init(), the server, the destructor                              *)

\* Step 1 of init(): the temporary connection creates the database.
CreateDatabase ==
  /\ phase = "createdb"
  /\ phase' = "filling"
  /\ UNCHANGED <<opened, table, conns, idle, mu, pc, guard>>

\* Mutant of OpenConnection: no connection creates the table.
OpenWithoutTable ==
  /\ phase = "filling"
  /\ opened < PoolSize
  /\ \E c \in Conns \ conns :
       /\ idle' = Append(idle, c)
       /\ conns' = conns \cup {c}
  /\ opened' = opened + 1
  /\ UNCHANGED <<phase, table, mu, pc, guard>>

\* One iteration of the loop of init(): connect, create the table through
\* the first connection, push the pointer and then the owner.
OpenConnection ==
  /\ phase = "filling"
  /\ opened < PoolSize
  /\ \E c \in Conns \ conns :
       /\ idle' = Append(idle, c)
       /\ conns' = conns \cup {c}
  /\ table' = (table \/ opened = 0)
  /\ opened' = opened + 1
  /\ UNCHANGED <<phase, mu, pc, guard>>

\* A connection or a statement of init() fails and init() returns false.
InitFails ==
  /\ \/ phase = "createdb"
     \/ phase = "filling" /\ opened < PoolSize
  /\ phase' = "failed"
  /\ UNCHANGED <<opened, table, conns, idle, mu, pc, guard>>

\* The loop of init() is over and init() returns true.
InitSucceeds ==
  /\ phase = "filling"
  /\ opened >= PoolSize
  /\ phase' = "ready"
  /\ UNCHANGED <<opened, table, conns, idle, mu, pc, guard>>

\* main() has connected to Redis and started the gRPC server.
StartServer ==
  /\ phase = "ready"
  /\ phase' = "serving"
  /\ UNCHANGED <<opened, table, conns, idle, mu, pc, guard>>

\* main() leaves after a failure of init(), of Redis or of the server, and
\* ~MysqlPool calls shutdown().  A server that runs is never stopped.
Shutdown ==
  /\ phase \in {"failed", "ready"}
  /\ mu = NoThread
  /\ idle' = <<>>
  /\ conns' = {}
  /\ phase' = "closed"
  /\ UNCHANGED <<opened, table, mu, pc, guard>>

-----------------------------------------------------------------------------
(* acquire()                                                               *)

\* A handler calls acquire().
CallAcquire(t) ==
  /\ phase = "serving"
  /\ pc[t] = "out"
  /\ pc' = [pc EXCEPT ![t] = "enter"]
  /\ UNCHANGED <<mainVars, conns, idle, mu, guard>>

\* Mutant of LockToTake: acquire() does not wait for mu_.
TakeWithoutLock(t) ==
  /\ pc[t] = "enter"
  /\ mu' = t
  /\ pc' = [pc EXCEPT ![t] = "test"]
  /\ UNCHANGED <<mainVars, conns, idle, guard>>

\* unique_lock, or the re-lock of cv_.wait() after a wakeup.
LockToTake(t) ==
  /\ pc[t] = "enter"
  /\ mu = NoThread
  /\ mu' = t
  /\ pc' = [pc EXCEPT ![t] = "test"]
  /\ UNCHANGED <<mainVars, conns, idle, guard>>

\* The predicate holds.
FindIdle(t) ==
  /\ pc[t] = "test"
  /\ idle # <<>>
  /\ pc' = [pc EXCEPT ![t] = "take"]
  /\ UNCHANGED <<mainVars, conns, idle, mu, guard>>

\* back(), pop_back(), wrap the connection in a guard, unlock.
TakeIdle(t) ==
  /\ pc[t] = "take"
  /\ guard' = [guard EXCEPT ![t] = idle[Len(idle)]]
  /\ idle' = SubSeq(idle, 1, Len(idle) - 1)
  /\ mu' = NoThread
  /\ pc' = [pc EXCEPT ![t] = "using"]
  /\ UNCHANGED <<mainVars, conns>>

\* The predicate does not hold: unlock and sleep, in one step.
WaitForIdle(t) ==
  /\ pc[t] = "test"
  /\ idle = <<>>
  /\ mu' = NoThread
  /\ pc' = [pc EXCEPT ![t] = "waiting"]
  /\ UNCHANGED <<mainVars, conns, idle, guard>>

\* cv_.wait() may return although nobody notified.
SpuriousWake(t) ==
  /\ pc[t] = "waiting"
  /\ pc' = [pc EXCEPT ![t] = "enter"]
  /\ UNCHANGED <<mainVars, conns, idle, mu, guard>>

-----------------------------------------------------------------------------
(* Guard and release()                                                     *)

\* Mutant of MoveGuard: other.conn_ keeps its value.
CopyGuard(t, u) ==
  /\ pc[t] = "using"
  /\ guard[t] # NoConn
  /\ pc[u] = "out"
  /\ guard' = [guard EXCEPT ![u] = guard[t]]
  /\ pc' = [pc EXCEPT ![u] = "using"]
  /\ UNCHANGED <<mainVars, conns, idle, mu>>

\* The move constructor: a guard in the hands of u takes over the connection
\* of the guard of t, which is left empty and destroyed in its turn.
MoveGuard(t, u) ==
  /\ pc[t] = "using"
  /\ guard[t] # NoConn
  /\ pc[u] = "out"
  /\ guard' = [guard EXCEPT ![u] = guard[t], ![t] = NoConn]
  /\ pc' = [pc EXCEPT ![u] = "using"]
  /\ UNCHANGED <<mainVars, conns, idle, mu>>

\* Mutant of DestroyGuard: ~Guard does not test conn_.
DestroyUntested(t) ==
  /\ pc[t] = "using"
  /\ pc' = [pc EXCEPT ![t] = "return"]
  /\ UNCHANGED <<mainVars, conns, idle, mu, guard>>

\* ~Guard: an empty guard returns nothing, the others call release().
DestroyGuard(t) ==
  /\ pc[t] = "using"
  /\ pc' = [pc EXCEPT ![t] = IF guard[t] = NoConn THEN "out" ELSE "return"]
  /\ UNCHANGED <<mainVars, conns, idle, mu, guard>>

LockToReturn(t) ==
  /\ pc[t] = "return"
  /\ mu = NoThread
  /\ mu' = t
  /\ pc' = [pc EXCEPT ![t] = "push"]
  /\ UNCHANGED <<mainVars, conns, idle, guard>>

\* Mutant of PushAndNotify: the connection is dropped.
NotifyWithoutPush(t) ==
  /\ pc[t] = "push"
  /\ guard' = [guard EXCEPT ![t] = NoConn]
  /\ mu' = NoThread
  /\ pc' = [pc EXCEPT ![t] = "out"]
  /\ UNCHANGED <<mainVars, conns, idle>>

\* Mutant of PushAndNotify: a sleeper is notified only when the stack was
\* empty, as if one wakeup could serve several waiters.
NotifyIfEmpty(t) ==
  /\ pc[t] = "push"
  /\ idle' = Append(idle, guard[t])
  /\ guard' = [guard EXCEPT ![t] = NoConn]
  /\ mu' = NoThread
  /\ \/ /\ Waiting = {} \/ idle # <<>>
        /\ pc' = [pc EXCEPT ![t] = "out"]
     \/ /\ idle = <<>>
        /\ \E w \in Waiting : pc' = [pc EXCEPT ![t] = "out", ![w] = "enter"]
  /\ UNCHANGED <<mainVars, conns>>

\* Mutant of PushAndNotify: no notify_one().
PushWithoutNotify(t) ==
  /\ pc[t] = "push"
  /\ idle' = Append(idle, guard[t])
  /\ guard' = [guard EXCEPT ![t] = NoConn]
  /\ mu' = NoThread
  /\ pc' = [pc EXCEPT ![t] = "out"]
  /\ UNCHANGED <<mainVars, conns>>

\* release() under mu_: push the connection and notify one sleeping thread,
\* any of them, or nobody when nobody sleeps.
PushAndNotify(t) ==
  /\ pc[t] = "push"
  /\ idle' = Append(idle, guard[t])
  /\ guard' = [guard EXCEPT ![t] = NoConn]
  /\ mu' = NoThread
  /\ \/ /\ Waiting = {}
        /\ pc' = [pc EXCEPT ![t] = "out"]
     \/ \E w \in Waiting : pc' = [pc EXCEPT ![t] = "out", ![w] = "enter"]
  /\ UNCHANGED <<mainVars, conns>>

-----------------------------------------------------------------------------

\* After main() has returned nothing happens any more.
Terminated == phase = "closed" /\ UNCHANGED vars

MainStep ==
  \/ CreateDatabase \/ OpenConnection \/ InitFails \/ InitSucceeds
  \/ StartServer \/ Shutdown

ThreadStep(t) ==
  \/ CallAcquire(t) \/ LockToTake(t) \/ FindIdle(t) \/ TakeIdle(t)
  \/ WaitForIdle(t) \/ SpuriousWake(t) \/ DestroyGuard(t)
  \/ LockToReturn(t) \/ PushAndNotify(t)
  \/ \E u \in Threads : MoveGuard(t, u)

Next ==
  \/ MainStep
  \/ \E t \in Threads : ThreadStep(t)
  \/ Terminated

(***************************************************************************)
(* A runnable thread is scheduled, and handlers end.  Nothing makes a      *)
(* handler call acquire(), move a guard or wake up without a notification. *)
(* Weak fairness of the two lock steps is what a mutex gives that only     *)
(* promises progress: a single thread may be kept from mu_ for ever.       *)
(***************************************************************************)
Fairness ==
  \A t \in Threads :
    /\ WF_vars(LockToTake(t)) /\ WF_vars(FindIdle(t)) /\ WF_vars(TakeIdle(t))
    /\ WF_vars(WaitForIdle(t)) /\ WF_vars(DestroyGuard(t))
    /\ WF_vars(LockToReturn(t)) /\ WF_vars(PushAndNotify(t))

Spec == Init /\ [][Next]_vars

FairSpec == Spec /\ Fairness

-----------------------------------------------------------------------------
(* Properties                                                              *)

TypeOK ==
  /\ phase \in Phases
  /\ opened \in Nat
  /\ table \in BOOLEAN
  /\ conns \subseteq Conns
  /\ idle \in Seq(Conns)
  /\ mu \in Threads \cup {NoThread}
  /\ pc \in [Threads -> Labels]
  /\ guard \in [Threads -> Conns \cup {NoConn}]

\* "One connection is used by one thread at any time" (mysql_pool.h:106): no
\* two guards hold the same connection, none is both lent and idle, and none
\* is on the stack twice.
Exclusion ==
  /\ \A t, u \in Threads : guard[t] = guard[u] /\ guard[t] # NoConn => t = u
  /\ Idle \cap Lent = {}
  /\ \A j, k \in 1..Len(idle) : idle[j] = idle[k] => j = k

\* "Borrowed and not returned" (mysql_pool.h:131) does not happen: until the
\* pool is closed each connection it owns is on the stack or in a guard, also
\* after moves, empty guards and handlers that end early.
NothingLeaks == phase # "closed" => Idle \cup Lent = conns

\* The mutex makes the test of the predicate and the pop one unit: nobody
\* calls back() and pop_back() on an empty stack, which would be undefined.
NoEmptyPop == \A t \in Threads : pc[t] = "take" => idle # <<>>

\* notify_one() is never lost: while threads sleep in acquire(), every idle
\* connection has a thread that is awake and on its way to take it.
NoLostWakeup == Waiting # {} => Len(idle) <= Cardinality(Awake)

\* init() returns true only after "create the database, create the table"
\* (mysql_pool.h:117): the handlers find the users table.
TableReady == phase \in {"ready", "serving"} => table

\* The pool keeps the promise of ConnLender: the guards are what is lent, the
\* threads inside acquire() are those that want a connection.
Lender == INSTANCE ConnLender
          WITH owned <- conns, lent <- guard, want <- Waiting \cup Awake

ImplementsLender == Lender!Spec
==============================================================================
