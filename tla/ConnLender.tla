----------------------------- MODULE ConnLender -----------------------------
(***************************************************************************)
(* What the MySQL connection pool promises, without its mutex, condition   *)
(* variable and idle stack: a set of owned connections, each lent to at    *)
(* most one thread at a time.  MysqlPool implements this specification,    *)
(* and UserRepository borrows and returns connections through its actions. *)
(* The promise is the one of the class comment "MySQL connection pool" and *)
(* of the Guard comment in mysql_pool.h.                                   *)
(***************************************************************************)
CONSTANTS
  Threads,    \* RPC threads that borrow connections
  Conns,      \* connection objects that can be opened
  NoConn      \* a guard that holds no connection (conn_ == nullptr)

VARIABLES
  owned,      \* connections the pool keeps open
  lent,       \* lent[t]: the connection thread t holds, or NoConn
  want        \* threads inside acquire() that hold nothing yet

vars == <<owned, lent, want>>

Free == owned \ {lent[t] : t \in Threads}

LenderTypeOK ==
  /\ owned \subseteq Conns
  /\ lent \in [Threads -> Conns \cup {NoConn}]
  /\ want \subseteq Threads

Init ==
  /\ owned = {}
  /\ lent = [t \in Threads |-> NoConn]
  /\ want = {}

\* The pool opens one more connection; nobody can borrow yet.
Open(c) ==
  /\ c \in Conns \ owned
  /\ owned' = owned \cup {c}
  /\ UNCHANGED <<lent, want>>

\* Thread t calls acquire().
Ask(t) ==
  /\ t \notin want
  /\ lent[t] = NoConn
  /\ want' = want \cup {t}
  /\ UNCHANGED <<owned, lent>>

\* acquire() of thread t returns a guard for a connection nobody else holds.
Borrow(t) ==
  /\ t \in want
  /\ \E c \in Free : lent' = [lent EXCEPT ![t] = c]
  /\ want' = want \ {t}
  /\ UNCHANGED owned

\* The guard of thread t is destroyed.
Return(t) ==
  /\ lent[t] # NoConn
  /\ lent' = [lent EXCEPT ![t] = NoConn]
  /\ UNCHANGED <<owned, want>>

\* The guard of thread t is moved into a guard of thread u.
HandOver(t, u) ==
  /\ lent[t] # NoConn
  /\ lent[u] = NoConn
  /\ u \notin want
  /\ lent' = [lent EXCEPT ![u] = lent[t], ![t] = NoConn]
  /\ UNCHANGED <<owned, want>>

\* The pool is closed, which nobody may notice: nothing is lent or awaited.
CloseAll ==
  /\ want = {}
  /\ \A t \in Threads : lent[t] = NoConn
  /\ owned' = {}
  /\ UNCHANGED <<lent, want>>

Next ==
  \/ \E c \in Conns : Open(c)
  \/ \E t \in Threads : Ask(t) \/ Borrow(t) \/ Return(t)
  \/ \E t, u \in Threads : HandOver(t, u)
  \/ CloseAll

SafeSpec == Init /\ [][Next]_vars

(***************************************************************************)
(* The liveness promise: while a connection is free and somebody wants     *)
(* one, somebody gets one.  It does not say who.                           *)
(***************************************************************************)
Spec == SafeSpec /\ WF_vars(\E t \in Threads : Borrow(t))

\* No connection is in the hands of two threads.
Exclusive ==
  \A t, u \in Threads : lent[t] = lent[u] /\ lent[t] # NoConn => t = u
=============================================================================
