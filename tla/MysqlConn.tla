------------------------------- MODULE MysqlConn -------------------------------
(***************************************************************************)
(* MysqlConn and MysqlResult (src/src/store/mysql_pool.{h,cpp}): the       *)
(* connections to MySQL, each with a handle, a link that may break for     *)
(* good, and the protocol state that libmysqlclient keeps for it.  Who     *)
(* uses which connection when is the business of Server.                   *)
(*                                                                         *)
(* libmysqlclient is external.  A SELECT whose result has not been stored  *)
(* makes the next statement fail with "Commands out of sync"; a handle     *)
(* whose link is broken fails every statement and does not reconnect.      *)
(* SQL, rows and the text of errors are left out.                          *)
(***************************************************************************)
EXTENDS Naturals, FiniteSets

CONSTANT Conns    \* MysqlConn objects

VARIABLES
  handle,    \* handle[c]: mysql_ is not null
  sqlLink,   \* sqlLink[c]: the link to MySQL stands
  unread,    \* unread[c]: a result is on the link that nobody has stored
  sqlAt,     \* sqlAt[c]: "ready", or "storing" inside query()
  result,    \* result[c]: what the last method returned
  err        \* err[c]: why the last method that failed did: err_

sqlVars == <<handle, sqlLink, unread, sqlAt, result, err>>

Errors == {"none", "connect", "refused", "lost", "sync"}

SqlInit ==
  /\ handle = [c \in Conns |-> FALSE]
  /\ sqlLink = [c \in Conns |-> FALSE]
  /\ unread = [c \in Conns |-> FALSE]
  /\ sqlAt = [c \in Conns |-> "ready"]
  /\ result = [c \in Conns |-> TRUE]
  /\ err = [c \in Conns |-> "none"]

-----------------------------------------------------------------------------
(* connect() and close()                                                   *)

\* connect(): close what is open, get a handle, connect, set the charset.
SqlConnect(c) ==
  /\ sqlAt[c] = "ready"
  /\ handle' = [handle EXCEPT ![c] = TRUE]
  /\ sqlLink' = [sqlLink EXCEPT ![c] = TRUE]
  /\ unread' = [unread EXCEPT ![c] = FALSE]
  /\ result' = [result EXCEPT ![c] = TRUE]
  /\ err' = [err EXCEPT ![c] = "none"]
  /\ UNCHANGED sqlAt

\* connect() fails, for want of memory or of a server: the handle is closed.
SqlConnectFails(c) ==
  /\ sqlAt[c] = "ready"
  /\ handle' = [handle EXCEPT ![c] = FALSE]
  /\ sqlLink' = [sqlLink EXCEPT ![c] = FALSE]
  /\ unread' = [unread EXCEPT ![c] = FALSE]
  /\ result' = [result EXCEPT ![c] = FALSE]
  /\ err' = [err EXCEPT ![c] = "connect"]
  /\ UNCHANGED sqlAt

\* close() of the connections cs, which their destructors call.
SqlClose(cs) ==
  /\ handle' = [c \in Conns |-> handle[c] /\ c \notin cs]
  /\ sqlLink' = [c \in Conns |-> sqlLink[c] /\ c \notin cs]
  /\ unread' = [c \in Conns |-> unread[c] /\ c \notin cs]
  /\ sqlAt' = [c \in Conns |-> IF c \in cs THEN "ready" ELSE sqlAt[c]]
  /\ UNCHANGED <<result, err>>

-----------------------------------------------------------------------------
(* Statements                                                              *)

\* mysql_query() fails for reason e.
QueryFails(c, e) ==
  /\ \/ e = "sync" /\ unread[c]
     \/ e = "lost" /\ ~unread[c] /\ ~sqlLink[c]
     \/ e = "refused" /\ ~unread[c] /\ sqlLink[c]
  /\ err' = [err EXCEPT ![c] = e]
  /\ result' = [result EXCEPT ![c] = FALSE]
  /\ UNCHANGED <<handle, sqlLink, unread, sqlAt>>

\* mysql_query() can send: nothing is unread, the link stands.
QuerySent(c) == ~unread[c] /\ sqlLink[c]

\* execute(): a statement without rows.
Execute(c) ==
  /\ handle[c] /\ sqlAt[c] = "ready"
  /\ \/ /\ QuerySent(c)
        /\ result' = [result EXCEPT ![c] = TRUE]
        /\ UNCHANGED <<handle, sqlLink, unread, sqlAt, err>>
     \/ \E e \in Errors : QueryFails(c, e)

\* Mutant of Query: query() does not go on to store the result.
QueryWithoutStore(c) ==
  /\ handle[c] /\ sqlAt[c] = "ready"
  /\ \/ /\ QuerySent(c)
        /\ unread' = [unread EXCEPT ![c] = TRUE]
        /\ result' = [result EXCEPT ![c] = TRUE]
        /\ UNCHANGED <<handle, sqlLink, sqlAt, err>>
     \/ \E e \in Errors : QueryFails(c, e)

\* query(): the SELECT is sent and its rows are on the link.
Query(c) ==
  /\ handle[c] /\ sqlAt[c] = "ready"
  /\ \/ /\ QuerySent(c)
        /\ unread' = [unread EXCEPT ![c] = TRUE]
        /\ sqlAt' = [sqlAt EXCEPT ![c] = "storing"]
        /\ UNCHANGED <<handle, sqlLink, result, err>>
     \/ \E e \in Errors : QueryFails(c, e)

\* query(), second half: mysql_store_result() takes the rows, or finds that
\* the link has broken since and returns null; the handle is ready again.
StoreResult(c) ==
  /\ sqlAt[c] = "storing"
  /\ sqlAt' = [sqlAt EXCEPT ![c] = "ready"]
  /\ unread' = [unread EXCEPT ![c] = FALSE]
  /\ result' = [result EXCEPT ![c] = sqlLink[c]]
  /\ err' = IF sqlLink[c] THEN err ELSE [err EXCEPT ![c] = "lost"]
  /\ UNCHANGED <<handle, sqlLink>>

\* MySQL restarts, closes an idle link, or the network breaks.
SqlLinkBreaks(c) ==
  /\ sqlLink[c]
  /\ sqlLink' = [sqlLink EXCEPT ![c] = FALSE]
  /\ UNCHANGED <<handle, unread, sqlAt, result, err>>

SqlNext ==
  \/ \E c \in Conns :
       \/ SqlConnect(c) \/ SqlConnectFails(c)
       \/ Execute(c) \/ Query(c) \/ StoreResult(c) \/ SqlLinkBreaks(c)
  \/ \E cs \in SUBSET Conns : SqlClose(cs)

SqlSpec == SqlInit /\ [][SqlNext]_sqlVars

-----------------------------------------------------------------------------
(* Properties                                                              *)

SqlTypeOK ==
  /\ handle \in [Conns -> BOOLEAN]
  /\ sqlLink \in [Conns -> BOOLEAN]
  /\ unread \in [Conns -> BOOLEAN]
  /\ sqlAt \in [Conns -> {"ready", "storing"}]
  /\ result \in [Conns -> BOOLEAN]
  /\ err \in [Conns -> Errors]

\* No statement ever fails with "Commands out of sync" (mysql_pool.cpp:80): a
\* connection goes back to the pool without the rows of an earlier borrower,
\* also when its link broke between the SELECT and the store.
NeverOutOfSync == \A c \in Conns : err[c] # "sync"

=============================================================================
