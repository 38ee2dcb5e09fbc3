---------------------------- MODULE MysqlConnProofs ----------------------------
(***************************************************************************)
(* Proofs about MysqlConn, for every number of connections.  A result is   *)
(* on the link only while query() is storing it: no other method starts in *)
(* between, so that no statement meets one.                                *)
(***************************************************************************)
EXTENDS MysqlConn, TLAPS

SqlInv ==
  /\ SqlTypeOK
  /\ \A c \in Conns : unread[c] => sqlAt[c] = "storing"
  /\ NeverOutOfSync

LEMMA InitSqlInv == SqlInit => SqlInv
  BY DEF SqlInit, SqlInv, SqlTypeOK, NeverOutOfSync, Errors

\* A statement starts on a connection without an unread result.
LEMMA QueryFailsKeepsSqlInv ==
  ASSUME SqlInv, NEW c \in Conns, sqlAt[c] = "ready", NEW e \in Errors, QueryFails(c, e)
  PROVE  SqlInv'
  <1>1. ~unread[c] /\ e # "sync"
    BY DEF SqlInv, QueryFails
  <1>2. SqlTypeOK'
    BY DEF SqlInv, SqlTypeOK, QueryFails
  <1>3. NeverOutOfSync'
    BY <1>1 DEF SqlInv, SqlTypeOK, NeverOutOfSync, QueryFails
  <1> QED
    BY <1>2, <1>3 DEF SqlInv, QueryFails

LEMMA NextKeepsSqlInv == SqlInv /\ [SqlNext]_sqlVars => SqlInv'
  <1> SUFFICES ASSUME SqlInv, [SqlNext]_sqlVars PROVE SqlInv'
    OBVIOUS
  <1> USE DEF SqlInv, SqlTypeOK, NeverOutOfSync, Errors
  <1>1. ASSUME NEW c \in Conns, SqlConnect(c) \/ SqlConnectFails(c) PROVE SqlInv'
    BY <1>1 DEF SqlConnect, SqlConnectFails
  <1>2. ASSUME NEW c \in Conns, Execute(c) PROVE SqlInv'
    <2>1. CASE QuerySent(c) /\ result' = [result EXCEPT ![c] = TRUE]
               /\ UNCHANGED <<handle, sqlLink, unread, sqlAt, err>>
      BY <2>1
    <2>2. CASE \E e \in Errors : QueryFails(c, e)
      BY <1>2, <2>2, QueryFailsKeepsSqlInv DEF Execute
    <2> QED
      BY <1>2, <2>1, <2>2 DEF Execute
  <1>3. ASSUME NEW c \in Conns, Query(c) PROVE SqlInv'
    <2>1. CASE /\ unread' = [unread EXCEPT ![c] = TRUE]
               /\ sqlAt' = [sqlAt EXCEPT ![c] = "storing"]
               /\ UNCHANGED <<handle, sqlLink, result, err>>
      BY <2>1
    <2>2. CASE \E e \in Errors : QueryFails(c, e)
      BY <1>3, <2>2, QueryFailsKeepsSqlInv DEF Query
    <2> QED
      BY <1>3, <2>1, <2>2 DEF Query
  <1>4. ASSUME NEW c \in Conns, StoreResult(c) PROVE SqlInv'
    BY <1>4 DEF StoreResult
  <1>5. ASSUME NEW c \in Conns, SqlLinkBreaks(c) PROVE SqlInv'
    BY <1>5 DEF SqlLinkBreaks
  <1>6. ASSUME NEW cs \in SUBSET Conns, SqlClose(cs) PROVE SqlInv'
    BY <1>6 DEF SqlClose
  <1>7. CASE UNCHANGED sqlVars
    BY <1>7 DEF sqlVars
  <1> QED
    BY <1>1, <1>2, <1>3, <1>4, <1>5, <1>6, <1>7 DEF SqlNext

\* The strengthened invariant holds of the connections, whoever uses them.
THEOREM SqlAlwaysInv == SqlSpec => []SqlInv
  BY InitSqlInv, NextKeepsSqlInv, PTL DEF SqlSpec

\* No statement fails with "Commands out of sync", whatever the links do.
THEOREM ConnectionsStayInSync == SqlSpec => []NeverOutOfSync
  <1>1. SqlInv => NeverOutOfSync
    BY DEF SqlInv
  <1> QED
    BY <1>1, SqlAlwaysInv, PTL

=============================================================================
