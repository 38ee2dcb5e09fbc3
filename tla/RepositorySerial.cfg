\* One RPC at a time, SQL statements may fail: what is promised of a cache that is
\* invalidated by each write.
SPECIFICATION Spec
CONSTANTS
  Threads = {t1}
  Conns = {c1}
  NoConn = NoConn
  Nil = Nil
  EmptyName = EmptyName
  alice = alice
  bob = bob
  Names <- MCNames
  Requests <- PagingRequests
  MaxUsers = 2
  MaxCount = 1
  RedisFaults = FALSE
  SqlFaults = TRUE
  Crashes = FALSE
INVARIANTS ListReadAfterWrite StatsReadAfterWrite IndexHoldsListKeys
