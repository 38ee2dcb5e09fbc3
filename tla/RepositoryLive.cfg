\* Two handlers share one connection; commands and statements may fail and the
\* server may crash.
SPECIFICATION FairSpec
CONSTANTS
  Threads = {t1, t2}
  Conns = {c1}
  NoConn = NoConn
  Nil = Nil
  EmptyName = EmptyName
  alice = alice
  bob = bob
  Names <- MCNames
  Requests <- CacheRequests
  MaxUsers = 1
  MaxCount = 0
  RedisFaults = TRUE
  SqlFaults = TRUE
  Crashes = TRUE
PROPERTIES ImplementsDirectory EventuallyFresh SomebodyFinishes
