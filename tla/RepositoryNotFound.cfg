\* One RPC at a time; an SQL statement may fail.
SPECIFICATION Spec
CONSTANTS
  Threads = {t1}
  Conns = {c1}
  NoConn = NoConn
  Nil = Nil
  EmptyName = EmptyName
  alice = alice
  bob = bob
  Names <- MCNames
  Requests <- UserRequests
  MaxUsers = 1
  MaxCount = 0
  RedisFaults = FALSE
  SqlFaults = TRUE
  Crashes = FALSE
INVARIANT UserReadAfterWrite
