\* Two handlers create and get users; commands and statements may fail and the
\* server may crash at any point.
SPECIFICATION Spec
CONSTANTS
  Threads = {t1, t2}
  Conns = {c1, c2}
  NoConn = NoConn
  Nil = Nil
  EmptyName = EmptyName
  alice = alice
  bob = bob
  Names <- MCNames
  Requests <- UserRequests
  MaxUsers = 2
  MaxCount = 1
  RedisFaults = TRUE
  SqlFaults = TRUE
  Crashes = TRUE
SYMMETRY Symmetry
INVARIANTS CachedUsersAreRows CreateRepliesOwnRow
PROPERTY UsesLender
