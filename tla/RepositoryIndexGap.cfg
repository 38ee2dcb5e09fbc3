\* Two RPCs at a time, nothing fails.
SPECIFICATION Spec
CONSTANTS
  Threads = {t1, t2}
  Conns = {c1, c2}
  NoConn = NoConn
  Nil = Nil
  EmptyName = EmptyName
  alice = alice
  bob = bob
  Names <- MCNames
  Requests <- ListRequests
  MaxUsers = 1
  MaxCount = 0
  RedisFaults = FALSE
  SqlFaults = FALSE
  Crashes = FALSE
SYMMETRY Symmetry
INVARIANT IndexHoldsListKeys
