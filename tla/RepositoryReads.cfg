\* Two handlers create users, get one and list two pages; two connections, so
\* that an INSERT falls between the COUNT and the SELECT of a list.  Keys expire
\* but nothing fails: a failed SELECT is reported as NOT_FOUND
\* (RepositoryNotFound.cfg).
SPECIFICATION Spec
CONSTANTS
  Threads = {t1, t2}
  Conns = {c1, c2}
  NoConn = NoConn
  Nil = Nil
  EmptyName = EmptyName
  alice = alice
  bob = bob
  Names <- MCNames
  Requests <- ReadRequests
  MaxUsers = 2
  MaxCount = 0
  RedisFaults = FALSE
  SqlFaults = FALSE
  Crashes = FALSE
SYMMETRY Symmetry
INVARIANTS UserReadAfterWrite ListsAreSnapshots
