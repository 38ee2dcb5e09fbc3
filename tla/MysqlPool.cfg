\* Five handlers, three connections: three may hold and two may sleep, so that one
\* wakeup has to do for one connection.  No symmetry, as ConnLender is checked
\* with its liveness part.
SPECIFICATION FairSpec
CONSTANTS
  Threads = {t1, t2, t3, t4, t5}
  Conns = {c1, c2, c3}
  PoolSize = 3
  NoThread = NoThread
  NoConn = NoConn
INVARIANTS TypeOK Exclusion NothingLeaks NoEmptyPop NoLostWakeup TableReady
PROPERTY ImplementsLender
