\* --mysql-pool-size=0
SPECIFICATION Spec
CONSTANTS
  Threads = {t1}
  Conns = {c1}
  PoolSize = 0
  NoThread = NoThread
  NoConn = NoConn
INVARIANT TableReady
