\* Two threads share one connection of the pool and the one RedisClient.  One
\* link breaks while the process runs; MySQL may refuse statements.
SPECIFICATION ServerFairSpec
CONSTANTS
  Threads = {t1, t2}
  Conns = {c1}
  Calls = {1, 2, 3}
  NoCommand = NoCommand
  NoReply = NoReply
  NoConn = NoConn
  Ops <- MCOps
  t1 = t1
  t2 = t2
  MaxUnsent = 2
  MaxInFlight = 2
  SqlFaults = TRUE
  MaxKeys = 2
  MaxBreaks = 1
INVARIANTS OwnReply RunsOnce RightField NeverOutOfSync Equipped
PROPERTIES SomeRpcEnds LendsByTheRules
