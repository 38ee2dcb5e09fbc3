\* Two requests through two gateways to a server that may fail and restart: both
\* may create, or one may get the user that the other has created, each through
\* its own gateway or after the other died.
SPECIFICATION FairDeploymentSpec
CONSTANTS
  Gateways = {g1, g2}
  Requests = {r1, r2}
  Threads = {t1}
  alice = alice
  EmptyName = EmptyName
  NoName = NoName
  Structured = Structured
  Nil = Nil
  Names <- MCNames
  Forms <- MCForms
  Limits = {1}
  Offsets = {0}
  Faults = TRUE
  Crashes = TRUE
INVARIANTS TypeOK CreatedIsStored CreatedAtMostOnce RefusedLeavesNothing KnownUserFound
PROPERTIES EveryRequestAnswered ImplementsGateway
