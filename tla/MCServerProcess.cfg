SPECIFICATION FairSpec
CONSTANTS
  r1 = r1
  r2 = r2
  Nobody = Nobody
  Replicas = {r1, r2}
  Drivers = {"postgres", "memory"}
  Migrations = 2
  MaxRequests = 2
  MaxCrashes = 1
INVARIANTS
  TypeOK
  ReadyIsAble
  PoolOutlivesUsers
PROPERTIES
  StopsOnSignal
