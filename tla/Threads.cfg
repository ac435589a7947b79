\* Three threads, every kind of request.
CONSTANTS
  alice = alice
  bob = bob
  smith = smith
  t1 = t1
  t2 = t2
  t3 = t3
  Users = {alice, bob}
  Families = {smith}
  Stranger = Stranger
  NoHeaderCode = 403
  TaskIds = {t1, t2, t3}
  Rewards = {2, 9}
  RoleOf <- MCRole
  FamilyOf <- MCFamily
  Sessions <- MCSessions
  Workers = {w1, w2, w3}
  Nobody = Nobody
  Databases <- SomeDatabases
  Menu <- FullMenu
  MaxInteger = 4
  MaxRequests = 3
SPECIFICATION Spec
SYMMETRY Threads
INVARIANTS
  TypeOK
  Isolation
  OneDebitPerSession
  RefusalsWriteNothing
  SuccessIsComplete
  OnlyErrorsHoldLocks
  ErrorFreeIsAudited
