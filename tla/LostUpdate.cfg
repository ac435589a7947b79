\* Two tasks are approved at the same time.
CONSTANTS
  alice = alice
  bob = bob
  smith = smith
  t1 = t1
  t2 = t2
  t3 = t3
  Users = {alice, bob}
  Families = {smith}
  Stranger = Stranger
  NoHeaderCode = 403
  TaskIds = {t1, t2, t3}
  Rewards = {2}
  RoleOf <- MCRole
  FamilyOf <- MCFamily
  Sessions <- MCSessions
  Workers = {w1, w2}
  Nobody = Nobody
  Databases <- BothDoneDatabase
  Menu <- ApprovalMenu
  MaxInteger = 100
  MaxRequests = 2
SPECIFICATION Spec
INVARIANTS
  LedgerProvable
