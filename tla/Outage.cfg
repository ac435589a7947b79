\* Approvals and balance views, then silence.
CONSTANTS
  alice = alice
  bob = bob
  smith = smith
  t1 = t1
  t2 = t2
  t3 = t3
  Users = {alice, bob}
  Families = {smith}
  Stranger = Stranger
  NoHeaderCode = 403
  TaskIds = {t1, t2, t3}
  Rewards = {2}
  RoleOf <- MCRole
  FamilyOf <- MCFamily
  Sessions <- MCSessions
  Workers = {w1, w2}
  Nobody = Nobody
  Databases <- EarnedDatabase
  Menu <- ApproveAndView
  MaxInteger = 100
  MaxRequests = 3
SPECIFICATION Spec
INVARIANTS
  IdleServerServes
