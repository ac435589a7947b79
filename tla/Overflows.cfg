\* A free client, one request at a time, with rewards that overflow.
CONSTANTS
  alice = alice
  bob = bob
  charlie = charlie
  smith = smith
  t1 = t1
  t2 = t2
  t3 = t3
  Users = {alice, bob, charlie}
  Families = {smith}
  Stranger = Stranger
  NoHeaderCode = 403
  TaskIds = {t1, t2, t3}
  Rewards <- ScriptRewards
  RoleOf <- SeededRole
  FamilyOf <- SeededFamily
  Sessions <- ScriptSessions
  Batches <- ScriptBatches
  Workers = {w1, w2}
  Nobody = Nobody
  Databases <- OneDatabase
  Scripts <- OverflowScripts
  Menu <- ScriptMenu
  MaxInteger = 3
  MaxRequests = 200
SPECIFICATION ClientSpec
SYMMETRY Threads
PROPERTIES
  FailuresTraced
