\* The scripts of the repository and a free client, one request at a time.
CONSTANTS
  alice = alice
  bob = bob
  charlie = charlie
  smith = smith
  t1 = t1
  t2 = t2
  t3 = t3
  Users = {alice, bob, charlie}
  Families = {smith}
  Stranger = Stranger
  NoHeaderCode = 403
  TaskIds = {t1, t2, t3}
  Rewards <- ScriptRewards
  RoleOf <- SeededRole
  FamilyOf <- SeededFamily
  Sessions <- ScriptSessions
  Batches <- ScriptBatches
  Workers = {w1, w2}
  Nobody = Nobody
  Databases <- OneDatabase
  Scripts <- AllScripts
  Menu <- ScriptMenu
  MaxInteger = 1000
  MaxRequests = 200
SPECIFICATION ClientSpec
SYMMETRY Threads
INVARIANTS
  AsScripted
  NothingLeftOpen
PROPERTIES
  Implements
