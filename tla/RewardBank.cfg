\* A family, a foreign parent, two tasks; devices repeat sessions within and across batches.
CONSTANTS
  alice = alice
  bob = bob
  charlie = charlie
  zoe = zoe
  smith = smith
  jones = jones
  Users = {alice, bob, charlie, zoe}
  Families = {smith, jones}
  Stranger = Stranger
  NoHeaderCode = 403
  TaskIds = {t1, t2}
  Rewards = {0, 2}
  RoleOf <- TwoRole
  FamilyOf <- TwoFamily
  Sessions <- FourSessions
  Batches <- SomeBatches
SPECIFICATION Spec
SYMMETRY Names
INVARIANTS
  TypeOK
  LedgerProvable
  ApprovalsAudited
  SessionsAudited
  SpendingNeverOverdraws
  CutOffExact
  OnlyValidRecorded
  BalanceExplained
PROPERTIES
  OriginalResultKept
  ActsWithinFamily
  ViewsWithinFamily
  NoSessionDropped
