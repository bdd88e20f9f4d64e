SPECIFICATION Spec
CONSTANTS
  PricePerDay = 2
  DefaultTrialBalance = 2
  DaySeconds = 1
  NsPerSecond = 1
  DurationWrap = 2
  IntWrap = 64
  NoUser = NoUser
  TgId = {alice, bob}
  Uuid = {u1, u2}
  Amount = {2, 4}
  MaxTime = 3
  MaxReceived = 4
  Faults = {"db", "xray", "reload", "crash"}
SYMMETRY Symmetry
INVARIANTS
  TypeOK
  KeysStayValid
  BalanceNeverExceedsReceipts
  ActiveIsConfigured
  ActiveHasAccess
PROPERTY LifecycleSpec
