SPECIFICATION Spec
CONSTANTS
  PricePerDay = 2
  DefaultTrialBalance = 2
  DaySeconds = 1
  NsPerSecond = 1
  DurationWrap = 8
  IntWrap = 64
  NoUser = NoUser
  TgId = {alice}
  Uuid = {u1}
  Amount = {1, 2}
  MaxTime = 4
  MaxReceived = 3
  Faults = {}
INVARIANT BalanceIsReceipts
