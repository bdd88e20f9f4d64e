SPECIFICATION FairSpec
CONSTANTS
  PricePerDay = 2
  DefaultTrialBalance = 2
  DaySeconds = 1
  NsPerSecond = 1
  DurationWrap = 8
  IntWrap = 64
  NoUser = NoUser
  TgId = {alice, bob}
  Uuid = {u1, u2}
  Amount = {2}
  MaxTime = 3
  MaxReceived = 2
  Faults = {"db", "crash"}
PROPERTY ExpiredIsSwept
