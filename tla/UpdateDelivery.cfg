SPECIFICATION FairDeliverySpec
CONSTANTS
  PricePerDay = 2
  DefaultTrialBalance = 2
  DaySeconds = 1
  NsPerSecond = 1
  DurationWrap = 8
  IntWrap = 64
  NoUser = NoUser
  TgId = {alice}
  Uuid = {u1, u2}
  Amount = {2}
  MaxTime = 3
  MaxReceived = 20
  Faults = {"db", "xray", "crash"}
  Buffer = 2
  MaxUpdates = 3
  MaxStarts = 1
  MaxCrashes = 1
INVARIANTS
  DeliveryTypeOK
  CreditsNeedFlows
  LossFitsChannel
  ClientsHaveOwners
PROPERTY EveryUpdateIsTakenOrLost
