SPECIFICATION Spec
CONSTANTS
  d1 = d1
  d2 = d2
  d3 = d3
  Device = {d1, d2, d3}
  UserOf <- Owners
  BucketOf <- OneBucket
  TelegramId <- TelegramIds
  Devices = 1
  DeviceTTL = 3
  ReconnectWindow = 1
  MobileWindow = 2
  MaxTime = 5
  MaxConnections = 3
  MaxCrashes = 0
  Faults = {}
INVARIANT CleanIsPersisted
