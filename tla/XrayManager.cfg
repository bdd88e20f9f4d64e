SPECIFICATION FairSpec
CONSTANTS
  Uuid = {u1, u2}
  Goroutine = {bot, checker}
  Process = {"vpn-bot"}
  ProcessOf <- OneProcess
  Nobody = Nobody
  Torn = Torn
  Absent = Absent
  MaxBackups = 1
  MaxTime = 1
  Faults = {"fs", "reload", "crash"}
INVARIANTS
  TypeOK
  FileIsWhole
  ReplacedIsBackedUp
PROPERTIES
  ClientsSpec
  EveryCallReturns
