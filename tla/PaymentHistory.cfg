SPECIFICATION Spec
CONSTANTS
  PricePerDay = 3
  DefaultTrialBalance = 7
  DaySeconds = 2
  NsPerSecond = 3
  DurationWrap = 20
  IntWrap = 16
  Amount = {1, 2, 3, 5, 6, 9, 12}
  MaxTime = 8
  MaxBalance = 31
INVARIANTS
  TypeOK
  EndIsExact
  InstalmentsAddUp
PROPERTIES
  PayingActivates
  PaidTimeIsKept
CHECK_DEADLOCK FALSE
