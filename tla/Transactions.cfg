SPECIFICATION FairSpec
CONSTANTS
  u1 = u1
  NoUser = NoUser
  Nobody = Nobody
  TgId = {alice, bob}
  Uuid = {u1, u2}
  Process = {bot, checker}
  Row <- Rows
  Attempts = 2
INVARIANT TypeOK
PROPERTIES
  AtomicCalls
  EveryCallReturns
