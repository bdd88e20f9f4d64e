------------------------- MODULE UserServiceProofs -------------------------
(***************************************************************************)
(* Theorems about UserService: for any subscribers, amounts, prices and    *)
(* faults, and with no bound on the clock or on the totals but being       *)
(* natural numbers.                                                        *)
(***************************************************************************)
EXTENDS UserService, SubscriptionProofs

(* The amounts that reach ExtendSubscription; of a payment's, nothing is known. *)
LEMMA AmountTypes ==
  /\ DefaultTrialBalance \in Nat /\ DefaultTrialBalance >= PricePerDay
  /\ AmountFits(DefaultTrialBalance)
  /\ \A amount \in Amount : amount \in Nat \ {0}
  BY PricingAssumption, ServiceAssumption, TrialFits
  DEF PricingAssumption, ServiceAssumption, TrialFits

LEMMA AddBalanceBound ==
  ASSUME NEW balance \in Int, NEW amount \in Nat
  PROVE  /\ AddBalance(balance, amount) \in Int
         /\ AddBalance(balance, amount) <= balance + amount
  BY PricingAssumption DEF PricingAssumption, AddBalance

(* A trial row is a row, and has an end. *)
LEMMA TrialRowType ==
  ASSUME now \in Nat, NEW uuid \in Uuid
  PROVE  TrialRow(uuid) \in UserRow /\ TrialRow(uuid).subUntil > 0
<1>1. /\ ExtendSubscription(0, now, DefaultTrialBalance, PricePerDay) \in Int
      /\ ExtendSubscription(0, now, DefaultTrialBalance, PricePerDay) > 0
  BY AmountTypes, ExtendKeepsTime
<1> QED  BY <1>1, AmountTypes DEF TrialRow, UserRow, Status

(* A payment's row is a row, whose end, if the amount fits, is not before the
   old one. *)
LEMMA PaidRowType ==
  ASSUME now \in Nat, NEW row \in UserRow, NEW amount \in Amount
  PROVE  /\ PaidRow(row, amount) \in UserRow
         /\ PaidRow(row, amount).balance <= row.balance + amount
         /\ AmountFits(amount) => PaidRow(row, amount).subUntil >= row.subUntil
         /\ PaidRow(row, amount).status = "active"
<1>1. amount \in Nat /\ row.balance \in Int /\ row.subUntil \in Int
  BY AmountTypes DEF UserRow
<1>2. ExtendSubscription(row.subUntil, now, amount, PricePerDay) \in Int
  BY <1>1, ExtendInInt
<1>3. AmountFits(amount) =>
        ExtendSubscription(row.subUntil, now, amount, PricePerDay) >= row.subUntil
  BY <1>1, ExtendKeepsTime
<1> QED  BY <1>1, <1>2, <1>3, AddBalanceBound DEF PaidRow, UserRow, Status

LEMMA ExpiredRowType ==
  ASSUME NEW row \in UserRow
  PROVE  /\ ExpiredRow(row) \in UserRow
         /\ ExpiredRow(row).balance = row.balance
         /\ ExpiredRow(row).subUntil = 0
         /\ ExpiredRow(row).status = "inactive"
<1> DEFINE ended == [row EXCEPT !.subUntil = 0]
<1>1. /\ ended \in UserRow
      /\ ended.balance = row.balance /\ ended.subUntil = 0
  BY DEF UserRow
<1>2. ExpiredRow(row) = [ended EXCEPT !.status = "inactive"]
  BY DEF ExpiredRow
<1> HIDE DEF ended
<1> QED  BY <1>1, <1>2 DEF UserRow, Status

(* UpdateUser keeps the table a table, and the uuid in it. *)
LEMMA UpdateUserType ==
  ASSUME NEW table \in UserTable, NEW tg \in TgId, NEW row \in UserRow
  PROVE  /\ UpdateUser(table, tg, row) \in UserTable
         /\ \A other \in TgId :
              /\ Known(UpdateUser(table, tg, row), other) <=> Known(table, other)
              /\ other # tg => UpdateUser(table, tg, row)[other] = table[other]
         /\ Known(table, tg) =>
              /\ UpdateUser(table, tg, row)[tg].uuid = table[tg].uuid
              /\ UpdateUser(table, tg, row)[tg].balance = row.balance
              /\ UpdateUser(table, tg, row)[tg].subUntil = row.subUntil
              /\ UpdateUser(table, tg, row)[tg].status = row.status
<1>1. CASE ~Known(table, tg)
  BY <1>1 DEF UpdateUser
<1>2. CASE Known(table, tg)
  <2> DEFINE new == [row EXCEPT !.uuid = table[tg].uuid]
  <2>1. table[tg] \in UserRow
    BY <1>2 DEF UserTable, Known
  <2>2. /\ new \in UserRow
        /\ new.uuid = table[tg].uuid
        /\ new.balance = row.balance
        /\ new.subUntil = row.subUntil
        /\ new.status = row.status
    BY <2>1 DEF UserRow
  <2>3. UpdateUser(table, tg, row) = [table EXCEPT ![tg] = new]
    BY <1>2 DEF UpdateUser
  <2>4. new # NoUser
    BY <2>2, StorageAssumption DEF StorageAssumption
  <2> HIDE DEF new
  <2> QED  BY <1>2, <2>2, <2>3, <2>4 DEF UserTable, Known
<1> QED  BY <1>1, <1>2

(* Facts about the handler records that the types below are made of. *)
LEMMA BotTypes ==
  /\ Idle \in BotStates
  /\ \A pc \in {"provision", "compensate", "commit", "grant"},
        tg \in TgId, row \in UserRow, amount \in Amount \cup {0} :
       /\ Handling(pc, tg, row, amount) \in BotStates
       /\ Handling(pc, tg, row, amount) # Idle
  /\ \A b \in BotStates : b.pc = "idle" => b = Idle
  BY DEF BotStates, Idle, Handling

(* A handler at work has its locals, and keeps them when it moves on. *)
LEMMA BotMoves ==
  ASSUME bot \in BotStates, bot.pc # "idle",
         NEW pc \in {"provision", "compensate", "commit", "grant"}
  PROVE  /\ bot.tg \in TgId
         /\ bot.row \in UserRow /\ bot.row.uuid \in Uuid
         /\ bot.amount \in Nat
         /\ [bot EXCEPT !.pc = pc] \in BotStates
<1>1. bot # Idle
  BY DEF Idle
<1>2. bot \in [pc : {"provision", "compensate", "commit", "grant"},
               tg : TgId, row : UserRow, amount : Amount \cup {0}]
  BY <1>1 DEF BotStates
<1>3. bot.row \in UserRow /\ bot.tg \in TgId /\ bot.amount \in Amount \cup {0}
  BY <1>2
<1>4. [bot EXCEPT !.pc = pc] \in BotStates
  BY <1>2 DEF BotStates
<1> QED  BY <1>3, <1>4, AmountTypes DEF UserRow

LEMMA ListedTypes ==
  ASSUME users \in UserTable
  PROVE  /\ Nobody \in UserTable
         /\ ListExpired(users, now) \in UserTable
  BY DEF UserTable, Nobody, ListExpired, Expired, Known

LEMMA XrayTypes ==
  ASSUME XrayTypeOK, NEW uuid \in Uuid, NEW ok \in BOOLEAN,
         \/ AddClient(uuid, ok) \/ RemoveClient(uuid, ok)
         \/ AddClientCutOff(uuid) \/ RemoveClientCutOff(uuid)
  PROVE  XrayTypeOK'
  BY DEF XrayTypeOK, AddClient, RemoveClient, ReplaceConfig, FailsUntouched, xrayVars,
         AddClientCutOff, RemoveClientCutOff, CutOff

LEMMA UnservedTypes ==
  ASSUME unserved \subseteq TgId, NEW ok, NEW added \in SUBSET TgId, RestartEnds(ok, added)
  PROVE  unserved' \subseteq TgId
  BY DEF RestartEnds

LEMMA ProvisionedTypes ==
  ASSUME {hurt, unserved} \subseteq SUBSET TgId, NEW tg \in TgId, NEW ok, Provisioned(tg, ok)
  PROVE  {hurt, unserved}' \subseteq SUBSET TgId
  BY UnservedTypes DEF Provisioned

(* Where a crash may fall, and what it leaves behind. *)
LEMMA CrashLeaves ==
  ASSUME TypeOK, Crash
  PROVE  /\ UNCHANGED <<now, users, pending, issued, shown, received, wrapped>>
         /\ bot' = Idle /\ listed' = Nobody /\ current' = NoUser
         /\ hurt \cup ({bot.tg, current} \ {NoUser}) \subseteq hurt'
         /\ {hurt, unserved}' \subseteq SUBSET TgId
         /\ XrayTypeOK'
         /\ \/ UNCHANGED <<config, running, unserved>>
            \/ \E tg \in TgId :
                 /\ bot.pc \in {"provision", "grant"} /\ bot.tg = tg
                 /\ config' = config \cup {bot.row.uuid} /\ bot.row.uuid \in Uuid
                 /\ RestartEnds(running' = config', {tg})
            \/ \E tg \in TgId :
                 /\ listed[tg] # NoUser /\ tg \in hurt'
                 /\ config' = config \ {listed[tg].uuid}
                 /\ RestartEnds(running' = config', {})
<1>1. /\ bot \in BotStates /\ listed \in UserTable /\ XrayTypeOK
      /\ bot.tg \in TgId \cup {NoUser}
      /\ current \in TgId \cup {NoUser}
      /\ hurt \subseteq TgId /\ unserved \subseteq TgId
  BY BotTypes DEF TypeOK, BotStates, Idle
<1>2. /\ UNCHANGED <<now, users, pending, issued, shown, received, wrapped>>
      /\ bot' = Idle /\ listed' = Nobody /\ current' = NoUser
  BY DEF Crash, historyVars
<1>3. CASE /\ UNCHANGED <<config, running, unserved>>
           /\ hurt' = hurt \cup ({bot.tg, current} \ {NoUser})
  BY <1>1, <1>2, <1>3 DEF XrayTypeOK
<1>4. ASSUME NEW tg \in TgId, DiesInXray(tg),
             hurt' = hurt \cup ({bot.tg, tg, current} \ {NoUser})
      PROVE  /\ hurt \cup ({bot.tg, current} \ {NoUser}) \subseteq hurt'
             /\ {hurt, unserved}' \subseteq SUBSET TgId
             /\ XrayTypeOK'
             /\ \/ /\ bot.pc \in {"provision", "grant"} /\ bot.tg = tg
                   /\ config' = config \cup {bot.row.uuid} /\ bot.row.uuid \in Uuid
                   /\ RestartEnds(running' = config', {tg})
                \/ /\ listed[tg] # NoUser /\ tg \in hurt'
                   /\ config' = config \ {listed[tg].uuid}
                   /\ RestartEnds(running' = config', {})
  <2>1. tg \in hurt' /\ hurt' \subseteq TgId
    BY <1>1, <1>4, StorageAssumption DEF StorageAssumption
  <2>2. CASE /\ bot.pc \in {"provision", "grant"} /\ bot.tg = tg
             /\ AddClientCutOff(bot.row.uuid)
             /\ RestartEnds(running' = config', {tg})
    <3>1. bot.row.uuid \in Uuid
      BY <1>1, <2>2, BotMoves
    <3>2. XrayTypeOK' /\ config' = config \cup {bot.row.uuid}
      BY <1>1, <2>2, <3>1, XrayTypes DEF AddClientCutOff, CutOff
    <3>3. unserved' \subseteq TgId
      BY <1>1, <2>2, UnservedTypes
    <3> QED  BY <1>4, <2>1, <2>2, <3>1, <3>2, <3>3
  <2>3. CASE /\ current = NoUser /\ listed[tg] # NoUser
             /\ RemoveClientCutOff(listed[tg].uuid)
             /\ RestartEnds(running' = config', {})
    <3>1. listed[tg].uuid \in Uuid
      BY <1>1, <2>3 DEF UserTable, UserRow
    <3>2. XrayTypeOK' /\ config' = config \ {listed[tg].uuid}
      BY <1>1, <2>3, <3>1, XrayTypes DEF RemoveClientCutOff, CutOff
    <3>3. unserved' \subseteq TgId
      BY <1>1, <2>3, UnservedTypes
    <3> QED  BY <1>4, <2>1, <2>3, <3>2, <3>3
  <2> QED  BY <1>4, <2>2, <2>3 DEF DiesInXray
<1> QED  BY <1>1, <1>2, <1>3, <1>4 DEF Crash

-----------------------------------------------------------------------------

LEMMA TypeInitially == Init => TypeOK
  BY BotTypes, StorageAssumption
  DEF Init, TypeOK, Nobody, UserTable, XrayInit, XrayTypeOK, StorageAssumption

LEMMA TypeStep ==
  ASSUME TypeOK, [Next]_vars
  PROVE  TypeOK'
<1> USE DEF TypeOK
<1>1. ASSUME NEW tg \in TgId, RegisterUser(tg)
      PROVE  TypeOK'
  <2>1. PICK uuid \in Uuid \ issued :
          /\ users' = CreateUser(users, tg, TrialRow(uuid))
          /\ issued' = issued \cup {uuid}
          /\ bot' = Handling("provision", tg, TrialRow(uuid), 0)
    BY <1>1 DEF RegisterUser
  <2>2. TrialRow(uuid) \in UserRow
    BY TrialRowType
  <2>3. users' \in UserTable
    BY <2>1, <2>2 DEF CreateUser, UserTable
  <2>4. bot' \in BotStates
    BY <2>1, <2>2, BotTypes
  <2>5. XrayTypeOK'
    BY <1>1 DEF RegisterUser, XrayTypeOK
  <2> QED  BY <1>1, <2>1, <2>3, <2>4, <2>5 DEF RegisterUser, sweepVars, accessVars
<1>2. CASE ProvisionClient
  <2>1. PICK ok \in BOOLEAN :
          /\ AddClient(bot.row.uuid, ok)
          /\ Provisioned(bot.tg, ok)
          /\ bot' = IF ok THEN Idle ELSE [bot EXCEPT !.pc = "compensate"]
    BY <1>2 DEF ProvisionClient
  <2>2. bot.row.uuid \in Uuid
    BY <1>2, BotMoves DEF ProvisionClient
  <2>3. XrayTypeOK'
    BY <2>1, <2>2, XrayTypes
  <2>4. bot' \in BotStates
    BY <1>2, <2>1, BotTypes, BotMoves DEF ProvisionClient
  <2>5. {hurt, unserved}' \subseteq SUBSET TgId
    BY <1>2, <2>1, BotMoves, ProvisionedTypes DEF ProvisionClient
  <2> QED  BY <1>2, <2>3, <2>4, <2>5 DEF ProvisionClient, sweepVars, historyVars
<1>3. CASE CompensateRegistration
  <2>1. users' \in UserTable
    BY <1>3 DEF CompensateRegistration, DeleteUser, UserTable
  <2>2. XrayTypeOK'
    BY <1>3 DEF CompensateRegistration, XrayTypeOK
  <2> QED  BY <1>3, <2>1, <2>2, BotTypes
           DEF CompensateRegistration, sweepVars, historyVars, accessVars
<1>4. ASSUME NEW tg \in TgId, GenerateVPNKey(tg)
      PROVE  TypeOK'
  <2>1. users[tg].uuid \in Uuid
    BY <1>4 DEF GenerateVPNKey, Known, UserTable, UserRow
  <2>2. XrayTypeOK'
    BY <1>4 DEF GenerateVPNKey, storeVars, XrayTypeOK
  <2> QED  BY <1>4, <2>1, <2>2 DEF GenerateVPNKey, storeVars, sweepVars, accessVars
<1>5. ASSUME NEW tg \in TgId, StartPayment(tg)
      PROVE  TypeOK'
  <2>1. XrayTypeOK'
    BY <1>5 DEF StartPayment, XrayTypeOK
  <2> QED  BY <1>5, <2>1
           DEF StartPayment, CreatePendingPayment, sweepVars, historyVars, accessVars
<1>6. ASSUME NEW tg \in TgId, NEW amount \in Amount, CompletePayment(tg, amount)
      PROVE  TypeOK'
  <2>1. users[tg] \in UserRow
    BY <1>6 DEF CompletePayment, Known, UserTable
  <2>2. bot' \in BotStates
    BY <1>6, <2>1, PaidRowType, BotTypes DEF CompletePayment
  <2>3. XrayTypeOK'
    BY <1>6 DEF CompletePayment, storeVars, XrayTypeOK
  <2> QED  BY <1>6, <2>2, <2>3
           DEF CompletePayment, storeVars, sweepVars, historyVars, accessVars
<1>7. CASE CommitPayment
  <2>1. /\ bot.tg \in TgId /\ bot.row \in UserRow
        /\ bot.amount \in Nat
    BY <1>7, BotMoves DEF CommitPayment
  <2>2. users' \in UserTable
    BY <1>7, <2>1, UpdateUserType DEF CommitPayment
  <2>3. bot' \in BotStates
    BY <1>7, BotTypes, BotMoves DEF CommitPayment
  <2>4. /\ received' \in [TgId -> Nat] /\ wrapped' \subseteq TgId
        /\ pending' \subseteq TgId
    BY <1>7, <2>1 DEF CommitPayment, Receipt, DeletePendingPayment
  <2>5. XrayTypeOK'
    BY <1>7 DEF CommitPayment, XrayTypeOK
  <2> QED  BY <1>7, <2>2, <2>3, <2>4, <2>5 DEF CommitPayment, sweepVars, accessVars
<1>8. CASE GrantAccess
  <2>1. bot.row.uuid \in Uuid
    BY <1>8, BotMoves DEF GrantAccess
  <2>2. XrayTypeOK'
    BY <1>8, <2>1, XrayTypes DEF GrantAccess
  <2>3. {hurt, unserved}' \subseteq SUBSET TgId
    BY <1>8, BotMoves, ProvisionedTypes DEF GrantAccess
  <2> QED  BY <1>8, <2>2, <2>3, BotTypes DEF GrantAccess, sweepVars, historyVars
<1>9. CASE ListExpiredUsers
  <2>1. XrayTypeOK'
    BY <1>9 DEF ListExpiredUsers, storeVars, XrayTypeOK
  <2>2. ListExpired(users, now) \in UserTable
    BY ListedTypes
  <2>3. current # NoUser => listed'[current] # NoUser
    BY <1>9, StorageAssumption
    DEF ListExpiredUsers, SweepIdle, Nobody
  <2> QED  BY <1>9, <2>1, <2>2, <2>3 DEF ListExpiredUsers, storeVars, historyVars, accessVars
<1>10. ASSUME NEW tg \in TgId, DisableClient(tg)
       PROVE  TypeOK'
  <2>1. listed[tg].uuid \in Uuid
    BY <1>10 DEF DisableClient, UserTable, UserRow
  <2>2. XrayTypeOK'
    BY <1>10, <2>1, XrayTypes DEF DisableClient
  <2>3. unserved' \subseteq TgId
    BY <1>10, UnservedTypes DEF DisableClient
  <2> QED  BY <1>10, <2>2, <2>3 DEF DisableClient, historyVars
<1>11. ASSUME NEW tg \in TgId, RecordExpiry(tg)
       PROVE  TypeOK'
  <2>1. listed[tg] \in UserRow
    BY <1>11, StorageAssumption DEF RecordExpiry, UserTable, StorageAssumption
  <2>2. users' \in UserTable
    BY <1>11, <2>1, ExpiredRowType, UpdateUserType DEF RecordExpiry
  <2>3. XrayTypeOK'
    BY <1>11 DEF RecordExpiry, XrayTypeOK
  <2> QED  BY <1>11, <2>2, <2>3
           DEF RecordExpiry, NextListed, UserTable, historyVars, accessVars
<1>12. CASE RecordExpiryFails
  <2>1. XrayTypeOK'
    BY <1>12 DEF RecordExpiryFails, storeVars, XrayTypeOK
  <2> QED  BY <1>12, <2>1
           DEF RecordExpiryFails, NextListed, UserTable, storeVars, historyVars
<1>13. CASE Crash
  BY <1>13, BotTypes, ListedTypes, CrashLeaves
<1>14. CASE Tick
  <2>1. XrayTypeOK'
    BY <1>14 DEF Tick, storeVars, XrayTypeOK
  <2> QED  BY <1>14, <2>1 DEF Tick, storeVars, sweepVars, historyVars, accessVars
<1>15. CASE UNCHANGED vars
  <2>1. XrayTypeOK'
    BY <1>15 DEF vars, storeVars, XrayTypeOK
  <2> QED  BY <1>15, <2>1 DEF vars, storeVars, sweepVars, historyVars, accessVars
<1> QED
  BY <1>1, <1>2, <1>3, <1>4, <1>5, <1>6, <1>7, <1>8, <1>9, <1>10, <1>11,
     <1>12, <1>13, <1>14, <1>15
  DEF Next, BotStep, SweepStep

(***************************************************************************)
(* Every reachable state is well typed.                                    *)
(***************************************************************************)
THEOREM TypeCorrect == Spec => []TypeOK
<1>1. TypeOK /\ [Next]_vars => TypeOK'
  BY TypeStep
<1> QED  BY <1>1, TypeInitially, PTL DEF Spec

-----------------------------------------------------------------------------
(***************************************************************************)
(* Balances.  What the invariant needs beside the stored balances is that  *)
(* the copies of rows that will be written back, the checker's and the bot *)
(* loop's, are honest too.                                                 *)
(***************************************************************************)
Total(tg) == DefaultTrialBalance + received[tg]

MoneyInv ==
  /\ BalanceNeverExceedsReceipts
  /\ \A tg \in TgId : listed[tg] # NoUser => listed[tg].balance <= Total(tg)
  /\ bot.pc = "commit" => bot.row.balance <= Total(bot.tg) + bot.amount

LEMMA MoneyInitially == Init => MoneyInv
  BY DEF Init, MoneyInv, BalanceNeverExceedsReceipts, Nobody, Known, Idle

LEMMA MoneyStep ==
  ASSUME TypeOK, MoneyInv, [Next]_vars
  PROVE  MoneyInv'
<1> USE DEF MoneyInv, BalanceNeverExceedsReceipts, Total
<1>0. DefaultTrialBalance \in Nat /\ \A tg \in TgId : received[tg] \in Nat
  BY AmountTypes DEF TypeOK
<1>1. ASSUME NEW tg \in TgId, RegisterUser(tg)
      PROVE  MoneyInv'
  <2>1. PICK uuid \in Uuid \ issued :
          /\ users' = [users EXCEPT ![tg] = TrialRow(uuid)]
          /\ bot' = Handling("provision", tg, TrialRow(uuid), 0)
    BY <1>1 DEF RegisterUser, CreateUser
  <2>2. TrialRow(uuid).balance = DefaultTrialBalance
    BY DEF TrialRow
  <2>3. UNCHANGED <<listed, received>> /\ bot'.pc # "commit"
    BY <1>1, <2>1 DEF RegisterUser, sweepVars, Handling
  <2> QED  BY <1>0, <2>1, <2>2, <2>3 DEF TypeOK, UserTable, Known
<1>2. CASE CompensateRegistration
  <2>1. \A tg \in TgId : users'[tg] = NoUser \/ users'[tg] = users[tg]
    BY <1>2 DEF CompensateRegistration, DeleteUser, TypeOK, UserTable
  <2>2. UNCHANGED <<listed, received>> /\ bot'.pc # "commit"
    BY <1>2 DEF CompensateRegistration, sweepVars, historyVars, Idle
  <2> QED  BY <2>1, <2>2 DEF Known
<1>3. ASSUME NEW tg \in TgId, NEW amount \in Amount, CompletePayment(tg, amount)
      PROVE  MoneyInv'
  <2>1. users[tg] \in UserRow /\ users[tg].balance <= Total(tg)
    BY <1>3 DEF CompletePayment, Known, TypeOK, UserTable
  <2>2. users[tg].balance \in Int /\ amount \in Nat
    BY <2>1, AmountTypes DEF UserRow
  <2>3. /\ PaidRow(users[tg], amount).balance \in Int
        /\ PaidRow(users[tg], amount).balance <= users[tg].balance + amount
    BY <2>1, PaidRowType DEF UserRow, TypeOK
  <2>4. /\ bot'.tg = tg /\ bot'.amount = amount
        /\ bot'.row = PaidRow(users[tg], amount)
    BY <1>3 DEF CompletePayment, Handling
  <2>5. bot'.row.balance <= Total(tg) + amount
    BY <1>0, <2>1, <2>2, <2>3, <2>4
  <2> QED  BY <1>3, <2>4, <2>5
           DEF CompletePayment, storeVars, sweepVars, historyVars
<1>4. CASE CommitPayment
  <2>1. /\ bot.tg \in TgId /\ bot.row \in UserRow /\ bot.amount \in Nat
        /\ bot.row.balance \in Int
        /\ bot.row.balance <= Total(bot.tg) + bot.amount
    BY <1>4, BotMoves DEF CommitPayment, TypeOK, UserRow
  <2>2. bot'.pc # "commit" /\ listed' = listed
    BY <1>4, <2>1 DEF CommitPayment, sweepVars, Idle, TypeOK, BotStates
  <2>3. CASE UNCHANGED <<users, received>>
    BY <2>2, <2>3 DEF Known
  <2>4. CASE /\ users' = UpdateUser(users, bot.tg, bot.row)
             /\ received' = [received EXCEPT ![bot.tg] = @ + bot.amount]
    <3>1. \A tg \in TgId : received'[tg] \in Nat /\ received'[tg] >= received[tg]
      BY <1>0, <2>1, <2>4 DEF TypeOK
    <3>2. received'[bot.tg] = received[bot.tg] + bot.amount
      BY <2>1, <2>4 DEF TypeOK
    <3>3. ASSUME NEW tg \in TgId, Known(users', tg)
          PROVE  users'[tg].balance <= DefaultTrialBalance + received'[tg]
      <4>1. Known(users, tg)
        BY <2>1, <2>4, <3>3, UpdateUserType DEF TypeOK
      <4>2. CASE tg = bot.tg
        <5>1. users'[tg].balance = bot.row.balance
          BY <2>1, <2>4, <4>1, <4>2, UpdateUserType DEF TypeOK
        <5> QED  BY <1>0, <2>1, <3>2, <4>2, <5>1
      <4>3. CASE tg # bot.tg
        <5>1. users'[tg] = users[tg]
          BY <2>1, <2>4, <4>3, UpdateUserType DEF TypeOK
        <5>2. users[tg].balance \in Int
          BY <4>1 DEF TypeOK, UserTable, UserRow, Known
        <5> QED  BY <1>0, <3>1, <4>1, <5>1, <5>2
      <4> QED  BY <4>2, <4>3
    <3>4. ASSUME NEW tg \in TgId, listed[tg] # NoUser
          PROVE  listed[tg].balance <= DefaultTrialBalance + received'[tg]
      <4>1. listed[tg].balance \in Int
        BY <3>4 DEF TypeOK, UserTable, UserRow
      <4> QED  BY <1>0, <3>1, <3>4, <4>1
    <3> QED  BY <2>2, <3>3, <3>4 DEF Known
  <2> QED  BY <1>4, <2>3, <2>4 DEF CommitPayment, Receipt
<1>5. CASE ListExpiredUsers
  <2>1. \A tg \in TgId : listed'[tg] # NoUser =>
          Known(users, tg) /\ listed'[tg] = users[tg]
    BY <1>5 DEF ListExpiredUsers, ListExpired, Expired
  <2>2. UNCHANGED <<users, bot, received>>
    BY <1>5 DEF ListExpiredUsers, storeVars, historyVars
  <2> QED  BY <2>1, <2>2 DEF Known
<1>6. ASSUME NEW tg \in TgId, RecordExpiry(tg)
      PROVE  MoneyInv'
  <2>1. listed[tg] \in UserRow /\ listed[tg].balance <= Total(tg)
    BY <1>6, StorageAssumption DEF RecordExpiry, TypeOK, UserTable, StorageAssumption
  <2>2. users' = UpdateUser(users, tg, ExpiredRow(listed[tg]))
    BY <1>6 DEF RecordExpiry
  <2>3. UNCHANGED <<bot, received>>
    BY <1>6 DEF RecordExpiry, historyVars
  <2>4. \A other \in TgId : listed'[other] = NoUser \/ listed'[other] = listed[other]
    BY <1>6 DEF RecordExpiry, NextListed, TypeOK, UserTable
  <2>5. /\ ExpiredRow(listed[tg]) \in UserRow
        /\ ExpiredRow(listed[tg]).balance = listed[tg].balance
    BY <2>1, ExpiredRowType
  <2>6. ASSUME NEW other \in TgId, Known(users', other)
        PROVE  users'[other].balance <= Total(other)
    <3>1. Known(users, other)
      BY <2>2, <2>5, <2>6, UpdateUserType DEF TypeOK
    <3>2. CASE other = tg
      BY <2>1, <2>2, <2>5, <3>1, <3>2, UpdateUserType DEF TypeOK
    <3>3. CASE other # tg
      BY <2>2, <2>5, <3>1, <3>3, UpdateUserType DEF TypeOK
    <3> QED  BY <3>2, <3>3
  <2> QED  BY <2>3, <2>4, <2>6 DEF Known
<1>7. CASE RecordExpiryFails
  <2>1. \A tg \in TgId : listed'[tg] = NoUser \/ listed'[tg] = listed[tg]
    BY <1>7 DEF RecordExpiryFails, NextListed, TypeOK, UserTable
  <2> QED  BY <1>7, <2>1 DEF RecordExpiryFails, storeVars, historyVars, Known
<1>8. CASE Crash
  BY <1>8, CrashLeaves DEF Nobody, Idle, Known
<1>9. ASSUME UNCHANGED <<users, listed, received>>, bot' = bot \/ bot'.pc # "commit"
      PROVE  MoneyInv'
  BY <1>9 DEF Known
<1>10. ASSUME ProvisionClient \/ GrantAccess PROVE MoneyInv'
  <2>1. bot'.pc # "commit"
    BY <1>10 DEF ProvisionClient, GrantAccess, Idle, TypeOK, BotStates
  <2> QED  BY <1>10, <1>9, <2>1 DEF ProvisionClient, GrantAccess, sweepVars, historyVars
<1>11. ASSUME NEW tg \in TgId,
              GenerateVPNKey(tg) \/ StartPayment(tg) \/ DisableClient(tg)
       PROVE  MoneyInv'
  BY <1>9, <1>11
  DEF GenerateVPNKey, StartPayment, DisableClient, storeVars, sweepVars, historyVars
<1>12. ASSUME Tick \/ UNCHANGED vars PROVE MoneyInv'
  BY <1>9, <1>12 DEF Tick, vars, storeVars, sweepVars, historyVars
<1> QED
  BY <1>1, <1>2, <1>3, <1>4, <1>5, <1>6, <1>7, <1>8, <1>10, <1>11, <1>12
  DEF Next, BotStep, SweepStep

(***************************************************************************)
(* No payment is ever credited twice, and none that was not committed.     *)
(***************************************************************************)
THEOREM NoDoubleCredit == Spec => []BalanceNeverExceedsReceipts
<1>1. TypeOK /\ MoneyInv /\ [Next]_vars => MoneyInv'
  BY MoneyStep
<1>2. MoneyInv => BalanceNeverExceedsReceipts
  BY DEF MoneyInv
<1> QED  BY <1>1, <1>2, MoneyInitially, TypeCorrect, PTL DEF Spec

-----------------------------------------------------------------------------
(***************************************************************************)
(* Keys.  A key in use survives because a row is only ever deleted by the  *)
(* compensation of its own registration, before which no key of it can     *)
(* have been sent: the bot loop is still inside that registration.         *)
(***************************************************************************)
KeyInv ==
  /\ KeysStayValid
  /\ bot.pc \in {"provision", "compensate"} =>
       /\ Known(users, bot.tg)
       /\ \A key \in shown : key[1] # bot.tg

(* The steps by what they do to the table of users. *)
LEMMA RowSteps ==
  ASSUME TypeOK, [Next]_vars
  PROVE  \/ \E tg \in TgId : RegisterUser(tg)
         \/ CompensateRegistration
         \/ \E tg \in TgId, row \in UserRow : users' = UpdateUser(users, tg, row)
         \/ UNCHANGED users
<1>1. CASE CommitPayment
  <2>1. bot.tg \in TgId /\ bot.row \in UserRow
    BY <1>1, BotMoves DEF CommitPayment, TypeOK
  <2> QED  BY <1>1, <2>1 DEF CommitPayment
<1>2. ASSUME NEW old \in TgId, RecordExpiry(old)
      PROVE  \E tg \in TgId, row \in UserRow : users' = UpdateUser(users, tg, row)
  <2>1. ExpiredRow(listed[old]) \in UserRow
    BY <1>2, ExpiredRowType, StorageAssumption
    DEF RecordExpiry, TypeOK, UserTable, StorageAssumption
  <2> QED  BY <1>2, <2>1 DEF RecordExpiry
<1>3. ASSUME NEW tg \in TgId,
             \/ GenerateVPNKey(tg) \/ StartPayment(tg) \/ DisableClient(tg)
             \/ \E amount \in Amount : CompletePayment(tg, amount)
      PROVE  UNCHANGED users
  BY <1>3 DEF GenerateVPNKey, StartPayment, DisableClient, CompletePayment, storeVars
<1>4. ASSUME \/ ProvisionClient \/ GrantAccess \/ ListExpiredUsers
             \/ RecordExpiryFails \/ Crash \/ Tick \/ UNCHANGED vars
      PROVE  UNCHANGED users
  BY <1>4 DEF ProvisionClient, GrantAccess, ListExpiredUsers, RecordExpiryFails,
              Crash, Tick, vars, storeVars
<1> QED  BY <1>1, <1>2, <1>3, <1>4 DEF Next, BotStep, SweepStep

(* Every step but that one keeps all rows, and no step changes a uuid. *)
LEMMA RowsAreKept ==
  ASSUME TypeOK, [Next]_vars, ~CompensateRegistration
  PROVE  \A tg \in TgId : Known(users, tg) =>
           Known(users', tg) /\ users'[tg].uuid = users[tg].uuid
<1>1. ASSUME NEW new \in TgId, RegisterUser(new)
      PROVE  \A tg \in TgId : Known(users, tg) => users'[tg] = users[tg]
  BY <1>1 DEF RegisterUser, CreateUser, TypeOK, UserTable
<1>2. ASSUME NEW old \in TgId, NEW row \in UserRow, users' = UpdateUser(users, old, row)
      PROVE  \A tg \in TgId : Known(users, tg) =>
               Known(users', tg) /\ users'[tg].uuid = users[tg].uuid
  BY <1>2, UpdateUserType DEF TypeOK
<1> QED  BY <1>1, <1>2, RowSteps DEF Known

LEMMA KeyInitially == Init => KeyInv
  BY DEF Init, KeyInv, KeysStayValid, Idle

LEMMA KeyStep ==
  ASSUME TypeOK, KeyInv, [Next]_vars
  PROVE  KeyInv'
<1>0. \A key \in shown : key[1] \in TgId
  BY DEF TypeOK
<1>1. ASSUME NEW tg \in TgId, RegisterUser(tg)
      PROVE  KeyInv'
  <2>1. ~CompensateRegistration /\ shown' = shown /\ ~Known(users, tg)
    BY <1>1 DEF RegisterUser, CompensateRegistration, Idle
  <2>2. KeysStayValid'
    BY <1>0, <2>1, RowsAreKept DEF KeyInv, KeysStayValid
  <2>3. \A key \in shown' : key[1] # tg
    BY <2>1 DEF KeyInv, KeysStayValid
  <2>4. PICK uuid \in Uuid \ issued :
          /\ users' = [users EXCEPT ![tg] = TrialRow(uuid)]
          /\ bot' = Handling("provision", tg, TrialRow(uuid), 0)
    BY <1>1 DEF RegisterUser, CreateUser
  <2>5. TrialRow(uuid) # NoUser
    BY TrialRowType, StorageAssumption DEF StorageAssumption, TypeOK
  <2>6. bot'.tg = tg /\ Known(users', tg)
    BY <2>4, <2>5 DEF Handling, Known, TypeOK, UserTable
  <2> QED  BY <2>2, <2>3, <2>6 DEF KeyInv, Known
<1>2. CASE CompensateRegistration
  <2>1. bot.tg \in TgId /\ \A key \in shown : key[1] # bot.tg
    BY <1>2, BotMoves DEF CompensateRegistration, TypeOK, KeyInv
  <2>2. \A tg \in TgId : tg # bot.tg => users'[tg] = users[tg]
    BY <1>2 DEF CompensateRegistration, DeleteUser, TypeOK, UserTable
  <2>3. shown' = shown /\ bot'.pc = "idle"
    BY <1>2 DEF CompensateRegistration, historyVars, Idle
  <2> QED  BY <1>0, <2>1, <2>2, <2>3 DEF KeyInv, KeysStayValid, Known
<1>3. ASSUME NEW tg \in TgId, GenerateVPNKey(tg)
      PROVE  KeyInv'
  BY <1>3 DEF GenerateVPNKey, storeVars, KeyInv, KeysStayValid, Known, Idle
<1>4. ASSUME ~CompensateRegistration, UNCHANGED shown,
             \/ bot'.pc \notin {"provision", "compensate"}
             \/ bot.pc \in {"provision", "compensate"} /\ bot'.tg = bot.tg
      PROVE  KeyInv'
  <2>1. KeysStayValid'
    BY <1>0, <1>4, RowsAreKept DEF KeyInv, KeysStayValid
  <2>2. bot'.pc \in {"provision", "compensate"} =>
          /\ Known(users', bot'.tg)
          /\ \A key \in shown' : key[1] # bot'.tg
    <3> SUFFICES ASSUME bot'.pc \in {"provision", "compensate"}
                 PROVE  /\ Known(users', bot'.tg)
                        /\ \A key \in shown' : key[1] # bot'.tg
      OBVIOUS
    <3>1. bot.tg \in TgId /\ Known(users, bot.tg)
      BY <1>4, BotMoves DEF TypeOK, KeyInv
    <3>2. Known(users', bot.tg)
      BY <1>4, <3>1, RowsAreKept
    <3> QED  BY <1>4, <3>2 DEF KeyInv
  <2> QED  BY <2>1, <2>2 DEF KeyInv, Known
<1>5. CASE ProvisionClient
  <2>1. bot'.pc # "idle" => bot'.tg = bot.tg
    BY <1>5, BotTypes DEF ProvisionClient, Idle, TypeOK, BotStates
  <2>2. bot'.pc \in {"idle", "compensate"}
    BY <1>5 DEF ProvisionClient, Idle, TypeOK, BotStates
  <2> QED  BY <1>4, <1>5, <2>1, <2>2
           DEF ProvisionClient, CompensateRegistration, historyVars
<1>6. CASE CommitPayment
  <2>1. bot'.pc \in {"idle", "grant"}
    BY <1>6 DEF CommitPayment, Idle, TypeOK, BotStates
  <2> QED  BY <1>4, <1>6, <2>1 DEF CommitPayment, CompensateRegistration
<1>7. ASSUME NEW tg \in TgId, NEW amount \in Amount, CompletePayment(tg, amount)
      PROVE  KeyInv'
  BY <1>4, <1>7
  DEF CompletePayment, CompensateRegistration, Handling, Idle, historyVars
<1>8. ASSUME GrantAccess \/ Crash PROVE KeyInv'
  <2>1. UNCHANGED shown /\ bot'.pc = "idle"
    BY <1>8 DEF GrantAccess, Crash, historyVars, Idle
  <2>2. CASE CompensateRegistration
    BY <1>2, <2>2
  <2> QED  BY <1>4, <2>1, <2>2
<1>9. ASSUME UNCHANGED <<bot, shown>> PROVE KeyInv'
  <2>1. CASE CompensateRegistration
    BY <1>2, <2>1
  <2> QED  BY <1>4, <1>9, <2>1
<1>10. ASSUME NEW tg \in TgId, StartPayment(tg) \/ DisableClient(tg) \/ RecordExpiry(tg)
       PROVE  KeyInv'
  BY <1>9, <1>10 DEF StartPayment, DisableClient, RecordExpiry, historyVars
<1>11. ASSUME ListExpiredUsers \/ RecordExpiryFails \/ Tick \/ UNCHANGED vars
       PROVE  KeyInv'
  BY <1>9, <1>11 DEF ListExpiredUsers, RecordExpiryFails, Tick, vars, historyVars
<1> QED
  BY <1>1, <1>2, <1>3, <1>5, <1>6, <1>7, <1>8, <1>10, <1>11
  DEF Next, BotStep, SweepStep

(***************************************************************************)
(* A key that was sent is always the key of its subscriber's row.          *)
(***************************************************************************)
THEOREM SentKeysStayValid == Spec => []KeysStayValid
<1>1. TypeOK /\ KeyInv /\ [Next]_vars => KeyInv'
  BY KeyStep
<1>2. KeyInv => KeysStayValid
  BY DEF KeyInv
<1> QED  BY <1>1, <1>2, KeyInitially, TypeCorrect, PTL DEF Spec

-----------------------------------------------------------------------------
(***************************************************************************)
(* Access.  Whatever fails, a client is taken from the file on disk for    *)
(* the sweep's record of expiry only, and every other way to be without it *)
(* is a failure of the subscriber's own call.  The invariant needs beside  *)
(* that the uuids to be apart: the one that a sweep removes is no other    *)
(* subscriber's, and the bot loop's is that of the row it works on.        *)
(***************************************************************************)

LEMMA AddClientToFile ==
  ASSUME NEW uuid, NEW ok \in BOOLEAN, AddClient(uuid, ok)
  PROVE  config' \in {config, config \cup {uuid}} /\ (ok => uuid \in config')
  BY DEF AddClient, ReplaceConfig, FailsUntouched, xrayVars

LEMMA RemoveClientFromFile ==
  ASSUME NEW uuid, NEW ok \in BOOLEAN, RemoveClient(uuid, ok)
  PROVE  config' \in {config, config \ {uuid}}
  BY DEF RemoveClient, ReplaceConfig, FailsUntouched, xrayVars

(* The uuid the bot loop works with is that of the row it works on. *)
HandlerInv ==
  /\ \A tg \in TgId : Known(users, tg) => users[tg].uuid \in issued
  /\ bot.pc # "idle" => Known(users, bot.tg) /\ users[bot.tg].uuid = bot.row.uuid

(* What a sweep has listed was issued, and is no other subscriber's. *)
UuidsApart ==
  /\ \A tg \in TgId : listed[tg] # NoUser => listed[tg].uuid \in issued
  /\ \A tg, other \in TgId : tg # other /\ Known(users, other) =>
       /\ Known(users, tg) => users[tg].uuid # users[other].uuid
       /\ listed[tg] # NoUser => listed[tg].uuid # users[other].uuid

(* Settled, but for a payment whose commit may still be undone. *)
Undisturbed(tg) == current # tg /\ (bot.tg = tg => bot.pc = "commit")

Served(tg) ==
  Known(users, tg) /\ users[tg].status = "active" /\ Undisturbed(tg) /\ tg \notin hurt
    => users[tg].uuid \in config

ServedInv ==
  /\ HandlerInv
  /\ UuidsApart
  /\ bot.pc = "compensate" => bot.tg \in hurt
  /\ \A tg \in TgId : Served(tg)

LEMMA ServedInitially == Init => ServedInv
  BY DEF Init, XrayInit, Idle, Nobody, Known, ServedInv, HandlerInv, UuidsApart, Served

(* A row after a step that did not insert it was there before. *)
LEMMA RowsAreOld ==
  ASSUME TypeOK, [Next]_vars, NEW tg \in TgId, ~RegisterUser(tg), Known(users', tg)
  PROVE  Known(users, tg) /\ users'[tg].uuid = users[tg].uuid
<1>1. ASSUME NEW new \in TgId, RegisterUser(new)
      PROVE  users'[tg] = users[tg]
  BY <1>1 DEF RegisterUser, CreateUser, TypeOK, UserTable
<1>2. CASE CompensateRegistration
  BY <1>2 DEF CompensateRegistration, DeleteUser, TypeOK, UserTable, Known
<1>3. ASSUME NEW other \in TgId, NEW row \in UserRow, users' = UpdateUser(users, other, row)
      PROVE  Known(users, tg) /\ users'[tg].uuid = users[tg].uuid
  BY <1>3, UpdateUserType DEF TypeOK
<1> QED  BY <1>1, <1>2, <1>3, RowSteps DEF Known

(* A registration inserts a row with a uuid that nothing has used. *)
LEMMA RegistrationIsFresh ==
  ASSUME TypeOK, NEW tg \in TgId, RegisterUser(tg)
  PROVE  \E uuid \in Uuid \ issued :
           /\ Known(users', tg) /\ users'[tg].uuid = uuid
           /\ \A other \in TgId : other # tg => users'[other] = users[other]
           /\ issued' = issued \cup {uuid}
           /\ bot' = Handling("provision", tg, TrialRow(uuid), 0)
           /\ TrialRow(uuid).uuid = uuid
<1>1. PICK uuid \in Uuid \ issued :
        /\ users' = [users EXCEPT ![tg] = TrialRow(uuid)]
        /\ issued' = issued \cup {uuid}
        /\ bot' = Handling("provision", tg, TrialRow(uuid), 0)
  BY DEF RegisterUser, CreateUser
<1>2. TrialRow(uuid) # NoUser
  BY TrialRowType, StorageAssumption DEF StorageAssumption, TypeOK
<1>3. TrialRow(uuid).uuid = uuid
  BY DEF TrialRow
<1> QED  BY <1>1, <1>2, <1>3 DEF TypeOK, UserTable, Known

LEMMA IssuedGrows ==
  ASSUME [Next]_vars
  PROVE  issued \subseteq issued'
<1>1. ASSUME NEW tg \in TgId,
             \/ RegisterUser(tg) \/ GenerateVPNKey(tg) \/ StartPayment(tg)
             \/ DisableClient(tg) \/ RecordExpiry(tg)
             \/ \E amount \in Amount : CompletePayment(tg, amount)
      PROVE  issued \subseteq issued'
  BY <1>1 DEF RegisterUser, GenerateVPNKey, StartPayment, DisableClient, RecordExpiry,
              CompletePayment, historyVars
<1>2. ASSUME \/ ProvisionClient \/ CompensateRegistration \/ CommitPayment
             \/ GrantAccess \/ ListExpiredUsers
             \/ RecordExpiryFails \/ Crash \/ Tick \/ UNCHANGED vars
      PROVE  issued \subseteq issued'
  BY <1>2 DEF ProvisionClient, CompensateRegistration, CommitPayment, GrantAccess,
              ListExpiredUsers, RecordExpiryFails, Crash, Tick, vars, historyVars
<1> QED  BY <1>1, <1>2 DEF Next, BotStep, SweepStep

(* Where the bot loop's locals come from. *)
LEMMA BotSteps ==
  ASSUME TypeOK, [Next]_vars
  PROVE  \/ \E tg \in TgId : RegisterUser(tg)
         \/ \E tg \in TgId, amount \in Amount : CompletePayment(tg, amount)
         \/ bot' = Idle
         \/ ProvisionClient /\ bot' = [bot EXCEPT !.pc = "compensate"]
         \/ CommitPayment /\ bot' = [bot EXCEPT !.pc = "grant"]
         \/ UNCHANGED bot
<1>1. CASE ProvisionClient
  BY <1>1 DEF ProvisionClient, Idle
<1>2. CASE CommitPayment
  BY <1>2 DEF CommitPayment, Idle
<1>3. CASE CompensateRegistration \/ GrantAccess \/ Crash
  BY <1>3 DEF CompensateRegistration, GrantAccess, Crash, Idle
<1>4. ASSUME NEW tg \in TgId,
             GenerateVPNKey(tg) \/ StartPayment(tg) \/ DisableClient(tg) \/ RecordExpiry(tg)
      PROVE  bot' = bot
  BY <1>4 DEF GenerateVPNKey, StartPayment, DisableClient, RecordExpiry
<1>5. ASSUME ListExpiredUsers \/ RecordExpiryFails \/ Tick \/ UNCHANGED vars
      PROVE  bot' = bot
  BY <1>5 DEF ListExpiredUsers, RecordExpiryFails, Tick, vars
<1> QED
  BY <1>1, <1>2, <1>3, <1>4, <1>5
  DEF Next, BotStep, SweepStep

LEMMA HandlerStep ==
  ASSUME TypeOK, HandlerInv, [Next]_vars
  PROVE  HandlerInv'
<1>0. bot \in BotStates /\ HandlerInv
  BY DEF TypeOK
<1>1. ASSUME NEW tg \in TgId, Known(users', tg)
      PROVE  users'[tg].uuid \in issued'
  <2>1. CASE RegisterUser(tg)
    BY <2>1, RegistrationIsFresh
  <2>2. CASE ~RegisterUser(tg)
    BY <1>0, <1>1, <2>2, RowsAreOld, IssuedGrows DEF HandlerInv
  <2> QED  BY <2>1, <2>2
<1>2. ASSUME bot'.pc # "idle"
      PROVE  Known(users', bot'.tg) /\ users'[bot'.tg].uuid = bot'.row.uuid
  <2>1. ASSUME NEW tg \in TgId, RegisterUser(tg)
        PROVE  Known(users', bot'.tg) /\ users'[bot'.tg].uuid = bot'.row.uuid
    BY <2>1, RegistrationIsFresh DEF Handling
  <2>2. ASSUME NEW tg \in TgId, NEW amount \in Amount, CompletePayment(tg, amount)
        PROVE  Known(users', bot'.tg) /\ users'[bot'.tg].uuid = bot'.row.uuid
    <3>1. users[tg] \in UserRow /\ Known(users, tg) /\ users' = users
      BY <2>2 DEF CompletePayment, storeVars, Known, TypeOK, UserTable
    <3>2. bot'.tg = tg /\ bot'.row = PaidRow(users[tg], amount)
      BY <2>2 DEF CompletePayment, Handling
    <3>3. PaidRow(users[tg], amount).uuid = users[tg].uuid
      BY <3>1 DEF PaidRow, UserRow
    <3> QED  BY <3>1, <3>2, <3>3
  <2>3. CASE \/ ProvisionClient /\ bot' = [bot EXCEPT !.pc = "compensate"]
             \/ CommitPayment /\ bot' = [bot EXCEPT !.pc = "grant"]
             \/ UNCHANGED bot
    <3>1. bot.pc # "idle"
      BY <1>2, <2>3 DEF ProvisionClient, CommitPayment
    <3>2. bot'.tg = bot.tg /\ bot'.row = bot.row /\ bot.tg \in TgId
      BY <1>0, <2>3, <3>1, BotMoves DEF BotStates, Idle
    <3>3. ~CompensateRegistration
      BY <1>2 DEF CompensateRegistration, Idle
    <3> QED  BY <1>0, <3>1, <3>2, <3>3, RowsAreKept DEF HandlerInv
  <2> QED  BY <1>2, <2>1, <2>2, <2>3, BotSteps DEF Idle
<1> QED  BY <1>1, <1>2 DEF HandlerInv, Known

(* What a sweep has listed after a step, it had listed or finds in the table. *)
LEMMA ListedSteps ==
  ASSUME TypeOK, [Next]_vars, NEW tg \in TgId, listed'[tg] # NoUser
  PROVE  \/ listed'[tg] = listed[tg]
         \/ Known(users, tg) /\ listed'[tg] = users[tg]
<1>1. CASE ListExpiredUsers
  BY <1>1 DEF ListExpiredUsers, ListExpired, Expired
<1>2. ASSUME NEW other \in TgId, RecordExpiry(other)
      PROVE  listed'[tg] = listed[tg]
  BY <1>2 DEF RecordExpiry, NextListed, TypeOK, UserTable
<1>3. CASE RecordExpiryFails
  BY <1>3 DEF RecordExpiryFails, NextListed, TypeOK, UserTable
<1>4. CASE Crash
  BY <1>4 DEF Crash, Nobody
<1>5. ASSUME NEW other \in TgId,
             \/ RegisterUser(other) \/ GenerateVPNKey(other) \/ StartPayment(other)
             \/ DisableClient(other)
             \/ \E amount \in Amount : CompletePayment(other, amount)
      PROVE  UNCHANGED listed
  BY <1>5 DEF RegisterUser, GenerateVPNKey, StartPayment, DisableClient, CompletePayment,
              sweepVars
<1>6. ASSUME \/ ProvisionClient \/ CompensateRegistration \/ CommitPayment
             \/ GrantAccess \/ Tick \/ UNCHANGED vars
      PROVE  UNCHANGED listed
  BY <1>6 DEF ProvisionClient, CompensateRegistration, CommitPayment, GrantAccess, Tick,
              vars, sweepVars
<1> QED
  BY <1>1, <1>2, <1>3, <1>4, <1>5, <1>6 DEF Next, BotStep, SweepStep

LEMMA UuidsApartStep ==
  ASSUME TypeOK, HandlerInv, UuidsApart, [Next]_vars
  PROVE  UuidsApart'
<1> USE DEF HandlerInv, UuidsApart
<1>1. ASSUME NEW tg \in TgId, listed'[tg] # NoUser
      PROVE  listed'[tg].uuid \in issued'
  BY <1>1, ListedSteps, IssuedGrows
<1>2. ASSUME NEW tg \in TgId, NEW other \in TgId, tg # other, Known(users', other)
      PROVE  /\ Known(users', tg) => users'[tg].uuid # users'[other].uuid
             /\ listed'[tg] # NoUser => listed'[tg].uuid # users'[other].uuid
  <2>1. CASE RegisterUser(other)
    <3>1. /\ users'[other].uuid \notin issued
          /\ users'[tg] = users[tg]
      BY <1>2, <2>1, RegistrationIsFresh
    <3>2. listed' = listed
      BY <2>1 DEF RegisterUser, sweepVars
    <3> QED  BY <3>1, <3>2 DEF Known
  <2>2. CASE RegisterUser(tg)
    <3>1. /\ users'[tg].uuid \notin issued
          /\ users'[other] = users[other]
      BY <1>2, <2>2, RegistrationIsFresh
    <3>2. listed' = listed
      BY <2>2 DEF RegisterUser, sweepVars
    <3> QED  BY <1>2, <3>1, <3>2 DEF Known
  <2>3. CASE ~RegisterUser(tg) /\ ~RegisterUser(other)
    <3>1. Known(users, other) /\ users'[other].uuid = users[other].uuid
      BY <1>2, <2>3, RowsAreOld
    <3>2. Known(users', tg) => Known(users, tg) /\ users'[tg].uuid = users[tg].uuid
      BY <2>3, RowsAreOld
    <3> QED  BY <1>2, <3>1, <3>2, ListedSteps
  <2> QED  BY <2>1, <2>2, <2>3
<1> QED  BY <1>1, <1>2 DEF Known

(* A client that is not taken away stays, and so does its owner's row. *)
LEMMA StaysServed ==
  ASSUME NEW tg \in TgId, Served(tg),
         users'[tg] = users[tg], config \subseteq config',
         Undisturbed(tg)' => Undisturbed(tg),
         tg \notin hurt' => tg \notin hurt
  PROVE  Served(tg)'
  BY DEF Served, Known

LEMMA ServedStep ==
  ASSUME TypeOK, ServedInv, [Next]_vars, NEW tg \in TgId
  PROVE  Served(tg)'
<1>0. /\ bot \in BotStates /\ users \in UserTable /\ hurt \subseteq TgId
      /\ tg # NoUser /\ Served(tg)
      /\ HandlerInv /\ UuidsApart
      /\ bot.pc = "compensate" => bot.tg \in hurt
  BY StorageAssumption DEF TypeOK, ServedInv, StorageAssumption
<1>1. ASSUME NEW new \in TgId, RegisterUser(new)
      PROVE  Served(tg)'
  <2>1. /\ \A other \in TgId : other # new => users'[other] = users[other]
        /\ bot'.tg = new /\ bot'.pc = "provision"
    BY <1>1, RegistrationIsFresh DEF Handling
  <2>2. bot.tg = NoUser /\ UNCHANGED <<config, current, hurt>>
    BY <1>1 DEF RegisterUser, sweepVars, Idle, accessVars
  <2>3. CASE tg = new
    BY <2>1, <2>3 DEF Served, Undisturbed
  <2>4. CASE tg # new
    BY <1>0, <2>1, <2>2, <2>4, StaysServed DEF Undisturbed
  <2> QED  BY <2>3, <2>4
<1>2. ASSUME ProvisionClient \/ GrantAccess
      PROVE  Served(tg)'
  <2>1. PICK ok \in BOOLEAN :
          /\ AddClient(bot.row.uuid, ok)
          /\ hurt' = IF ok THEN hurt \ {bot.tg} ELSE hurt \cup {bot.tg}
    BY <1>2 DEF ProvisionClient, GrantAccess, Provisioned
  <2>2. /\ config \subseteq config' /\ (ok => bot.row.uuid \in config')
        /\ UNCHANGED <<users, current>>
        /\ Known(users, bot.tg) /\ users[bot.tg].uuid = bot.row.uuid
    BY <1>0, <1>2, <2>1, AddClientToFile DEF ProvisionClient, GrantAccess, sweepVars, HandlerInv
  <2>3. CASE tg = bot.tg
    BY <2>1, <2>2, <2>3 DEF Served
  <2>4. CASE tg # bot.tg
    BY <1>0, <2>1, <2>2, <2>4, StaysServed DEF Undisturbed
  <2> QED  BY <2>3, <2>4
<1>3. CASE CompensateRegistration
  <2>1. /\ UNCHANGED <<config, current, hurt>>
        /\ bot.pc = "compensate"
        /\ \A other \in TgId : other # bot.tg => users'[other] = users[other]
    BY <1>0, <1>3 DEF CompensateRegistration, DeleteUser, sweepVars, accessVars, UserTable
  <2>2. CASE tg = bot.tg
    BY <1>0, <2>1, <2>2 DEF Served
  <2>3. CASE tg # bot.tg
    BY <1>0, <2>1, <2>3, StaysServed DEF Undisturbed
  <2> QED  BY <2>2, <2>3
<1>4. ASSUME NEW payer \in TgId, NEW amount \in Amount, CompletePayment(payer, amount)
      PROVE  Served(tg)'
  <2>1. UNCHANGED <<users, config, current, hurt>> /\ bot.tg = NoUser
    BY <1>4 DEF CompletePayment, storeVars, sweepVars, accessVars, Idle
  <2> QED  BY <1>0, <2>1, StaysServed DEF Undisturbed
<1>5. CASE CommitPayment
  <2>1. /\ UNCHANGED <<config, current, hurt>>
        /\ bot.pc = "commit" /\ bot.tg \in TgId /\ bot.row \in UserRow
    BY <1>0, <1>5, BotMoves DEF CommitPayment, sweepVars, accessVars
  <2>2. CASE UNCHANGED users
    BY <1>0, <2>1, <2>2, StaysServed DEF Undisturbed
  <2>3. CASE users' = UpdateUser(users, bot.tg, bot.row) /\ bot' = [bot EXCEPT !.pc = "grant"]
    <3>1. bot'.tg = bot.tg /\ bot'.pc = "grant"
      BY <1>0, <2>1, <2>3 DEF BotStates, Idle
    <3>2. tg # bot.tg => users'[tg] = users[tg]
      BY <1>0, <2>1, <2>3, UpdateUserType
    <3>3. CASE tg = bot.tg
      BY <3>1, <3>3 DEF Served, Undisturbed
    <3>4. CASE tg # bot.tg
      BY <1>0, <2>1, <3>1, <3>2, <3>4, StaysServed DEF Undisturbed
    <3> QED  BY <3>3, <3>4
  <2> QED  BY <1>5, <2>2, <2>3 DEF CommitPayment
<1>6. ASSUME NEW old \in TgId, DisableClient(old)
      PROVE  Served(tg)'
  <2>1. /\ UNCHANGED <<users, bot, hurt>>
        /\ current = NoUser /\ current' = old /\ listed[old] # NoUser
    BY <1>6 DEF DisableClient, historyVars
  <2>2. PICK ok \in BOOLEAN : RemoveClient(listed[old].uuid, ok)
    BY <1>6 DEF DisableClient
  <2>3. config' \in {config, config \ {listed[old].uuid}}
    BY <2>2, RemoveClientFromFile
  <2>4. CASE tg = old
    BY <2>1, <2>4 DEF Served, Undisturbed
  <2>5. CASE tg # old
    <3>1. Known(users, tg) => users[tg].uuid # listed[old].uuid
      BY <1>0, <2>1, <2>5 DEF UuidsApart
    <3>2. Undisturbed(tg)' => Undisturbed(tg)
      BY <1>0, <2>1 DEF Undisturbed
    <3> QED  BY <1>0, <2>1, <2>3, <3>1, <3>2 DEF Served, Known
  <2> QED  BY <2>4, <2>5
<1>7. ASSUME NEW old \in TgId, RecordExpiry(old)
      PROVE  Served(tg)'
  <2>1. /\ UNCHANGED <<config, bot, hurt>> /\ current = old
        /\ users' = UpdateUser(users, old, ExpiredRow(listed[old]))
    BY <1>7 DEF RecordExpiry, accessVars
  <2>2. listed[old] \in UserRow
    BY <1>7, StorageAssumption DEF RecordExpiry, TypeOK, UserTable, StorageAssumption
  <2>3. ExpiredRow(listed[old]) \in UserRow /\ ExpiredRow(listed[old]).status = "inactive"
    BY <2>2, ExpiredRowType
  <2>4. CASE tg = old
    <3>1. Known(users', tg) => users'[tg].status = "inactive"
      BY <1>0, <2>1, <2>3, <2>4, UpdateUserType
    <3> QED  BY <3>1 DEF Served, Known
  <2>5. CASE tg # old
    <3>1. users'[tg] = users[tg]
      BY <1>0, <2>1, <2>3, <2>5, UpdateUserType
    <3> QED  BY <1>0, <2>1, <2>5, <3>1, StaysServed DEF Undisturbed
  <2> QED  BY <2>4, <2>5
<1>8. CASE RecordExpiryFails
  <2>1. UNCHANGED <<users, config, bot>> /\ hurt' = hurt \cup {current}
    BY <1>8 DEF RecordExpiryFails, storeVars
  <2> QED  BY <1>0, <2>1 DEF Served, Undisturbed, Known
<1>9. CASE Crash
  <2>1. /\ users' = users /\ hurt \cup ({bot.tg, current} \ {NoUser}) \subseteq hurt'
        /\ \/ config \subseteq config'
           \/ \E old \in TgId : /\ listed[old] # NoUser /\ old \in hurt'
                               /\ config' = config \ {listed[old].uuid}
    BY <1>9, CrashLeaves
  <2> SUFFICES ASSUME Known(users, tg), users[tg].status = "active", tg \notin hurt'
               PROVE  users[tg].uuid \in config'
    BY <2>1 DEF Served, Known
  <2>2. users[tg].uuid \in config
    BY <1>0, <2>1 DEF Served, Undisturbed
  <2>3. ASSUME NEW old \in TgId, listed[old] # NoUser, old \in hurt'
        PROVE  listed[old].uuid # users[tg].uuid
    BY <1>0, <2>3 DEF UuidsApart
  <2> QED  BY <2>1, <2>2, <2>3
<1>10. ASSUME UNCHANGED <<users, config, bot, current, hurt>>
       PROVE  Served(tg)'
  BY <1>0, <1>10, StaysServed DEF Undisturbed
<1>11. ASSUME NEW other \in TgId, GenerateVPNKey(other) \/ StartPayment(other)
       PROVE  Served(tg)'
  BY <1>10, <1>11 DEF GenerateVPNKey, StartPayment, storeVars, sweepVars, accessVars
<1>12. ASSUME ListExpiredUsers \/ Tick \/ UNCHANGED vars
       PROVE  Served(tg)'
  BY <1>10, <1>12 DEF ListExpiredUsers, Tick, vars, storeVars, sweepVars, accessVars
<1> QED
  BY <1>1, <1>2, <1>3, <1>4, <1>5, <1>6, <1>7, <1>8, <1>9, <1>11, <1>12
  DEF Next, BotStep, SweepStep

(* A registration that is being taken back has hurt its subscriber. *)
LEMMA CompensatedIsHurt ==
  ASSUME TypeOK, ServedInv, [Next]_vars, bot'.pc = "compensate"
  PROVE  bot'.tg \in hurt'
<1>0. bot \in BotStates /\ (bot.pc = "compensate" => bot.tg \in hurt)
  BY DEF TypeOK, ServedInv
<1>1. CASE ProvisionClient /\ bot' = [bot EXCEPT !.pc = "compensate"]
  <2>1. bot'.tg = bot.tg
    BY <1>0, <1>1 DEF BotStates, Idle
  <2>2. bot' # Idle
    BY DEF Idle
  <2> QED  BY <1>1, <2>1, <2>2 DEF ProvisionClient, Provisioned
<1>2. CASE UNCHANGED bot
  <2>1. bot.tg \in hurt
    BY <1>0, <1>2
  <2>2. ~ProvisionClient /\ ~GrantAccess
    BY <1>2 DEF ProvisionClient, GrantAccess
  <2>3. hurt \subseteq hurt'
    <3>1. ASSUME NEW tg \in TgId,
                 \/ RegisterUser(tg) \/ GenerateVPNKey(tg) \/ StartPayment(tg)
                 \/ DisableClient(tg) \/ RecordExpiry(tg)
                 \/ \E amount \in Amount : CompletePayment(tg, amount)
          PROVE  UNCHANGED hurt
      BY <3>1 DEF RegisterUser, GenerateVPNKey, StartPayment, DisableClient,
                  RecordExpiry, CompletePayment, accessVars
    <3>2. ASSUME CompensateRegistration \/ CommitPayment \/ ListExpiredUsers
                   \/ RecordExpiryFails \/ Tick \/ UNCHANGED vars
          PROVE  hurt \subseteq hurt'
      BY <3>2 DEF CompensateRegistration, CommitPayment, ListExpiredUsers,
                  RecordExpiryFails, Tick, vars, accessVars
    <3>3. Crash => hurt \subseteq hurt'
      BY CrashLeaves
    <3> QED  BY <2>2, <3>1, <3>2, <3>3 DEF Next, BotStep, SweepStep
  <2> QED  BY <1>2, <2>1, <2>3
<1>3. ASSUME \/ \E tg \in TgId : RegisterUser(tg)
             \/ \E tg \in TgId, amount \in Amount : CompletePayment(tg, amount)
             \/ CommitPayment /\ bot' = [bot EXCEPT !.pc = "grant"]
             \/ bot' = Idle
      PROVE  FALSE
  BY <1>0, <1>3 DEF RegisterUser, CompletePayment, Handling, CommitPayment, Idle, BotStates
<1> QED  BY <1>1, <1>2, <1>3, BotSteps

LEMMA ServedInvStep ==
  ASSUME TypeOK, ServedInv, [Next]_vars
  PROVE  ServedInv'
<1>1. HandlerInv' /\ UuidsApart'
  BY HandlerStep, UuidsApartStep DEF ServedInv
<1>2. \A tg \in TgId : Served(tg)'
  BY ServedStep
<1> QED  BY <1>1, <1>2, CompensatedIsHurt DEF ServedInv

LEMMA ServedIsKept == Spec => []ServedInv
<1>1. TypeOK /\ ServedInv /\ [Next]_vars => ServedInv'
  BY ServedInvStep
<1> QED  BY <1>1, ServedInitially, TypeCorrect, PTL DEF Spec

(***************************************************************************)
(* Whatever fails, restarts of Xray included, the configuration on disk    *)
(* has the client of every active subscriber for whom nothing is half done *)
(* and no call of whose own has failed.                                    *)
(***************************************************************************)
THEOREM ActiveIsAlwaysConfigured == Spec => []ActiveIsConfigured
<1>1. ServedInv => ActiveIsConfigured
  BY DEF ServedInv, ActiveIsConfigured, Served, Undisturbed, Settled
<1> QED  BY <1>1, ServedIsKept, PTL

-----------------------------------------------------------------------------
(***************************************************************************)
(* Owners.  While no restart of Xray fails, a call that returns an error   *)
(* has not touched the file: then the uuid of a registration that may yet  *)
(* be taken back has not become a client.                                  *)
(***************************************************************************)

LEMMA AddClientWhole ==
  ASSUME "reload" \notin Faults, NEW uuid, NEW ok \in BOOLEAN, AddClient(uuid, ok)
  PROVE  config' = IF ok THEN config \cup {uuid} ELSE config
  BY DEF AddClient, ReplaceConfig, FailsUntouched, xrayVars

(* The steps by what they do to the clients. *)
LEMMA ClientSteps ==
  ASSUME "reload" \notin Faults, TypeOK, [Next]_vars
  PROVE  \/ config' \subseteq config
         \/ /\ bot.pc \in {"provision", "grant"}
            /\ config' = config \cup {bot.row.uuid}
            /\ bot' = Idle
<1>1. CASE ProvisionClient
  <2>1. PICK ok \in BOOLEAN :
          AddClient(bot.row.uuid, ok)
            /\ bot' = IF ok THEN Idle ELSE [bot EXCEPT !.pc = "compensate"]
    BY <1>1 DEF ProvisionClient
  <2> QED  BY <1>1, <2>1, AddClientWhole DEF ProvisionClient
<1>2. CASE GrantAccess
  <2>1. bot' = Idle /\ \E ok \in BOOLEAN : AddClient(bot.row.uuid, ok)
    BY <1>2 DEF GrantAccess
  <2> QED  BY <1>2, <2>1, AddClientWhole DEF GrantAccess
<1>3. ASSUME NEW tg \in TgId, DisableClient(tg)
      PROVE  config' \subseteq config
  <2>1. PICK ok \in BOOLEAN : RemoveClient(listed[tg].uuid, ok)
    BY <1>3 DEF DisableClient
  <2> QED  BY <2>1, RemoveClientFromFile
<1>4. ASSUME NEW tg \in TgId,
             \/ RegisterUser(tg) \/ GenerateVPNKey(tg) \/ StartPayment(tg)
             \/ RecordExpiry(tg) \/ \E amount \in Amount : CompletePayment(tg, amount)
      PROVE  UNCHANGED config
  BY <1>4 DEF RegisterUser, GenerateVPNKey, StartPayment, RecordExpiry, CompletePayment,
              storeVars
<1>5. ASSUME \/ CompensateRegistration \/ CommitPayment \/ ListExpiredUsers
             \/ RecordExpiryFails \/ Tick \/ UNCHANGED vars
      PROVE  UNCHANGED config
  BY <1>5 DEF CompensateRegistration, CommitPayment, ListExpiredUsers,
              RecordExpiryFails, Tick, vars, storeVars
<1>6. CASE Crash
  BY <1>6, CrashLeaves
<1> QED
  BY <1>1, <1>2, <1>3, <1>4, <1>5, <1>6 DEF Next, BotStep, SweepStep

OwnerInv ==
  /\ ClientsHaveOwners
  /\ bot.pc \in {"provision", "compensate"} => bot.row.uuid \notin config

LEMMA OwnerInitially == Init => OwnerInv
  BY DEF Init, XrayInit, Idle, OwnerInv, ClientsHaveOwners

LEMMA ClientsHaveOwnersStep ==
  ASSUME "reload" \notin Faults, TypeOK, HandlerInv, OwnerInv, [Next]_vars
  PROVE  ClientsHaveOwners'
<1>0. bot \in BotStates /\ ClientsHaveOwners /\ HandlerInv
  BY DEF TypeOK, OwnerInv
<1> SUFFICES ASSUME NEW uuid \in config'
             PROVE  \E tg \in TgId : Known(users', tg) /\ users'[tg].uuid = uuid
  BY DEF ClientsHaveOwners, Known
<1>1. CASE CompensateRegistration
  <2>1. /\ config' = config
        /\ bot.row.uuid \notin config
        /\ Known(users, bot.tg) /\ users[bot.tg].uuid = bot.row.uuid
    BY <1>0, <1>1 DEF CompensateRegistration, HandlerInv, OwnerInv
  <2>2. PICK tg \in TgId : Known(users, tg) /\ users[tg].uuid = uuid
    BY <1>0, <2>1 DEF ClientsHaveOwners
  <2>3. tg # bot.tg
    BY <2>1, <2>2
  <2>4. users'[tg] = users[tg]
    BY <1>1, <2>3 DEF CompensateRegistration, DeleteUser, TypeOK, UserTable
  <2> QED  BY <2>2, <2>4 DEF Known
<1>2. CASE ~CompensateRegistration
  <2>1. ASSUME uuid \notin config
        PROVE  /\ bot.tg \in TgId /\ Known(users, bot.tg)
               /\ users[bot.tg].uuid = uuid
    <3>1. uuid = bot.row.uuid /\ bot.pc # "idle"
      BY <2>1, ClientSteps
    <3> QED  BY <1>0, <3>1, BotMoves DEF HandlerInv
  <2>2. PICK tg \in TgId : Known(users, tg) /\ users[tg].uuid = uuid
    BY <1>0, <2>1 DEF ClientsHaveOwners
  <2> QED  BY <1>2, <2>2, RowsAreKept
<1> QED  BY <1>1, <1>2

LEMMA NotYetClientStep ==
  ASSUME "reload" \notin Faults, TypeOK, HandlerInv, OwnerInv, [Next]_vars,
         bot'.pc \in {"provision", "compensate"}
  PROVE  bot'.row.uuid \notin config'
<1>0. /\ bot \in BotStates
      /\ \A uuid \in config : uuid \in issued
  BY DEF TypeOK, OwnerInv, HandlerInv, ClientsHaveOwners
<1>1. ASSUME NEW tg \in TgId, RegisterUser(tg)
      PROVE  bot'.row.uuid \notin config'
  <2>1. config' = config
    BY <1>1 DEF RegisterUser
  <2> QED  BY <1>0, <1>1, <2>1, RegistrationIsFresh DEF Handling
<1>2. ASSUME \/ ProvisionClient /\ bot' = [bot EXCEPT !.pc = "compensate"]
             \/ UNCHANGED bot
      PROVE  bot'.row.uuid \notin config'
  <2>1. bot.pc \in {"provision", "compensate"} /\ bot'.row = bot.row
    BY <1>0, <1>2, BotMoves DEF ProvisionClient, BotStates, Idle
  <2>2. bot' # Idle
    BY DEF Idle
  <2>3. config' \subseteq config
    BY <1>0, <2>2, ClientSteps
  <2> QED  BY <2>1, <2>3 DEF OwnerInv
<1>3. ASSUME \/ \E tg \in TgId, amount \in Amount : CompletePayment(tg, amount)
             \/ CommitPayment /\ bot' = [bot EXCEPT !.pc = "grant"]
             \/ bot' = Idle
      PROVE  FALSE
  BY <1>0, <1>3 DEF CompletePayment, Handling, CommitPayment, Idle, BotStates
<1> QED  BY <1>1, <1>2, <1>3, BotSteps

LEMMA OwnerStep ==
  ASSUME "reload" \notin Faults, TypeOK, HandlerInv, OwnerInv, [Next]_vars
  PROVE  OwnerInv'
  BY ClientsHaveOwnersStep, NotYetClientStep DEF OwnerInv

LEMMA OwnersAreKept ==
  ASSUME "reload" \notin Faults
  PROVE  Spec => []OwnerInv
<1>1. TypeOK /\ HandlerInv /\ OwnerInv /\ [Next]_vars => OwnerInv'
  BY OwnerStep
<1>2. ServedInv => HandlerInv
  BY DEF ServedInv
<1> QED  BY <1>1, <1>2, OwnerInitially, TypeCorrect, ServedIsKept, PTL DEF Spec

(***************************************************************************)
(* While no restart of Xray fails, every client is some subscriber's: a    *)
(* registration that is taken back leaves none behind.                     *)
(***************************************************************************)
THEOREM ClientsAlwaysHaveOwners ==
  ASSUME "reload" \notin Faults
  PROVE  Spec => []ClientsHaveOwners
<1>1. OwnerInv => ClientsHaveOwners
  BY DEF OwnerInv
<1> QED  BY <1>1, OwnersAreKept, PTL

-----------------------------------------------------------------------------
(***************************************************************************)
(* The running server.  It serves what the file has, but for those whom it *)
(* was last restarted without; and the file has no uuid that is yet to be  *)
(* given to a new subscriber, who would then be served without a restart.  *)
(***************************************************************************)
ServerInv ==
  /\ config \subseteq issued
  /\ \A tg \in TgId :
       Known(users, tg) /\ tg \notin unserved /\ users[tg].uuid \in config
         => users[tg].uuid \in running

LEMMA ServerInitially == Init => ServerInv
  BY DEF Init, XrayInit, ServerInv

(* Of those whom a restart concerns, only the added ones can stay out. *)
LEMMA RestartServes ==
  ASSUME NEW ok, ok => running' = config', NEW added, RestartEnds(ok, added),
         NEW tg \in TgId, tg \notin unserved',
         NEW uuid \in config', uuid \notin config => tg \in added,
         tg \notin unserved /\ uuid \in config => uuid \in running
  PROVE  uuid \in running'
  BY DEF RestartEnds

(* The same of one of the manager's calls. *)
LEMMA CallRestarts ==
  ASSUME NEW uuid, NEW ok \in BOOLEAN, AddClient(uuid, ok) \/ RemoveClient(uuid, ok)
  PROVE  \/ config' = config /\ running' = running
         \/ ok => running' = config'
  BY DEF AddClient, RemoveClient, ReplaceConfig, FailsUntouched, xrayVars

LEMMA ServerStep ==
  ASSUME TypeOK, ServedInv, ServerInv, [Next]_vars
  PROVE  ServerInv'
<1>0. /\ bot \in BotStates /\ HandlerInv /\ UuidsApart
      /\ ServerInv /\ issued \subseteq issued'
  BY IssuedGrows DEF TypeOK, ServedInv
(* The row of tg is the old one, and what is new in the file is tg's or not tg's. *)
<1>1. ASSUME NEW new \in TgId, RegisterUser(new)
      PROVE  ServerInv'
  <2>1. PICK uuid \in Uuid \ issued :
          /\ users'[new].uuid = uuid
          /\ \A other \in TgId : other # new => users'[other] = users[other]
    BY <1>1, RegistrationIsFresh
  <2>2. UNCHANGED <<config, running, unserved>>
    BY <1>1 DEF RegisterUser, accessVars
  <2>3. users'[new].uuid \notin config'
    BY <1>0, <2>1, <2>2 DEF ServerInv
  <2> QED  BY <1>0, <2>1, <2>2, <2>3 DEF ServerInv, Known
<1>2. ASSUME ~\E new \in TgId : RegisterUser(new),
             \/ UNCHANGED <<config, running, unserved>>
             \/ \E ok, added :
                  /\ ok => running' = config'
                  /\ RestartEnds(ok, added)
                  /\ config' \subseteq issued
                  /\ \A tg \in TgId :
                       Known(users, tg) /\ users[tg].uuid \in config' \ config
                         => tg \in added
      PROVE  ServerInv'
  <2>1. config' \subseteq issued'
    BY <1>0, <1>2 DEF ServerInv
  <2>2. ASSUME NEW tg \in TgId, Known(users', tg), tg \notin unserved',
               users'[tg].uuid \in config'
        PROVE  users'[tg].uuid \in running'
    <3>1. Known(users, tg) /\ users'[tg].uuid = users[tg].uuid
      BY <1>2, <2>2, RowsAreOld
    <3>2. tg \notin unserved /\ users[tg].uuid \in config => users[tg].uuid \in running
      BY <1>0, <3>1 DEF ServerInv
    <3> QED  BY <1>2, <2>2, <3>1, <3>2, RestartServes
  <2> QED  BY <2>1, <2>2 DEF ServerInv, Known
(* What is added to the file while the bot loop is at work is its own subscriber's. *)
<1>3. ASSUME bot.pc # "idle", config' \subseteq config \cup {bot.row.uuid}
      PROVE  /\ config' \subseteq issued
             /\ \A tg \in TgId : Known(users, tg) /\ users[tg].uuid \in config' \ config
                  => tg \in {bot.tg}
  <2>1. bot.tg \in TgId /\ Known(users, bot.tg) /\ users[bot.tg].uuid = bot.row.uuid
    BY <1>0, <1>3, BotMoves DEF HandlerInv
  <2>2. bot.row.uuid \in issued
    BY <1>0, <2>1 DEF HandlerInv
  <2>3. ASSUME NEW tg \in TgId, Known(users, tg), users[tg].uuid = bot.row.uuid
        PROVE  tg = bot.tg
    BY <1>0, <2>1, <2>3 DEF UuidsApart
  <2> QED  BY <1>0, <1>3, <2>2, <2>3 DEF ServerInv
<1>4. ASSUME ProvisionClient \/ GrantAccess
      PROVE  ServerInv'
  <2>1. PICK ok \in BOOLEAN : AddClient(bot.row.uuid, ok) /\ Provisioned(bot.tg, ok)
    BY <1>4 DEF ProvisionClient, GrantAccess
  <2>2. bot.pc # "idle" /\ ~\E new \in TgId : RegisterUser(new)
    BY <1>4 DEF ProvisionClient, GrantAccess, RegisterUser, Idle
  <2>3. CASE config' = config /\ running' = running
    BY <1>2, <2>1, <2>2, <2>3 DEF Provisioned
  <2>4. CASE ok => running' = config'
    <3>1. CASE config' = config
      <4>1. UNCHANGED <<config, running, unserved>>
        BY <2>1, <3>1
        DEF Provisioned, AddClient, ReplaceConfig, FailsUntouched, xrayVars
      <4> QED  BY <1>2, <2>2, <4>1
    <3>2. CASE config' # config
      <4>1. RestartEnds(ok, {bot.tg})
        BY <2>1, <3>2 DEF Provisioned
      <4>2. config' \subseteq config \cup {bot.row.uuid}
        BY <2>1, AddClientToFile
      <4> QED  BY <1>2, <1>3, <2>2, <2>4, <4>1, <4>2
    <3> QED  BY <3>1, <3>2
  <2> QED  BY <2>1, <2>3, <2>4, CallRestarts
<1>5. ASSUME NEW old \in TgId, DisableClient(old)
      PROVE  ServerInv'
  <2>1. PICK ok \in BOOLEAN : RemoveClient(listed[old].uuid, ok) /\ RestartEnds(ok, {})
    BY <1>5 DEF DisableClient
  <2>2. config' \subseteq config /\ (ok => running' = config')
    BY <2>1, RemoveClientFromFile DEF RemoveClient, ReplaceConfig, FailsUntouched
  <2>3. ~\E new \in TgId : RegisterUser(new)
    <3>1. ASSUME NEW new \in TgId, RegisterUser(new)
          PROVE  FALSE
      BY <1>5, <3>1, RegistrationIsFresh DEF DisableClient, Handling, RegisterUser, Idle
    <3> QED  BY <3>1
  <2> QED  BY <1>0, <1>2, <2>1, <2>2, <2>3 DEF ServerInv
<1>6. CASE Crash
  <2>1. ~\E new \in TgId : RegisterUser(new)
    BY <1>6, CrashLeaves DEF RegisterUser, Handling, Idle
  <2>2. CASE UNCHANGED <<config, running, unserved>>
    BY <1>2, <2>1, <2>2
  <2>3. ASSUME bot.pc \in {"provision", "grant"},
               config' = config \cup {bot.row.uuid},
               RestartEnds(running' = config', {bot.tg})
        PROVE  ServerInv'
    BY <1>2, <1>3, <2>1, <2>3
  <2>4. ASSUME NEW old \in TgId, config' = config \ {listed[old].uuid},
               RestartEnds(running' = config', {})
        PROVE  ServerInv'
    BY <1>0, <1>2, <2>1, <2>4 DEF ServerInv
  <2> QED  BY <1>6, <2>2, <2>3, <2>4, CrashLeaves
<1>7. ASSUME NEW tg \in TgId,
             \/ GenerateVPNKey(tg) \/ StartPayment(tg) \/ RecordExpiry(tg)
             \/ \E amount \in Amount : CompletePayment(tg, amount)
      PROVE  UNCHANGED <<config, running, unserved>>
  BY <1>7 DEF GenerateVPNKey, StartPayment, RecordExpiry, CompletePayment, storeVars,
              accessVars
<1>8. ASSUME \/ CompensateRegistration \/ CommitPayment \/ ListExpiredUsers
             \/ RecordExpiryFails \/ Tick \/ UNCHANGED vars
      PROVE  UNCHANGED <<config, running, unserved>>
  BY <1>8 DEF CompensateRegistration, CommitPayment, ListExpiredUsers,
              RecordExpiryFails, Tick, vars, storeVars, accessVars
<1> QED
  BY <1>1, <1>2, <1>4, <1>5, <1>6, <1>7, <1>8 DEF Next, BotStep, SweepStep

(***************************************************************************)
(* Whatever fails, and wherever a crash cuts a call off, a subscriber      *)
(* whose row says active is served by the running Xray whenever nothing is *)
(* half done for that subscriber, unless the subscriber's own call failed  *)
(* or was cut off, or the restart that was to bring the client in did not  *)
(* succeed and none has since.                                             *)
(***************************************************************************)
THEOREM ActiveAlwaysHasAccess == Spec => []ActiveHasAccess
<1>1. TypeOK /\ ServedInv /\ ServerInv /\ [Next]_vars => ServerInv'
  BY ServerStep
<1>2. ServerInv /\ ActiveIsConfigured => ActiveHasAccess
  BY DEF ServerInv, ActiveIsConfigured, ActiveHasAccess
<1> QED
  BY <1>1, <1>2, ServerInitially, ServedIsKept, TypeCorrect, ActiveIsAlwaysConfigured, PTL
  DEF Spec

-----------------------------------------------------------------------------
(***************************************************************************)
(* The refinement.  The initial states are mapped to the initial state of  *)
(* SubscriptionLifecycle and every step to one of its steps or a stutter.  *)
(* What the mapping needs beside types and keys: a payment about to be     *)
(* committed is due, and a row that the checker holds a copy of has an end *)
(* that it can clear.  Ends are in order for those only who have not paid  *)
(* more than a Duration can hold.                                          *)
(***************************************************************************)
PaymentDue ==
  bot.pc = "commit" =>
    /\ bot.tg \in pending
    /\ Known(users, bot.tg)
    /\ bot.row.status = "active" /\ bot.amount # 0
    /\ bot.tg \notin wrapped /\ AmountFits(bot.amount)
         => bot.row.subUntil >= users[bot.tg].subUntil

EndsInOrder ==
  \A tg \in TgId :
    Known(users, tg) /\ tg \notin wrapped =>
      /\ users[tg].subUntil >= 0
      /\ listed[tg] # NoUser => users[tg].subUntil > 0

TermInv == PaymentDue /\ EndsInOrder

LEMMA TermInitially == Init => TermInv
  BY DEF Init, TermInv, PaymentDue, EndsInOrder, Nobody, Known, Idle

LEMMA TermStep ==
  ASSUME TypeOK, TermInv, [Next]_vars
  PROVE  TermInv'
<1> USE DEF TermInv, PaymentDue, EndsInOrder
<1>1. ASSUME NEW tg \in TgId, RegisterUser(tg)
      PROVE  TermInv'
  <2>1. PICK uuid \in Uuid \ issued :
          /\ users' = [users EXCEPT ![tg] = TrialRow(uuid)]
          /\ bot' = Handling("provision", tg, TrialRow(uuid), 0)
    BY <1>1 DEF RegisterUser, CreateUser
  <2>2. TrialRow(uuid).subUntil > 0 /\ TrialRow(uuid).subUntil \in Int
    BY TrialRowType DEF TypeOK, UserRow
  <2>3. UNCHANGED <<listed, wrapped>> /\ bot'.pc # "commit"
    BY <1>1, <2>1 DEF RegisterUser, sweepVars, Handling
  <2> QED  BY <2>1, <2>2, <2>3 DEF TypeOK, UserTable, Known
<1>2. CASE CompensateRegistration
  <2>1. \A tg \in TgId : users'[tg] = NoUser \/ users'[tg] = users[tg]
    BY <1>2 DEF CompensateRegistration, DeleteUser, TypeOK, UserTable
  <2>2. UNCHANGED <<listed, wrapped>> /\ bot'.pc # "commit"
    BY <1>2 DEF CompensateRegistration, sweepVars, historyVars, Idle
  <2> QED  BY <2>1, <2>2 DEF Known
<1>3. ASSUME NEW tg \in TgId, NEW amount \in Amount, CompletePayment(tg, amount)
      PROVE  TermInv'
  <2>1. users[tg] \in UserRow /\ tg \in pending /\ Known(users, tg)
    BY <1>3 DEF CompletePayment, GetPendingPayment, Known, TypeOK, UserTable
  <2>2. bot'.tg = tg /\ bot'.row = PaidRow(users[tg], amount) /\ bot'.amount = amount
    BY <1>3 DEF CompletePayment, Handling
  <2>3. UNCHANGED <<users, pending, listed, wrapped>>
    BY <1>3 DEF CompletePayment, storeVars, sweepVars, historyVars
  <2>4. /\ AmountFits(amount) => PaidRow(users[tg], amount).subUntil >= users[tg].subUntil
        /\ PaidRow(users[tg], amount).status = "active" /\ amount # 0
    BY <2>1, PaidRowType, AmountTypes DEF TypeOK
  <2> QED  BY <2>1, <2>2, <2>3, <2>4 DEF Known
<1>4. CASE CommitPayment
  <2>1. bot.tg \in TgId /\ bot.row \in UserRow /\ bot.row.subUntil \in Int
    BY <1>4, BotMoves DEF CommitPayment, TypeOK, UserRow
  <2>2. bot'.pc # "commit" /\ listed' = listed
    BY <1>4, <2>1 DEF CommitPayment, sweepVars, Idle, TypeOK, BotStates
  <2>3. CASE UNCHANGED <<users, wrapped>>
    BY <2>2, <2>3 DEF Known
  <2>4. CASE users' = UpdateUser(users, bot.tg, bot.row) /\ Receipt
    <3>1. wrapped \subseteq wrapped' /\ (~AmountFits(bot.amount) => bot.tg \in wrapped')
      BY <2>4 DEF Receipt
    <3> SUFFICES ASSUME NEW tg \in TgId, Known(users', tg), tg \notin wrapped'
                 PROVE  /\ users'[tg].subUntil >= 0
                        /\ listed[tg] # NoUser => users'[tg].subUntil > 0
      BY <2>2 DEF Known
    <3>2. /\ Known(users, tg) /\ tg \notin wrapped
          /\ users[tg].subUntil >= 0 /\ users[tg].subUntil \in Int
          /\ listed[tg] # NoUser => users[tg].subUntil > 0
      <4>1. Known(users, tg) /\ tg \notin wrapped
        BY <2>1, <2>4, <3>1, UpdateUserType DEF TypeOK
      <4>2. users[tg].subUntil \in Int
        BY <4>1 DEF TypeOK, UserTable, UserRow, Known
      <4> QED  BY <4>1, <4>2
    <3>3. CASE tg = bot.tg
      <4>1. users'[tg].subUntil = bot.row.subUntil
        BY <2>1, <2>4, <3>2, <3>3, UpdateUserType DEF TypeOK
      <4>2. bot.row.subUntil >= users[tg].subUntil
        BY <1>4, <3>1, <3>2, <3>3 DEF CommitPayment
      <4> QED  BY <2>1, <3>2, <4>1, <4>2
    <3>4. CASE tg # bot.tg
      <4>1. users'[tg] = users[tg]
        BY <2>1, <2>4, <3>4, UpdateUserType DEF TypeOK
      <4> QED  BY <3>2, <4>1
    <3> QED  BY <3>3, <3>4
  <2> QED  BY <1>4, <2>3, <2>4 DEF CommitPayment
<1>5. CASE ListExpiredUsers
  <2>1. \A tg \in TgId : listed'[tg] # NoUser => users[tg].subUntil > 0
    BY <1>5 DEF ListExpiredUsers, ListExpired, Expired
  <2>2. UNCHANGED <<users, bot, pending, wrapped>>
    BY <1>5 DEF ListExpiredUsers, storeVars, historyVars
  <2> QED  BY <2>1, <2>2 DEF Known
<1>6. ASSUME NEW tg \in TgId, RecordExpiry(tg)
      PROVE  TermInv'
  <2>1. listed[tg] \in UserRow /\ users \in UserTable
    BY <1>6, StorageAssumption DEF RecordExpiry, TypeOK, UserTable, StorageAssumption
  <2>2. users' = UpdateUser(users, tg, ExpiredRow(listed[tg]))
    BY <1>6 DEF RecordExpiry
  <2>3. /\ UNCHANGED <<bot, pending, wrapped>> /\ listed'[tg] = NoUser
        /\ \A other \in TgId : other # tg => listed'[other] = listed[other]
    BY <1>6 DEF RecordExpiry, NextListed, historyVars, TypeOK, UserTable
  <2>4. /\ ExpiredRow(listed[tg]) \in UserRow
        /\ ExpiredRow(listed[tg]).subUntil = 0
    BY <2>1, ExpiredRowType
  <2>5. \A other \in TgId :
          /\ Known(users', other) <=> Known(users, other)
          /\ other # tg => users'[other] = users[other]
    BY <2>1, <2>2, <2>4, UpdateUserType
  <2>6. Known(users, tg) => users'[tg].subUntil = 0
    BY <2>1, <2>2, <2>4, UpdateUserType
  <2>7. EndsInOrder'
    <3> SUFFICES ASSUME NEW other \in TgId, Known(users', other), other \notin wrapped
                 PROVE  /\ users'[other].subUntil >= 0
                        /\ listed'[other] # NoUser => users'[other].subUntil > 0
      BY <2>3 DEF Known
    <3>1. CASE other = tg
      BY <2>3, <2>5, <2>6, <3>1
    <3>2. CASE other # tg
      BY <2>3, <2>5, <3>2
    <3> QED  BY <3>1, <3>2
  <2>8. ASSUME bot'.pc = "commit"
        PROVE  /\ Known(users', bot.tg)
               /\ bot.tg \notin wrapped /\ AmountFits(bot.amount)
                    => bot.row.subUntil >= users'[bot.tg].subUntil
    <3>1. /\ bot.tg \in TgId /\ bot.row \in UserRow /\ bot.row.subUntil \in Int
          /\ Known(users, bot.tg) /\ users[bot.tg].subUntil \in Int
      BY <2>1, <2>3, <2>8, BotMoves DEF TypeOK, UserTable, UserRow, Known
    <3>2. bot.tg \notin wrapped /\ AmountFits(bot.amount)
            => bot.row.subUntil >= users[bot.tg].subUntil /\ users[bot.tg].subUntil >= 0
      BY <2>3, <2>8, <3>1
    <3>3. CASE bot.tg = tg
      BY <2>5, <2>6, <3>1, <3>2, <3>3
    <3>4. CASE bot.tg # tg
      BY <2>5, <3>1, <3>2, <3>4
    <3> QED  BY <3>3, <3>4
  <2> QED  BY <2>3, <2>7, <2>8 DEF Known
<1>7. CASE RecordExpiryFails
  <2>1. \A tg \in TgId : listed'[tg] = NoUser \/ listed'[tg] = listed[tg]
    BY <1>7 DEF RecordExpiryFails, NextListed, TypeOK, UserTable
  <2> QED  BY <1>7, <2>1 DEF RecordExpiryFails, storeVars, historyVars, Known
<1>8. CASE Crash
  BY <1>8, CrashLeaves DEF Nobody, Idle, Known
<1>9. ASSUME UNCHANGED <<users, listed, wrapped>>, pending \subseteq pending',
             bot' = bot \/ bot'.pc # "commit"
      PROVE  TermInv'
  BY <1>9 DEF Known
<1>10. ASSUME ProvisionClient \/ GrantAccess PROVE TermInv'
  <2>1. bot'.pc # "commit"
    BY <1>10 DEF ProvisionClient, GrantAccess, Idle, TypeOK, BotStates
  <2> QED  BY <1>10, <1>9, <2>1 DEF ProvisionClient, GrantAccess, sweepVars, historyVars
<1>11. ASSUME NEW tg \in TgId,
              GenerateVPNKey(tg) \/ StartPayment(tg) \/ DisableClient(tg)
       PROVE  TermInv'
  BY <1>9, <1>11
  DEF GenerateVPNKey, StartPayment, CreatePendingPayment, DisableClient,
      storeVars, sweepVars, historyVars
<1>12. ASSUME Tick \/ UNCHANGED vars PROVE TermInv'
  BY <1>9, <1>12 DEF Tick, vars, storeVars, sweepVars, historyVars
<1> QED
  BY <1>1, <1>2, <1>3, <1>4, <1>5, <1>6, <1>7, <1>8, <1>10, <1>11, <1>12
  DEF Next, BotStep, SweepStep

LEMMA TermIsKept == Spec => []TermInv
<1>1. TypeOK /\ TermInv /\ [Next]_vars => TermInv'
  BY TermStep
<1> QED  BY <1>1, TermInitially, TypeCorrect, PTL DEF Spec

-----------------------------------------------------------------------------
(* The mapping of the abstract accounts, and its frame. *)

Accounts == [tg \in TgId |-> AccountOf(tg)]

(* An account is where it was if its row and its registration are. *)
LEMMA SameAccount ==
  ASSUME NEW tg \in TgId, users'[tg] = users[tg], Registering(tg)' <=> Registering(tg)
  PROVE  AccountOf(tg)' = AccountOf(tg)
  BY DEF AccountOf, Known

LEMMA AccountBecomes ==
  ASSUME NEW tg \in TgId, NEW S, AccountOf(tg)' \in S,
         \A other \in TgId : other # tg =>
           /\ users'[other] = users[other]
           /\ Registering(other)' <=> Registering(other)
  PROVE  /\ Accounts'[tg] \in S
         /\ Accounts' = [Accounts EXCEPT ![tg] = Accounts'[tg]]
<1>1. Accounts'[tg] = AccountOf(tg)'
  BY DEF Accounts
<1>2. \A other \in TgId : other # tg => AccountOf(other)' = AccountOf(other)
  BY SameAccount
<1> QED  BY <1>1, <1>2 DEF Accounts

LEMMA AccountsStay ==
  ASSUME \A tg \in TgId : users'[tg] = users[tg] /\ (Registering(tg)' <=> Registering(tg))
  PROVE  Accounts' = Accounts
  BY SameAccount DEF Accounts

LEMMA LifecycleInitially == Init => Lifecycle!Init
  BY DEF Init, Lifecycle!Init, AccountOf, Nobody, Known

(***************************************************************************)
(* A step that keeps the rows and the flows and is not part of a           *)
(* registration is a stutter.                                              *)
(***************************************************************************)
LEMMA QuietStep ==
  ASSUME UNCHANGED <<users, pending, wrapped>>,
         \A tg \in TgId : Registering(tg)' <=> Registering(tg)
  PROVE  UNCHANGED <<pending, Accounts, wrapped>>
  BY AccountsStay

(* The account of a row, as the refinement sees it. *)
LEMMA AccountFacts ==
  ASSUME NEW tg \in TgId, users \in UserTable
  PROVE  /\ Accounts[tg] = AccountOf(tg)
         /\ Known(users, tg) <=> AccountOf(tg) # NoUser
         /\ Known(users, tg) =>
              /\ AccountOf(tg) \in [term : Int, status : Status, stage : {"new", "settled"}]
              /\ AccountOf(tg).term = users[tg].subUntil
              /\ AccountOf(tg).status = users[tg].status
              /\ Registering(tg) => AccountOf(tg).stage = "new"
              /\ ~Registering(tg) => AccountOf(tg).stage = "settled"
<1>1. Accounts[tg] = AccountOf(tg)
  BY DEF Accounts
<1>2. ~Known(users, tg) => AccountOf(tg) = NoUser
  BY DEF AccountOf
<1>3. ASSUME Known(users, tg)
      PROVE  /\ AccountOf(tg) \in [term : Int, status : Status, stage : {"new", "settled"}]
             /\ AccountOf(tg).term = users[tg].subUntil
             /\ AccountOf(tg).status = users[tg].status
             /\ Registering(tg) => AccountOf(tg).stage = "new"
             /\ ~Registering(tg) => AccountOf(tg).stage = "settled"
  <2>1. users[tg].subUntil \in Int /\ users[tg].status \in Status
    BY <1>3 DEF UserTable, UserRow, Known
  <2> QED  BY <1>3, <2>1 DEF AccountOf
<1> QED  BY <1>1, <1>2, <1>3, AccountAssumption DEF AccountAssumption

LEMMA SettleStep ==
  ASSUME NEW tg \in TgId, users \in UserTable, Known(users, tg), Registering(tg),
         UNCHANGED <<users, pending, wrapped>>, bot' = Idle
  PROVE  Lifecycle!Settle(tg)
<1>1. \A other \in TgId : ~Registering(other)' /\ (other # tg => ~Registering(other))
  BY DEF Registering, Idle
<1>2. AccountOf(tg)' = [AccountOf(tg) EXCEPT !.stage = "settled"]
  BY <1>1 DEF AccountOf, Known
<1>3. /\ Accounts'[tg] \in {[AccountOf(tg) EXCEPT !.stage = "settled"]}
      /\ Accounts' = [Accounts EXCEPT ![tg] = Accounts'[tg]]
  BY <1>1, <1>2, AccountBecomes
<1> QED
  BY <1>3, AccountFacts DEF Lifecycle!Settle, Lifecycle!Becomes, Accounts

LEMMA LifecycleStep ==
  ASSUME TypeOK, KeyInv, TermInv, [Next]_vars
  PROVE  [Lifecycle!Next]_<<pending, Accounts, wrapped>>
<1>0. users \in UserTable /\ bot \in BotStates /\ listed \in UserTable
  BY DEF TypeOK
<1>1. ASSUME NEW tg \in TgId, RegisterUser(tg)
      PROVE  Lifecycle!Register(tg)
  <2>1. PICK uuid \in Uuid \ issued :
          /\ users' = [users EXCEPT ![tg] = TrialRow(uuid)]
          /\ bot' = Handling("provision", tg, TrialRow(uuid), 0)
    BY <1>1 DEF RegisterUser, CreateUser
  <2>2. bot = Idle /\ ~Known(users, tg) /\ UNCHANGED <<pending, wrapped>>
    BY <1>1 DEF RegisterUser
  <2>3. /\ TrialRow(uuid) \in UserRow
        /\ TrialRow(uuid).subUntil \in Nat \ {0}
        /\ TrialRow(uuid).status = "active"
        /\ TrialRow(uuid) # NoUser
    BY TrialRowType, StorageAssumption DEF TypeOK, UserRow, TrialRow, StorageAssumption
  <2>4. users'[tg] = TrialRow(uuid) /\ Registering(tg)'
    BY <1>0, <2>1 DEF Registering, Handling, UserTable
  <2>5. AccountOf(tg)' \in [term : Nat \ {0}, status : {"active"}, stage : {"new"}]
    BY <2>3, <2>4 DEF AccountOf, Known
  <2>6. \A other \in TgId : other # tg =>
          /\ users'[other] = users[other]
          /\ Registering(other)' <=> Registering(other)
    BY <1>0, <2>1, <2>2 DEF Registering, Handling, Idle, UserTable
  <2> QED
    BY <1>0, <2>2, <2>5, <2>6, AccountBecomes, AccountFacts
    DEF Lifecycle!Register, Lifecycle!Becomes, Lifecycle!ActiveAccount, Accounts
<1>2. CASE ProvisionClient
  <2>1. /\ bot.tg \in TgId /\ Registering(bot.tg) /\ Known(users, bot.tg)
        /\ UNCHANGED <<users, pending, wrapped>>
    BY <1>0, <1>2, BotMoves DEF ProvisionClient, Registering, KeyInv, historyVars
  <2>2. CASE bot' = Idle
    BY <1>0, <2>1, <2>2, SettleStep DEF Lifecycle!Next, Lifecycle!Step
  <2>3. CASE bot' = [bot EXCEPT !.pc = "compensate"]
    <3>1. \A tg \in TgId : Registering(tg)' <=> Registering(tg)
      BY <1>0, <1>2, <2>3 DEF Registering, ProvisionClient, BotStates, Idle
    <3> QED  BY <2>1, <3>1, QuietStep
  <2> QED  BY <1>2, <2>2, <2>3 DEF ProvisionClient
<1>3. CASE CompensateRegistration
  <2>1. PICK tg \in TgId : tg = bot.tg
    BY <1>0, <1>3, BotMoves DEF CompensateRegistration
  <2>2. /\ Registering(tg) /\ Known(users, tg)
        /\ UNCHANGED <<pending, wrapped>> /\ bot' = Idle
    BY <1>3, <2>1 DEF CompensateRegistration, Registering, KeyInv, historyVars
  <2>3. CASE users' = users
    BY <1>0, <2>2, <2>3, SettleStep DEF Lifecycle!Next, Lifecycle!Step
  <2>4. CASE users' = [users EXCEPT ![tg] = NoUser]
    <3>1. AccountOf(tg)' \in {NoUser}
      BY <1>0, <2>4 DEF AccountOf, Known, UserTable
    <3>2. \A other \in TgId : other # tg =>
            /\ users'[other] = users[other]
            /\ Registering(other)' <=> Registering(other)
      BY <1>0, <2>1, <2>2, <2>4 DEF Registering, Idle, UserTable
    <3>3. Lifecycle!Withdraw(tg)
      BY <1>0, <2>2, <3>1, <3>2, AccountBecomes, AccountFacts
      DEF Lifecycle!Withdraw, Lifecycle!Becomes, Accounts
    <3> QED  BY <3>3 DEF Lifecycle!Next, Lifecycle!Step
  <2> QED  BY <1>3, <2>1, <2>3, <2>4 DEF CompensateRegistration, DeleteUser
<1>4. ASSUME NEW tg \in TgId, StartPayment(tg)
      PROVE  Lifecycle!OpenFlow(tg)
  <2>1. UNCHANGED <<users, bot, wrapped>> /\ pending' = pending \cup {tg}
    BY <1>4 DEF StartPayment, CreatePendingPayment, historyVars
  <2> QED  BY <2>1, AccountsStay DEF Lifecycle!OpenFlow, Registering, Accounts
<1>5. CASE CommitPayment
  <2>1. PICK tg \in TgId : tg = bot.tg
    BY <1>0, <1>5, BotMoves DEF CommitPayment
  <2>2. bot.row \in UserRow /\ bot.row.subUntil \in Int /\ bot.pc = "commit"
    BY <1>0, <1>5, BotMoves DEF CommitPayment, UserRow
  <2>3. \A other \in TgId : ~Registering(other) /\ ~Registering(other)'
    BY <1>0, <1>5 DEF Registering, CommitPayment, Idle, BotStates
  <2>4. CASE UNCHANGED <<users, pending, wrapped>>
    BY <2>3, <2>4, QuietStep
  <2>5. CASE /\ users' = UpdateUser(users, tg, bot.row)
             /\ pending' = DeletePendingPayment(pending, tg)
             /\ Receipt
    <3>1. /\ tg \in pending /\ Known(users, tg) /\ bot.row.status = "active"
          /\ tg \notin wrapped /\ AmountFits(bot.amount)
               => bot.row.subUntil >= users[tg].subUntil
      BY <2>1, <2>2 DEF TermInv, PaymentDue
    <3>2. /\ Known(users', tg)
          /\ users'[tg].subUntil = bot.row.subUntil
          /\ users'[tg].status = "active"
          /\ \A other \in TgId : other # tg => users'[other] = users[other]
      BY <1>0, <2>2, <2>5, <3>1, UpdateUserType
    <3>3. AccountOf(tg)' =
            [term |-> bot.row.subUntil, status |-> "active", stage |-> "settled"]
      BY <2>3, <3>2 DEF AccountOf, Known
    <3>4. /\ wrapped' \in {wrapped, wrapped \cup {tg}}
          /\ tg \notin wrapped' => tg \notin wrapped /\ AmountFits(bot.amount)
      BY <2>1, <2>5 DEF Receipt
    <3> DEFINE terms == IF tg \in wrapped' THEN Int
                        ELSE {n \in Int : n >= AccountOf(tg).term}
    <3>5. AccountOf(tg)' \in [term : terms, status : {"active"}, stage : {"settled"}]
      <4>1. bot.row.subUntil \in terms
        BY <1>0, <2>2, <3>1, <3>4, AccountFacts
      <4> QED  BY <3>3, <4>1
    <3> HIDE DEF terms
    <3>6. /\ Accounts'[tg] \in [term : terms, status : {"active"}, stage : {"settled"}]
          /\ Accounts' = [Accounts EXCEPT ![tg] = Accounts'[tg]]
      BY <2>3, <3>2, <3>5, AccountBecomes
    <3>7. Accounts[tg] = AccountOf(tg) /\ Accounts[tg] # NoUser
          /\ Accounts[tg].stage = "settled"
      BY <1>0, <2>3, <3>1, AccountFacts
    <3>8. Lifecycle!PaidTerms(tg) = terms
      BY <3>7 DEF Lifecycle!PaidTerms, Accounts, terms
    <3>9. Lifecycle!Pay(tg)
      BY <2>5, <3>1, <3>4, <3>6, <3>7, <3>8
      DEF Lifecycle!Pay, Lifecycle!Becomes, Lifecycle!ActiveAccount, Accounts,
          DeletePendingPayment
    <3> QED  BY <3>9 DEF Lifecycle!Next, Lifecycle!Step
  <2> QED  BY <1>5, <2>1, <2>4, <2>5 DEF CommitPayment, Receipt
<1>6. ASSUME NEW tg \in TgId, RecordExpiry(tg)
      PROVE  Lifecycle!Expire(tg) \/ UNCHANGED <<pending, Accounts, wrapped>>
  <2>1. listed[tg] \in UserRow /\ listed[tg] # NoUser
    BY <1>0, <1>6, StorageAssumption DEF TypeOK, RecordExpiry, UserTable, StorageAssumption
  <2>2. users' = UpdateUser(users, tg, ExpiredRow(listed[tg]))
    BY <1>6 DEF RecordExpiry
  <2>3. UNCHANGED <<pending, bot, wrapped>>
    BY <1>6 DEF RecordExpiry, historyVars
  <2>4. \A other \in TgId : Registering(other)' <=> Registering(other)
    BY <2>3 DEF Registering
  <2>5. CASE ~Known(users, tg)
    BY <2>2, <2>3, <2>4, <2>5, QuietStep DEF UpdateUser
  <2>6. CASE Known(users, tg)
    <3>1. users[tg].subUntil > 0 \/ tg \in wrapped
      BY <2>1, <2>6 DEF TermInv, EndsInOrder
    <3>2. /\ Known(users', tg)
          /\ users'[tg].subUntil = 0
          /\ users'[tg].status = "inactive"
          /\ \A other \in TgId : other # tg => users'[other] = users[other]
      BY <1>0, <2>1, <2>2, <2>6, ExpiredRowType, UpdateUserType
    <3>3. AccountOf(tg)' =
            [term |-> 0, status |-> "inactive", stage |-> AccountOf(tg).stage]
      <4>1. CASE Registering(tg)
        BY <2>4, <2>6, <3>2, <4>1 DEF AccountOf, Known
      <4>2. CASE ~Registering(tg)
        BY <2>4, <2>6, <3>2, <4>2 DEF AccountOf, Known
      <4> QED  BY <4>1, <4>2
    <3>4. Lifecycle!Expire(tg)
      BY <1>0, <2>3, <2>4, <2>6, <3>1, <3>2, <3>3, AccountBecomes, AccountFacts
      DEF Lifecycle!Expire, Lifecycle!Becomes, Accounts
    <3> QED  BY <3>4
  <2> QED  BY <2>5, <2>6
<1>7. CASE Crash
  <2>1. UNCHANGED <<users, pending, wrapped>> /\ bot' = Idle
    BY <1>7 DEF Crash, historyVars
  <2>2. CASE bot.pc \in {"provision", "compensate"}
    <3>1. bot.tg \in TgId /\ Registering(bot.tg) /\ Known(users, bot.tg)
      BY <1>0, <2>2, BotMoves DEF Registering, KeyInv
    <3> QED  BY <1>0, <2>1, <3>1, SettleStep DEF Lifecycle!Next, Lifecycle!Step
  <2>3. CASE bot.pc \notin {"provision", "compensate"}
    <3>1. \A tg \in TgId : Registering(tg)' <=> Registering(tg)
      BY <2>1, <2>3 DEF Registering, Idle
    <3> QED  BY <2>1, <3>1, QuietStep
  <2> QED  BY <2>2, <2>3
<1>8. ASSUME UNCHANGED <<users, pending, bot, wrapped>>
      PROVE  UNCHANGED <<pending, Accounts, wrapped>>
  BY <1>8, QuietStep DEF Registering
<1>9. ASSUME NEW tg \in TgId, NEW amount \in Amount, CompletePayment(tg, amount)
      PROVE  UNCHANGED <<pending, Accounts, wrapped>>
  <2>1. \A other \in TgId : ~Registering(other) /\ ~Registering(other)'
    BY <1>9 DEF CompletePayment, Registering, Idle, Handling
  <2> QED  BY <1>9, <2>1, QuietStep DEF CompletePayment, storeVars, historyVars
<1>10. CASE GrantAccess
  <2>1. \A other \in TgId : ~Registering(other) /\ ~Registering(other)'
    BY <1>10 DEF GrantAccess, Registering, Idle
  <2> QED  BY <1>10, <2>1, QuietStep DEF GrantAccess, historyVars
<1>11. ASSUME NEW tg \in TgId, GenerateVPNKey(tg) \/ DisableClient(tg)
       PROVE  UNCHANGED <<pending, Accounts, wrapped>>
  BY <1>8, <1>11 DEF GenerateVPNKey, DisableClient, storeVars, historyVars
<1>12. ASSUME ListExpiredUsers \/ RecordExpiryFails \/ Tick \/ UNCHANGED vars
       PROVE  UNCHANGED <<pending, Accounts, wrapped>>
  BY <1>8, <1>12
  DEF ListExpiredUsers, RecordExpiryFails, Tick, vars, storeVars, historyVars
<1> QED
  BY <1>1, <1>2, <1>3, <1>4, <1>5, <1>6, <1>7, <1>9, <1>10, <1>11, <1>12
  DEF Next, BotStep, SweepStep, Lifecycle!Next, Lifecycle!Step

(***************************************************************************)
(* Whatever the goroutines do, with every fault and crash and any amounts, *)
(* each account lives the life that SubscriptionLifecycle describes.       *)
(***************************************************************************)
THEOREM ServiceImplementsLifecycle == Spec => LifecycleSpec
<1>1. TypeOK /\ KeyInv /\ [Next]_vars => KeyInv'
  BY KeyStep
<1>2. TypeOK /\ KeyInv /\ TermInv /\ [Next]_vars =>
        [Lifecycle!Next]_<<pending, [tg \in TgId |-> AccountOf(tg)], wrapped>>
  BY LifecycleStep DEF Accounts
<1> QED
  BY <1>1, <1>2, TermIsKept, KeyInitially, LifecycleInitially, TypeCorrect, PTL
  DEF Spec, LifecycleSpec, Lifecycle!Spec
-----------------------------------------------------------------------------
(***************************************************************************)
(* What the comments of the code promise, and when it is true.  Three runs *)
(* show that it is not always; the three theorems below name all that can  *)
(* be in the way: an amount that buys no day or more than a Duration can   *)
(* hold; a payment committed while the sweep holds a copy of the row; and, *)
(* for access that outlives a subscription, Xray errors or a sweep that    *)
(* meets the bot loop at the same subscriber.                              *)
(***************************************************************************)

(* The steps by what they write into the table of users. *)
LEMMA RowWrites ==
  ASSUME [Next]_vars
  PROVE  \/ \E tg \in TgId : RegisterUser(tg)
         \/ CompensateRegistration
         \/ /\ CommitPayment
            /\ users' = UpdateUser(users, bot.tg, bot.row)
            /\ received' = [received EXCEPT ![bot.tg] = @ + bot.amount]
         \/ \E tg \in TgId : RecordExpiry(tg)
         \/ UNCHANGED <<users, received>>
<1>1. CASE CommitPayment
  BY <1>1 DEF CommitPayment, Receipt
<1>2. ASSUME NEW tg \in TgId,
             \/ GenerateVPNKey(tg) \/ StartPayment(tg) \/ DisableClient(tg)
             \/ \E amount \in Amount : CompletePayment(tg, amount)
      PROVE  UNCHANGED <<users, received>>
  BY <1>2 DEF GenerateVPNKey, StartPayment, DisableClient, CompletePayment,
              storeVars, historyVars
<1>3. ASSUME \/ ProvisionClient \/ GrantAccess \/ ListExpiredUsers
             \/ RecordExpiryFails \/ Crash \/ Tick \/ UNCHANGED vars
      PROVE  UNCHANGED <<users, received>>
  BY <1>3 DEF ProvisionClient, GrantAccess, ListExpiredUsers, RecordExpiryFails,
              Crash, Tick, vars, storeVars, historyVars
<1> QED  BY <1>1, <1>2, <1>3 DEF Next, BotStep, SweepStep

(* What a sweep writes: the row it listed, expired. *)
LEMMA ExpiryWrites ==
  ASSUME TypeOK, NEW tg \in TgId, RecordExpiry(tg)
  PROVE  /\ listed[tg] \in UserRow
         /\ \A other \in TgId : other # tg => users'[other] = users[other]
         /\ Known(users', tg) <=> Known(users, tg)
         /\ Known(users, tg) =>
              /\ users'[tg].uuid = users[tg].uuid
              /\ users'[tg].balance = listed[tg].balance
              /\ users'[tg].status = "inactive"
<1>1. listed[tg] \in UserRow
  BY StorageAssumption DEF RecordExpiry, TypeOK, UserTable, StorageAssumption
<1>2. /\ ExpiredRow(listed[tg]) \in UserRow
      /\ ExpiredRow(listed[tg]).balance = listed[tg].balance
      /\ ExpiredRow(listed[tg]).status = "inactive"
  BY <1>1, ExpiredRowType
<1>3. users' = UpdateUser(users, tg, ExpiredRow(listed[tg]))
  BY DEF RecordExpiry
<1> QED  BY <1>1, <1>2, <1>3, UpdateUserType DEF TypeOK

(* What a commit writes: the bot loop's copy. *)
LEMMA CommitWrites ==
  ASSUME TypeOK, bot.pc = "commit", users' = UpdateUser(users, bot.tg, bot.row)
  PROVE  /\ bot.tg \in TgId /\ bot.row \in UserRow /\ bot.amount \in Nat
         /\ \A other \in TgId : other # bot.tg => users'[other] = users[other]
         /\ Known(users', bot.tg) <=> Known(users, bot.tg)
         /\ Known(users, bot.tg) =>
              /\ users'[bot.tg].uuid = users[bot.tg].uuid
              /\ users'[bot.tg].balance = bot.row.balance
              /\ users'[bot.tg].subUntil = bot.row.subUntil
              /\ users'[bot.tg].status = bot.row.status
<1>1. bot.tg \in TgId /\ bot.row \in UserRow /\ bot.amount \in Nat
  BY BotMoves DEF TypeOK
<1> QED  BY <1>1, UpdateUserType DEF TypeOK

(* Any other step that leaves rows behind only drops some. *)
LEMMA CompensationDrops ==
  ASSUME TypeOK, CompensateRegistration, NEW tg \in TgId
  PROVE  /\ users'[tg] = users[tg] \/ (tg = bot.tg /\ ~Known(users', tg))
         /\ bot' = Idle
  BY DEF CompensateRegistration, DeleteUser, TypeOK, UserTable, Known

(* A payment is committed from a copy made by CompletePayment. *)
LEMMA CommitComesFromCopy ==
  ASSUME TypeOK, [Next]_vars, bot'.pc = "commit"
  PROVE  \/ \E tg \in TgId, amount \in Amount : CompletePayment(tg, amount)
         \/ UNCHANGED bot
<1>1. ASSUME NEW tg \in TgId, RegisterUser(tg)
      PROVE  FALSE
  BY <1>1 DEF RegisterUser, Handling
<1>2. ASSUME \/ bot' = Idle
             \/ ProvisionClient /\ bot' = [bot EXCEPT !.pc = "compensate"]
             \/ CommitPayment /\ bot' = [bot EXCEPT !.pc = "grant"]
      PROVE  FALSE
  <2>1. bot \in BotStates
    BY DEF TypeOK
  <2> QED  BY <1>2, <2>1 DEF Idle, BotStates
<1> QED  BY <1>1, <1>2, BotSteps

(* user.go: SubUntil is the time until which the subscription is active. *)
AmountsBuyDays == \A amount \in Amount : amount >= PricePerDay /\ AmountFits(amount)

TermsHaveEnds ==
  /\ ActiveHasTerm
  /\ bot.pc = "commit" => bot.row.subUntil > 0

LEMMA EndsInitially == Init => TermsHaveEnds
  BY DEF Init, TermsHaveEnds, ActiveHasTerm, Nobody, Known, Idle

LEMMA PaidRowHasEnd ==
  ASSUME AmountsBuyDays, now \in Nat, NEW row \in UserRow, NEW amount \in Amount
  PROVE  PaidRow(row, amount).subUntil > 0
<1>1. /\ amount \in Nat /\ AmountFits(amount) /\ amount >= PricePerDay
      /\ row.subUntil \in Int
  BY AmountTypes DEF AmountsBuyDays, UserRow
<1>2. /\ ExtendSubscription(row.subUntil, now, amount, PricePerDay) \in Int
      /\ ExtendSubscription(row.subUntil, now, amount, PricePerDay) > now
  BY <1>1, ExtendKeepsTime DEF IsActive
<1>3. PaidRow(row, amount).subUntil = ExtendSubscription(row.subUntil, now, amount, PricePerDay)
  BY DEF PaidRow, UserRow
<1> QED  BY <1>2, <1>3

LEMMA EndsStep ==
  ASSUME AmountsBuyDays, TypeOK, TermsHaveEnds, [Next]_vars
  PROVE  TermsHaveEnds'
<1>1. ASSUME NEW tg \in TgId, Known(users', tg), users'[tg].status = "active"
      PROVE  users'[tg].subUntil > 0
  <2>1. ASSUME NEW new \in TgId, RegisterUser(new)
        PROVE  users'[tg].subUntil > 0
    <3>1. PICK uuid \in Uuid : users' = [users EXCEPT ![new] = TrialRow(uuid)]
      BY <2>1 DEF RegisterUser, CreateUser
    <3>2. TrialRow(uuid).subUntil > 0
      BY TrialRowType DEF TypeOK
    <3> QED  BY <1>1, <3>1, <3>2 DEF TermsHaveEnds, ActiveHasTerm, Known, TypeOK, UserTable
  <2>2. CASE CompensateRegistration
    BY <1>1, <2>2, CompensationDrops DEF TermsHaveEnds, ActiveHasTerm, Known
  <2>3. CASE CommitPayment /\ users' = UpdateUser(users, bot.tg, bot.row)
    <3>1. bot.pc = "commit" /\ bot.row.subUntil > 0
      BY <2>3 DEF CommitPayment, TermsHaveEnds
    <3> QED  BY <1>1, <2>3, <3>1, CommitWrites DEF TermsHaveEnds, ActiveHasTerm, Known
  <2>4. ASSUME NEW old \in TgId, RecordExpiry(old)
        PROVE  users'[tg].subUntil > 0
    BY <1>1, <2>4, ExpiryWrites DEF TermsHaveEnds, ActiveHasTerm, Known
  <2>5. CASE UNCHANGED users
    BY <1>1, <2>5 DEF TermsHaveEnds, ActiveHasTerm, Known
  <2> QED  BY <2>1, <2>2, <2>3, <2>4, <2>5, RowWrites
<1>2. ASSUME bot'.pc = "commit"
      PROVE  bot'.row.subUntil > 0
  <2>1. ASSUME NEW tg \in TgId, NEW amount \in Amount, CompletePayment(tg, amount)
        PROVE  bot'.row.subUntil > 0
    <3>1. bot'.row = PaidRow(users[tg], amount) /\ users[tg] \in UserRow
      BY <2>1 DEF CompletePayment, Handling, Known, TypeOK, UserTable
    <3> QED  BY <3>1, PaidRowHasEnd DEF TypeOK
  <2> QED  BY <1>2, <2>1, CommitComesFromCopy DEF TermsHaveEnds
<1> QED  BY <1>1, <1>2 DEF TermsHaveEnds, ActiveHasTerm, Known

(***************************************************************************)
(* If every amount buys a day at least, and no more days than a Duration   *)
(* can hold, every active subscription has an end: an amount below the     *)
(* price of a day, as service_no_term shows, and one that overflows are    *)
(* the only causes.                                                        *)
(***************************************************************************)
THEOREM ActiveHasTermForWholeDays ==
  ASSUME AmountsBuyDays
  PROVE  Spec => []ActiveHasTerm
<1>1. TypeOK /\ TermsHaveEnds /\ [Next]_vars => TermsHaveEnds'
  BY EndsStep
<1>2. TermsHaveEnds => ActiveHasTerm
  BY DEF TermsHaveEnds
<1> QED  BY <1>1, <1>2, EndsInitially, TypeCorrect, PTL DEF Spec
-----------------------------------------------------------------------------
(* user.go: Balance is the total amount that the user has paid.  No copy in *)
(* flight is short of that, as long as no commit makes the sweep's one so.  *)
TotalsFit == DefaultTrialBalance + MaxReceived < IntWrap

SweepMissesCommits == [][CommitPayment => listed[bot.tg] = NoUser]_vars

ReceiptsInv ==
  /\ BalanceIsReceipts
  /\ \A tg \in TgId : listed[tg] # NoUser => listed[tg].balance >= Total(tg)
  /\ bot.pc = "commit" => bot.row.balance >= Total(bot.tg) + bot.amount
  /\ \A tg \in TgId : ~Known(users, tg) \/ Registering(tg) => received[tg] = 0

LEMMA ReceiptsInitially == Init => ReceiptsInv
  BY DEF Init, ReceiptsInv, BalanceIsReceipts, Nobody, Known, Idle

LEMMA PaidRowAdds ==
  ASSUME TotalsFit, MoneyInv, TypeOK,
         NEW tg \in TgId, NEW amount \in Amount, CompletePayment(tg, amount)
  PROVE  /\ users[tg] \in UserRow /\ amount \in Nat
         /\ PaidRow(users[tg], amount).balance = users[tg].balance + amount
<1>1. users[tg] \in UserRow /\ Known(users, tg) /\ amount \in Nat
  BY AmountTypes DEF CompletePayment, Known, TypeOK, UserTable
<1>2. users[tg].balance \in Int /\ users[tg].balance <= DefaultTrialBalance + received[tg]
  BY <1>1 DEF MoneyInv, BalanceNeverExceedsReceipts, UserRow
<1>3. received[tg] \in Nat /\ received[tg] + amount <= MaxReceived
  BY DEF CompletePayment, TypeOK
<1>4. /\ DefaultTrialBalance \in Nat /\ MaxReceived \in Nat /\ IntWrap \in Nat
      /\ DefaultTrialBalance + MaxReceived < IntWrap
  BY PricingAssumption, ServiceAssumption DEF PricingAssumption, ServiceAssumption, TotalsFit
<1>5. users[tg].balance + amount < IntWrap
  BY <1>1, <1>2, <1>3, <1>4
<1>6. PaidRow(users[tg], amount).balance = AddBalance(users[tg].balance, amount)
  BY <1>1 DEF PaidRow, UserRow
<1> QED  BY <1>1, <1>5, <1>6 DEF AddBalance

(* A subscriber who has paid is registered for good. *)
LEMMA PayersStay ==
  ASSUME TypeOK, HandlerInv, TermInv, ReceiptsInv, [Next]_vars,
         NEW tg \in TgId, ~Known(users', tg) \/ Registering(tg)'
  PROVE  received'[tg] = 0
<1>0. bot \in BotStates /\ received \in [TgId -> Nat]
  BY DEF TypeOK
<1>1. CASE CommitPayment /\ received' = [received EXCEPT ![bot.tg] = @ + bot.amount]
  <2>1. bot.pc = "commit" /\ bot.tg \in TgId /\ Known(users, bot.tg)
    BY <1>0, <1>1, BotMoves DEF CommitPayment, TermInv, PaymentDue
  <2>2. bot'.pc \notin {"provision", "compensate"} /\ ~CompensateRegistration
    BY <1>0, <1>1 DEF CommitPayment, CompensateRegistration, BotStates, Idle
  <2>3. ~Known(users', tg)
    BY <2>2 DEF Registering
  <2>4. tg # bot.tg /\ ~Known(users, tg)
    BY <2>1, <2>2, <2>3, RowsAreKept
  <2> QED  BY <1>0, <1>1, <2>4 DEF ReceiptsInv
<1>2. CASE UNCHANGED received
  <2>1. CASE ~Known(users', tg)
    <3>1. CASE CompensateRegistration
      BY <1>2, <2>1, <3>1, CompensationDrops
      DEF ReceiptsInv, Registering, CompensateRegistration, Known
    <3>2. CASE ~CompensateRegistration
      BY <1>2, <2>1, <3>2, RowsAreKept DEF ReceiptsInv
    <3> QED  BY <3>1, <3>2
  <2>2. CASE Registering(tg)'
    <3>1. ASSUME NEW new \in TgId, RegisterUser(new)
          PROVE  ~Known(users, tg)
      BY <2>2, <3>1 DEF RegisterUser, Registering, Handling
    <3>2. ASSUME \/ UNCHANGED bot
                 \/ ProvisionClient /\ bot' = [bot EXCEPT !.pc = "compensate"]
          PROVE  Registering(tg)
      BY <1>0, <2>2, <3>2 DEF ProvisionClient, Registering, BotStates, Idle
    <3>3. ASSUME \/ bot' = Idle
                 \/ CommitPayment /\ bot' = [bot EXCEPT !.pc = "grant"]
                 \/ \E payer \in TgId, amount \in Amount : CompletePayment(payer, amount)
          PROVE  FALSE
      BY <1>0, <2>2, <3>3
      DEF Registering, CommitPayment, CompletePayment, Handling, BotStates, Idle
    <3> QED  BY <1>2, <3>1, <3>2, <3>3, BotSteps DEF ReceiptsInv
  <2> QED  BY <2>1, <2>2
<1>3. \/ received' = [received EXCEPT ![bot.tg] = @ + bot.amount] /\ CommitPayment
      \/ UNCHANGED received
  <2>1. ASSUME NEW other \in TgId, RegisterUser(other) \/ RecordExpiry(other)
        PROVE  UNCHANGED received
    BY <2>1 DEF RegisterUser, RecordExpiry, historyVars
  <2>2. CASE CompensateRegistration
    BY <2>2 DEF CompensateRegistration, historyVars
  <2> QED  BY <2>1, <2>2, RowWrites
<1> QED  BY <1>1, <1>2, <1>3

LEMMA ReceiptsStep ==
  ASSUME TotalsFit, TypeOK, HandlerInv, MoneyInv, TermInv, ReceiptsInv,
         [Next]_vars, [CommitPayment => listed[bot.tg] = NoUser]_vars
  PROVE  ReceiptsInv'
<1>0. /\ DefaultTrialBalance \in Nat /\ \A tg \in TgId : received[tg] \in Nat
      /\ received \in [TgId -> Nat] /\ bot \in BotStates
  BY AmountTypes DEF TypeOK
<1> USE DEF Total
<1>1. CASE CommitPayment
  <2>1. /\ bot.pc = "commit" /\ bot.tg \in TgId /\ Known(users, bot.tg)
        /\ bot.row \in UserRow /\ bot.amount \in Nat
        /\ bot.row.balance >= DefaultTrialBalance + received[bot.tg] + bot.amount
    BY <1>0, <1>1, BotMoves DEF CommitPayment, TermInv, PaymentDue, ReceiptsInv
  <2>2. bot'.pc # "commit" /\ listed' = listed
    BY <1>0, <1>1 DEF CommitPayment, sweepVars, BotStates, Idle
  <2>3. CASE UNCHANGED <<users, received>>
    <3>1. \A tg \in TgId : ~Known(users', tg) \/ Registering(tg)' => received'[tg] = 0
      BY PayersStay
    <3> QED  BY <2>2, <2>3, <3>1 DEF ReceiptsInv, BalanceIsReceipts, Known
  <2>4. CASE /\ users' = UpdateUser(users, bot.tg, bot.row)
             /\ received' = [received EXCEPT ![bot.tg] = @ + bot.amount]
             /\ bot' = [bot EXCEPT !.pc = "grant"]
    <3>1. listed[bot.tg] = NoUser
      <4>1. bot' # bot
        BY <1>0, <2>1, <2>4 DEF BotStates, Idle
      <4> QED  BY <1>1, <4>1 DEF vars
    <3>2. /\ received'[bot.tg] = received[bot.tg] + bot.amount
          /\ \A tg \in TgId : tg # bot.tg => received'[tg] = received[tg]
      BY <1>0, <2>1, <2>4
    <3>3. ASSUME NEW tg \in TgId, Known(users', tg)
          PROVE  users'[tg].balance >= DefaultTrialBalance + received'[tg]
      <4>1. CASE tg = bot.tg
        <5>1. users'[tg].balance = bot.row.balance /\ bot.row.balance \in Int
          BY <2>1, <2>4, <4>1, CommitWrites DEF UserRow
        <5> QED  BY <1>0, <2>1, <3>2, <4>1, <5>1
      <4>2. CASE tg # bot.tg
        BY <2>1, <2>4, <3>2, <3>3, <4>2, CommitWrites
        DEF ReceiptsInv, BalanceIsReceipts, Known
      <4> QED  BY <4>1, <4>2
    <3>4. \A tg \in TgId : listed'[tg] # NoUser =>
            listed'[tg].balance >= DefaultTrialBalance + received'[tg]
      BY <2>2, <3>1, <3>2 DEF ReceiptsInv
    <3>5. \A tg \in TgId : ~Known(users', tg) \/ Registering(tg)' => received'[tg] = 0
      BY PayersStay
    <3> QED  BY <2>2, <3>3, <3>4, <3>5 DEF ReceiptsInv, BalanceIsReceipts, Known
  <2> QED  BY <1>1, <2>3, <2>4 DEF CommitPayment, Receipt
<1>2. CASE ~CommitPayment
  <2>1. received' = received
    <3>1. ASSUME NEW tg \in TgId, RegisterUser(tg) \/ RecordExpiry(tg)
          PROVE  received' = received
      BY <3>1 DEF RegisterUser, RecordExpiry, historyVars
    <3>2. CASE CompensateRegistration
      BY <3>2 DEF CompensateRegistration, historyVars
    <3> QED  BY <1>2, <3>1, <3>2, RowWrites
  <2>2. ASSUME NEW tg \in TgId, Known(users', tg)
        PROVE  users'[tg].balance >= DefaultTrialBalance + received[tg]
    <3>1. ASSUME NEW new \in TgId, RegisterUser(new)
          PROVE  users'[tg].balance >= DefaultTrialBalance + received[tg]
      <4>1. PICK uuid \in Uuid : users' = [users EXCEPT ![new] = TrialRow(uuid)]
        BY <3>1 DEF RegisterUser, CreateUser
      <4>2. TrialRow(uuid).balance = DefaultTrialBalance
        BY DEF TrialRow
      <4>3. received[new] = 0
        BY <3>1 DEF RegisterUser, ReceiptsInv
      <4> QED  BY <1>0, <2>2, <4>1, <4>2, <4>3
               DEF ReceiptsInv, BalanceIsReceipts, Known, TypeOK, UserTable
    <3>2. CASE CompensateRegistration
      BY <2>2, <3>2, CompensationDrops DEF ReceiptsInv, BalanceIsReceipts, Known
    <3>3. ASSUME NEW old \in TgId, RecordExpiry(old)
          PROVE  users'[tg].balance >= DefaultTrialBalance + received[tg]
      <4>1. listed[old] # NoUser
        BY <3>3, ExpiryWrites, StorageAssumption DEF StorageAssumption
      <4> QED  BY <2>2, <3>3, <4>1, ExpiryWrites DEF ReceiptsInv, BalanceIsReceipts, Known
    <3>4. CASE UNCHANGED users
      BY <2>2, <3>4 DEF ReceiptsInv, BalanceIsReceipts, Known
    <3> QED  BY <1>2, <3>1, <3>2, <3>3, <3>4, RowWrites
  <2>3. ASSUME NEW tg \in TgId, listed'[tg] # NoUser
        PROVE  listed'[tg].balance >= DefaultTrialBalance + received[tg]
    BY <2>3, ListedSteps DEF ReceiptsInv, BalanceIsReceipts
  <2>4. ASSUME bot'.pc = "commit"
        PROVE  bot'.row.balance >= DefaultTrialBalance + received[bot'.tg] + bot'.amount
    <3>1. ASSUME NEW tg \in TgId, NEW amount \in Amount, CompletePayment(tg, amount)
          PROVE  bot'.row.balance >= DefaultTrialBalance + received[bot'.tg] + bot'.amount
      <4>1. /\ bot'.tg = tg /\ bot'.amount = amount
            /\ bot'.row = PaidRow(users[tg], amount)
            /\ Known(users, tg)
        BY <3>1 DEF CompletePayment, Handling
      <4>2. /\ amount \in Nat /\ users[tg].balance \in Int
            /\ PaidRow(users[tg], amount).balance = users[tg].balance + amount
        BY <3>1, PaidRowAdds DEF UserRow
      <4>3. users[tg].balance >= DefaultTrialBalance + received[tg]
        BY <4>1 DEF ReceiptsInv, BalanceIsReceipts
      <4> QED  BY <1>0, <4>1, <4>2, <4>3
    <3> QED  BY <2>4, <3>1, CommitComesFromCopy DEF ReceiptsInv
  <2>5. \A tg \in TgId : ~Known(users', tg) \/ Registering(tg)' => received'[tg] = 0
    BY PayersStay
  <2> QED  BY <2>1, <2>2, <2>3, <2>4, <2>5 DEF ReceiptsInv, BalanceIsReceipts, Known
<1> QED  BY <1>1, <1>2

(***************************************************************************)
(* If no payment is committed for a subscriber of whose row the sweep      *)
(* holds a copy, no payment is ever lost, under any other interleaving and *)
(* any faults: as long as totals fit an int, what service_lost_payment     *)
(* shows has no other cause.                                               *)
(***************************************************************************)
THEOREM OnlySweepLosesPayments ==
  ASSUME TotalsFit
  PROVE  Spec /\ SweepMissesCommits => []BalanceIsReceipts
<1>1. TypeOK /\ HandlerInv /\ MoneyInv /\ TermInv /\ ReceiptsInv /\ [Next]_vars
        /\ [CommitPayment => listed[bot.tg] = NoUser]_vars => ReceiptsInv'
  BY ReceiptsStep
<1>2. TypeOK /\ MoneyInv /\ [Next]_vars => MoneyInv'
  BY MoneyStep
<1>3. ServedInv => HandlerInv
  BY DEF ServedInv
<1>4. ReceiptsInv => BalanceIsReceipts
  BY DEF ReceiptsInv
<1> QED
  BY <1>1, <1>2, <1>3, <1>4, ReceiptsInitially, MoneyInitially, TypeCorrect,
     ServedIsKept, TermIsKept, PTL
  DEF Spec, SweepMissesCommits

-----------------------------------------------------------------------------
(* "CheckExpirations finds expired subscriptions and disables VPN access."  *)
(* The sweep and the bot loop do not meet at a subscriber.                  *)
SweepApart == \A tg \in TgId : listed[tg] # NoUser => bot.tg # tg

(* A row that the sweep has listed is still there, with its uuid; the bot   *)
(* loop gives access to active subscribers; and a subscriber whose row says *)
(* inactive, or for whom the sweep has removed the client, has none.        *)
DisabledInv ==
  /\ \A tg \in TgId : listed[tg] # NoUser =>
       Known(users, tg) /\ listed[tg].uuid = users[tg].uuid
  /\ bot.pc \in {"provision", "grant"} => users[bot.tg].status = "active"
  /\ \A tg \in TgId :
       Known(users, tg) /\ (users[tg].status = "inactive" \/ current = tg)
         => users[tg].uuid \notin config

LEMMA DisabledInitially == Init => DisabledInv
  BY DEF Init, DisabledInv, Nobody, Known, Idle

LEMMA RemoveClientTakesAway ==
  ASSUME "xray" \notin Faults, NEW uuid, NEW ok \in BOOLEAN, RemoveClient(uuid, ok)
  PROVE  config' = config \ {uuid}
  BY DEF RemoveClient, ReplaceConfig, FailsUntouched

(* Listed rows stay theirs: only the bot loop could take one back. *)
LEMMA ListedStaysOwn ==
  ASSUME TypeOK, SweepApart, DisabledInv, [Next]_vars,
         NEW tg \in TgId, listed'[tg] # NoUser
  PROVE  Known(users', tg) /\ listed'[tg].uuid = users'[tg].uuid
<1>1. Known(users, tg) /\ listed'[tg].uuid = users[tg].uuid
  BY ListedSteps DEF DisabledInv
<1>2. CASE CompensateRegistration
  <2>1. listed' = listed
    BY <1>2 DEF CompensateRegistration, sweepVars
  <2>2. users'[tg] = users[tg]
    BY <1>2, <2>1, CompensationDrops DEF SweepApart
  <2> QED  BY <1>1, <2>2 DEF Known
<1>3. CASE ~CompensateRegistration
  BY <1>1, <1>3, RowsAreKept
<1> QED  BY <1>2, <1>3

(* Access is given to active subscribers only. *)
LEMMA GrantedIsActive ==
  ASSUME TypeOK, HandlerInv, TermInv, SweepApart, DisabledInv, [Next]_vars,
         bot'.pc \in {"provision", "grant"}
  PROVE  users'[bot'.tg].status = "active"
<1>0. bot \in BotStates
  BY DEF TypeOK
<1>1. ASSUME NEW new \in TgId, RegisterUser(new)
      PROVE  users'[bot'.tg].status = "active"
  <2>1. PICK uuid \in Uuid :
          /\ users' = [users EXCEPT ![new] = TrialRow(uuid)]
          /\ bot' = Handling("provision", new, TrialRow(uuid), 0)
    BY <1>1 DEF RegisterUser, CreateUser
  <2> QED  BY <2>1 DEF Handling, TrialRow, TypeOK, UserTable
<1>2. CASE CommitPayment /\ bot' = [bot EXCEPT !.pc = "grant"]
  <2>1. bot.pc = "commit" /\ bot'.tg = bot.tg /\ bot' # Idle
    BY <1>0, <1>2 DEF CommitPayment, BotStates, Idle
  <2>2. users' = UpdateUser(users, bot.tg, bot.row)
    BY <1>2, <2>1 DEF CommitPayment
  <2>3. Known(users, bot.tg) /\ bot.row.status = "active"
    BY <2>1 DEF TermInv, PaymentDue
  <2> QED  BY <2>1, <2>2, <2>3, CommitWrites
<1>3. CASE UNCHANGED bot
  <2>1. bot.tg \in TgId /\ users[bot.tg].status = "active" /\ listed[bot.tg] = NoUser
    BY <1>0, <1>3, BotMoves DEF DisabledInv, SweepApart
  <2>2. ASSUME NEW tg \in TgId, RegisterUser(tg)
        PROVE  FALSE
    BY <1>3, <2>2 DEF RegisterUser, Handling, Idle
  <2>3. ~CompensateRegistration
    BY <1>3 DEF CompensateRegistration
  <2>4. ~CommitPayment
    BY <1>3 DEF CommitPayment
  <2>5. ASSUME NEW tg \in TgId, RecordExpiry(tg)
        PROVE  users'[bot.tg] = users[bot.tg]
    <3>1. tg # bot.tg
      BY <2>1, <2>5, ExpiryWrites, StorageAssumption DEF StorageAssumption
    <3> QED  BY <2>1, <2>5, <3>1, ExpiryWrites
  <2> QED  BY <1>3, <2>1, <2>2, <2>3, <2>4, <2>5, RowWrites
<1>4. ASSUME \/ \E tg \in TgId, amount \in Amount : CompletePayment(tg, amount)
             \/ bot' = Idle
             \/ ProvisionClient /\ bot' = [bot EXCEPT !.pc = "compensate"]
      PROVE  FALSE
  BY <1>0, <1>4 DEF CompletePayment, Handling, ProvisionClient, BotStates, Idle
<1> QED  BY <1>1, <1>2, <1>3, <1>4, BotSteps

LEMMA DisabledStep ==
  ASSUME "xray" \notin Faults,
         TypeOK, HandlerInv, UuidsApart, TermInv, SweepApart, DisabledInv, [Next]_vars
  PROVE  DisabledInv'
<1>0. /\ bot \in BotStates /\ users \in UserTable
      /\ HandlerInv /\ UuidsApart /\ SweepApart /\ DisabledInv
      /\ \A tg \in TgId : tg # NoUser
      /\ current # NoUser => current \in TgId /\ listed[current] # NoUser
  BY StorageAssumption DEF TypeOK, StorageAssumption
<1>1. ASSUME NEW tg \in TgId, listed'[tg] # NoUser
      PROVE  Known(users', tg) /\ listed'[tg].uuid = users'[tg].uuid
  BY <1>0, <1>1, ListedStaysOwn
<1>2. bot'.pc \in {"provision", "grant"} => users'[bot'.tg].status = "active"
  BY <1>0, GrantedIsActive
<1> DEFINE Barred(tg) == Known(users, tg) /\ (users[tg].status = "inactive" \/ current = tg)
<1>3. ASSUME NEW tg \in TgId, Barred(tg)'
      PROVE  users'[tg].uuid \notin config'
  <2>1. ASSUME NEW new \in TgId, RegisterUser(new)
        PROVE  users'[tg].uuid \notin config'
    <3>1. UNCHANGED <<config, current>> /\ ~Known(users, new)
      BY <2>1 DEF RegisterUser, sweepVars
    <3>2. PICK uuid \in Uuid : users' = [users EXCEPT ![new] = TrialRow(uuid)]
      BY <2>1 DEF RegisterUser, CreateUser
    <3>3. TrialRow(uuid).status = "active"
      BY DEF TrialRow
    <3>4. tg # new
      BY <1>0, <1>3, <3>1, <3>2, <3>3 DEF DisabledInv, UserTable
    <3>5. users'[tg] = users[tg]
      BY <1>0, <3>2, <3>4 DEF UserTable
    <3> QED  BY <1>0, <1>3, <3>1, <3>5 DEF DisabledInv, Known
  <2>2. ASSUME ProvisionClient \/ GrantAccess
        PROVE  users'[tg].uuid \notin config'
    <3>1. /\ UNCHANGED <<users, current>>
          /\ bot.tg \in TgId /\ Known(users, bot.tg) /\ users[bot.tg].uuid = bot.row.uuid
          /\ users[bot.tg].status = "active"
      BY <1>0, <2>2, BotMoves
      DEF ProvisionClient, GrantAccess, sweepVars, HandlerInv, DisabledInv
    <3>2. config' \in {config, config \cup {bot.row.uuid}}
      BY <2>2, AddClientToFile DEF ProvisionClient, GrantAccess
    <3>3. tg # bot.tg
      BY <1>0, <1>3, <3>1 DEF SweepApart
    <3>4. users[tg].uuid # bot.row.uuid
      BY <1>0, <1>3, <3>1, <3>3 DEF UuidsApart, Known
    <3> QED  BY <1>0, <1>3, <3>1, <3>2, <3>4 DEF DisabledInv, Known
  <2>3. CASE CompensateRegistration
    <3>1. UNCHANGED <<config, current>>
      BY <2>3 DEF CompensateRegistration, sweepVars
    <3>2. users'[tg] = users[tg]
      BY <1>3, <2>3, CompensationDrops DEF Known
    <3> QED  BY <1>0, <1>3, <3>1, <3>2 DEF DisabledInv, Known
  <2>4. CASE CommitPayment
    <3>1. UNCHANGED <<config, current>> /\ bot.pc = "commit"
      BY <2>4 DEF CommitPayment, sweepVars
    <3>2. CASE UNCHANGED users
      BY <1>0, <1>3, <3>1, <3>2 DEF DisabledInv, Known
    <3>3. CASE users' = UpdateUser(users, bot.tg, bot.row)
      <4>1. bot.tg \in TgId /\ Known(users, bot.tg) /\ bot.row.status = "active"
        BY <1>0, <3>1, BotMoves DEF TermInv, PaymentDue
      <4>2. users'[bot.tg].status = "active"
        BY <3>1, <3>3, <4>1, CommitWrites
      <4>3. tg # bot.tg
        BY <1>0, <1>3, <3>1, <4>1, <4>2 DEF SweepApart
      <4>4. users'[tg] = users[tg]
        BY <3>1, <3>3, <4>3, CommitWrites
      <4> QED  BY <1>0, <1>3, <3>1, <4>4 DEF DisabledInv, Known
    <3> QED  BY <2>4, <3>2, <3>3 DEF CommitPayment
  <2>5. ASSUME NEW old \in TgId, DisableClient(old)
        PROVE  users'[tg].uuid \notin config'
    <3>1. users' = users /\ current' = old /\ current = NoUser /\ listed[old] # NoUser
      BY <2>5 DEF DisableClient
    <3>2. config' = config \ {listed[old].uuid}
      BY <2>5, RemoveClientTakesAway DEF DisableClient
    <3>3. listed[old].uuid = users[old].uuid
      BY <1>0, <3>1 DEF DisabledInv
    <3> QED  BY <1>0, <1>3, <3>1, <3>2, <3>3 DEF DisabledInv, Known
  <2>6. ASSUME NEW old \in TgId, RecordExpiry(old)
        PROVE  users'[tg].uuid \notin config'
    <3>1. config' = config /\ current = old /\ current' = NoUser
      BY <2>6 DEF RecordExpiry, NextListed
    <3>2. Known(users, tg) /\ users'[tg].uuid = users[tg].uuid
      BY <1>3, <2>6, ExpiryWrites DEF Known
    <3>3. tg # old => users'[tg] = users[tg]
      BY <2>6, ExpiryWrites
    <3> QED  BY <1>0, <1>3, <3>1, <3>2, <3>3 DEF DisabledInv
  <2>7. ASSUME UNCHANGED <<users, config>>, current' \in {current, NoUser}
        PROVE  users'[tg].uuid \notin config'
    BY <1>0, <1>3, <2>7 DEF DisabledInv, Known
  <2>8. ASSUME NEW other \in TgId,
               \/ GenerateVPNKey(other) \/ StartPayment(other)
               \/ \E amount \in Amount : CompletePayment(other, amount)
        PROVE  users'[tg].uuid \notin config'
    BY <2>7, <2>8 DEF GenerateVPNKey, StartPayment, CompletePayment, storeVars, sweepVars
  <2>9. ASSUME ListExpiredUsers \/ RecordExpiryFails \/ Tick \/ UNCHANGED vars
        PROVE  users'[tg].uuid \notin config'
    BY <2>7, <2>9
    DEF ListExpiredUsers, RecordExpiryFails, NextListed, Tick, vars, storeVars, sweepVars
  <2>10. CASE Crash
    <3>1. /\ UNCHANGED users /\ current' = NoUser
          /\ \/ config' \subseteq config
             \/ /\ bot.pc \in {"provision", "grant"}
                /\ config' = config \cup {bot.row.uuid}
      BY <2>10, CrashLeaves
    <3>2. Known(users, tg) /\ users[tg].status = "inactive" /\ users[tg].uuid \notin config
      BY <1>0, <1>3, <3>1 DEF DisabledInv, Known
    <3>3. CASE config' \subseteq config
      BY <3>1, <3>2, <3>3
    <3>4. CASE /\ bot.pc \in {"provision", "grant"}
               /\ config' = config \cup {bot.row.uuid}
      <4>1. /\ bot.tg \in TgId /\ Known(users, bot.tg) /\ users[bot.tg].uuid = bot.row.uuid
            /\ users[bot.tg].status = "active"
        BY <1>0, <3>4, BotMoves DEF HandlerInv, DisabledInv
      <4>2. users[tg].uuid # bot.row.uuid
        BY <1>0, <3>2, <4>1 DEF UuidsApart
      <4> QED  BY <3>1, <3>2, <3>4, <4>2
    <3> QED  BY <3>1, <3>3, <3>4
  <2> QED
    BY <2>1, <2>2, <2>3, <2>4, <2>5, <2>6, <2>8, <2>9, <2>10 DEF Next, BotStep, SweepStep
<1> QED  BY <1>1, <1>2, <1>3 DEF DisabledInv, Known

(***************************************************************************)
(* If Xray's configuration can always be edited, and the sweep and the bot *)
(* loop are never at work for the same subscriber, a row that is marked    *)
(* inactive has no client, whatever else fails: what                       *)
(* service_failed_removal shows has no third cause.                        *)
(***************************************************************************)
THEOREM OnlyXrayOrRaceKeepsAccess ==
  ASSUME "xray" \notin Faults
  PROVE  Spec /\ []SweepApart => []InactiveHasNoAccess
<1>1. TypeOK /\ HandlerInv /\ UuidsApart /\ TermInv /\ SweepApart /\ DisabledInv
        /\ [Next]_vars => DisabledInv'
  BY DisabledStep
<1>2. ServedInv => HandlerInv /\ UuidsApart
  BY DEF ServedInv
<1>3. DisabledInv => InactiveHasNoAccess
  BY DEF DisabledInv, InactiveHasNoAccess
<1> QED
  BY <1>1, <1>2, <1>3, DisabledInitially, TypeCorrect, ServedIsKept, TermIsKept, PTL
  DEF Spec
=============================================================================
