---------------------------- MODULE UserService ----------------------------
(***************************************************************************)
(* internal/service: the account of every subscriber, kept in two stores   *)
(* that no transaction spans (the database and the Xray configuration), by *)
(* two goroutines of one process:                                          *)
(*                                                                         *)
(*   the bot loop (Bot.Start), which handles one update at a time, and     *)
(*   the expiration checker (cmd/main.go), which sweeps on every tick.     *)
(*                                                                         *)
(* Each call to the repository or to the Xray manager is a step; reads are *)
(* merged into the step before them when no other goroutine can change     *)
(* what they read.  A crash loses both goroutines' local state and keeps   *)
(* the stores.                                                             *)
(***************************************************************************)
EXTENDS Subscription, Storage

CONSTANTS
  Faults,       \* which failures may happen
  Amount,       \* the amounts a subscriber may type; the bot rejects those <= 0
  MaxTime,      \* bound: the clock stops here
  MaxReceived   \* bound: no payment that would take one subscriber's total above

(* Which failures happen: a repository write ("db"), an Xray operation before
   it touches the file ("xray") or in the restart after ("reload"), a crash. *)
ASSUME ServiceAssumption ==
  /\ Amount \subseteq Nat \ {0}
  /\ MaxTime \in Nat
  /\ MaxReceived \in Nat
  /\ Faults \subseteq {"db", "xray", "reload", "crash"}

(* The code's trial buys at least one day and does not overflow a Duration.
   Nothing is assumed of the amounts: the bot takes any positive int. *)
ASSUME TrialFits ==
  /\ DefaultTrialBalance >= PricePerDay
  /\ AmountFits(DefaultTrialBalance)

VARIABLES
  now,       \* the wall clock, Unix seconds
  users,     \* table users
  pending,   \* table pending_payments
  config,    \* the clients in the Xray configuration file
  running,   \* the clients the running Xray process serves
  issued,    \* uuids that NewUUID has returned
  bot,       \* the bot loop: the handler it is in and that handler's locals
  listed,    \* the checker: rows returned by ListExpired and not yet handled
  current,   \* the checker: user whose RemoveClient has returned, or NoUser
  shown,     \* history: <<tg, uuid>> of every key sent to a subscriber
  received,  \* history: total of the amounts committed for each subscriber
  wrapped,   \* history: those who have paid more than a Duration can hold
  hurt,      \* history: those for whom AddClient, or the write that follows
             \*   RemoveClient, failed or was cut off, and no AddClient since
  unserved   \* history: those whom Xray last restarted without, for a restart
             \*   that failed or was cut off and none that succeeded since

INSTANCE XrayClients

storeVars == <<users, pending, config, running>>
sweepVars == <<listed, current>>
historyVars == <<issued, shown, received, wrapped>>
accessVars == <<hurt, unserved>>
vars == <<now, storeVars, sweepVars, bot, historyVars, accessVars>>

Idle == [pc |-> "idle", tg |-> NoUser, row |-> NoUser, amount |-> 0]

Handling(pc, tg, row, amount) == [pc |-> pc, tg |-> tg, row |-> row, amount |-> amount]

Nobody == [tg \in TgId |-> NoUser]

Init ==
  /\ now = 1
  /\ users = Nobody
  /\ pending = {}
  /\ XrayInit
  /\ issued = {}
  /\ bot = Idle
  /\ listed = Nobody
  /\ current = NoUser
  /\ shown = {}
  /\ received = [tg \in TgId |-> 0]
  /\ wrapped = {}
  /\ hurt = {}
  /\ unserved = {}

-----------------------------------------------------------------------------
(* The bot loop: registration (sendMenu, RegisterUser) *)

TrialRow(uuid) ==
  [uuid |-> uuid, balance |-> DefaultTrialBalance, status |-> "active",
   subUntil |-> ExtendSubscription(0, now, DefaultTrialBalance, PricePerDay)]

(* GetUser finds no row and the transaction inserts one.  NewUUID is random,
   so the retry on a uuid that is taken never runs; a failed insert changes
   nothing. *)
RegisterUser(tg) ==
  /\ bot = Idle
  /\ ~Known(users, tg)
  /\ \E uuid \in Uuid \ issued :
       /\ users' = CreateUser(users, tg, TrialRow(uuid))
       /\ issued' = issued \cup {uuid}
       /\ bot' = Handling("provision", tg, TrialRow(uuid), 0)
  /\ UNCHANGED <<now, pending, config, running, sweepVars, shown, received, wrapped,
                 accessVars>>

(* The end of a restart, of which the added ones are the first to depend: a
   server that goes on as it was lacks them, and one that is down everybody. *)
RestartEnds(ok, added) ==
  unserved' = IF ok THEN {}
              ELSE IF running' = running THEN unserved \cup added
              ELSE TgId

(* What AddClient(..., ok) means for tg: no restart without a change. *)
Provisioned(tg, ok) ==
  /\ hurt' = IF ok THEN hurt \ {tg} ELSE hurt \cup {tg}
  /\ IF config' = config THEN UNCHANGED unserved ELSE RestartEnds(ok, {tg})

(* AddClient after the transaction. *)
ProvisionClient ==
  /\ bot.pc = "provision"
  /\ \E ok \in BOOLEAN :
       /\ AddClient(bot.row.uuid, ok)
       /\ Provisioned(bot.tg, ok)
       /\ bot' = IF ok THEN Idle ELSE [bot EXCEPT !.pc = "compensate"]
  /\ UNCHANGED <<now, users, pending, sweepVars, historyVars>>

(* Deliberately wrong: while the row cannot be deleted, the client is tried again. *)
CompensateRegistration_TriesAgain ==
  /\ bot.pc = "compensate"
  /\ \/ users' = DeleteUser(users, bot.tg) /\ bot' = Idle
     \/ "db" \in Faults /\ UNCHANGED users /\ bot' = [bot EXCEPT !.pc = "provision"]
  /\ UNCHANGED <<now, pending, config, running, sweepVars, historyVars, accessVars>>

(* _ = DeleteUser: a failure to delete is ignored. *)
CompensateRegistration ==
  /\ bot.pc = "compensate"
  /\ \/ users' = DeleteUser(users, bot.tg)
     \/ "db" \in Faults /\ UNCHANGED users
  /\ bot' = Idle
  /\ UNCHANGED <<now, pending, config, running, sweepVars, historyVars, accessVars>>

(* sendVPNKey and sendResetKey: both send the key of the current row. *)
GenerateVPNKey(tg) ==
  /\ bot = Idle
  /\ Known(users, tg)
  /\ shown' = shown \cup {<<tg, users[tg].uuid>>}
  /\ UNCHANGED <<now, storeVars, sweepVars, bot, issued, received, wrapped,
                 accessVars>>

-----------------------------------------------------------------------------
(* The bot loop: payment (StartPayment, handlePendingPurchase, CompletePayment) *)

(* Nothing asks whether the subscriber is registered. *)
StartPayment(tg) ==
  /\ bot = Idle
  /\ pending' = CreatePendingPayment(pending, tg)
  /\ UNCHANGED <<now, users, config, running, sweepVars, bot, historyVars, accessVars>>

PaidRow(row, amount) ==
  [row EXCEPT !.balance = AddBalance(row.balance, amount),
              !.subUntil = ExtendSubscription(row.subUntil, now, amount, PricePerDay),
              !.status = "active"]

(* The reads, up to the transaction: a copy of the row is taken and the new
   balance and end are computed on it.  Without a flow or a row the handler
   returns an error and changes nothing. *)
CompletePayment(tg, amount) ==
  /\ bot = Idle
  /\ GetPendingPayment(pending, tg)
  /\ Known(users, tg)
  /\ received[tg] + amount <= MaxReceived
  /\ bot' = Handling("commit", tg, PaidRow(users[tg], amount), amount)
  /\ UNCHANGED <<now, storeVars, sweepVars, historyVars, accessVars>>

(* A payment is committed, which the histories remember. *)
Receipt ==
  /\ received' = [received EXCEPT ![bot.tg] = @ + bot.amount]
  /\ wrapped' = IF AmountFits(bot.amount) THEN wrapped ELSE wrapped \cup {bot.tg}

(* Deliberately wrong: the two statements do not share a transaction. *)
CommitPayment_NotAtomic ==
  /\ bot.pc = "commit"
  /\ users' = UpdateUser(users, bot.tg, bot.row)
  /\ \/ /\ pending' = DeletePendingPayment(pending, bot.tg)
        /\ Receipt
        /\ bot' = [bot EXCEPT !.pc = "grant"]
     \/ /\ "db" \in Faults
        /\ bot' = Idle
        /\ UNCHANGED <<pending, received, wrapped>>
  /\ UNCHANGED <<now, config, running, sweepVars, issued, shown, accessVars>>

(* Deliberately wrong: the flow stays open. *)
CommitPayment_KeepsFlow ==
  /\ bot.pc = "commit"
  /\ users' = UpdateUser(users, bot.tg, bot.row)
  /\ Receipt
  /\ bot' = [bot EXCEPT !.pc = "grant"]
  /\ UNCHANGED <<now, pending, config, running, sweepVars, issued, shown, accessVars>>

(* RunInTx: the row is overwritten and the flow closed, or neither. *)
CommitPayment ==
  /\ bot.pc = "commit"
  /\ \/ /\ users' = UpdateUser(users, bot.tg, bot.row)
        /\ pending' = DeletePendingPayment(pending, bot.tg)
        /\ Receipt
        /\ bot' = [bot EXCEPT !.pc = "grant"]
     \/ /\ "db" \in Faults
        /\ bot' = Idle
        /\ UNCHANGED <<users, pending, received, wrapped>>
  /\ UNCHANGED <<now, config, running, sweepVars, issued, shown, accessVars>>

(* Deliberately wrong: a failure is compensated as RegisterUser does. *)
GrantAccess_Compensates ==
  /\ bot.pc = "grant"
  /\ \E ok \in BOOLEAN :
       /\ AddClient(bot.row.uuid, ok)
       /\ Provisioned(bot.tg, ok)
       /\ bot' = IF ok THEN Idle ELSE [bot EXCEPT !.pc = "compensate"]
  /\ UNCHANGED <<now, users, pending, sweepVars, historyVars>>

(* AddClient after the commit; a failure is reported and not made good. *)
GrantAccess ==
  /\ bot.pc = "grant"
  /\ \E ok \in BOOLEAN : AddClient(bot.row.uuid, ok) /\ Provisioned(bot.tg, ok)
  /\ bot' = Idle
  /\ UNCHANGED <<now, users, pending, sweepVars, historyVars>>

-----------------------------------------------------------------------------
(* The expiration checker (CheckExpirations) *)

SweepIdle == listed = Nobody

(* Copies of all expired rows are read at once.  A sweep that finds none is
   over. *)
ListExpiredUsers ==
  /\ SweepIdle
  /\ \E tg \in TgId : Expired(users, tg, now)
  /\ listed' = ListExpired(users, now)
  /\ UNCHANGED <<now, storeVars, current, bot, historyVars, accessVars>>

(* RemoveClient for the next copy, in any order; an error is only logged. *)
DisableClient(tg) ==
  /\ current = NoUser
  /\ listed[tg] # NoUser
  /\ \E ok \in BOOLEAN : RemoveClient(listed[tg].uuid, ok) /\ RestartEnds(ok, {})
  /\ current' = tg
  /\ UNCHANGED <<now, users, pending, listed, bot, historyVars, hurt>>

ExpiredRow(row) == [row EXCEPT !.subUntil = 0, !.status = "inactive"]

(* Deliberately wrong: the sweep goes on with the subscriber it has done. *)
NextListed_KeepsCurrent ==
  /\ listed' = [listed EXCEPT ![current] = NoUser]
  /\ UNCHANGED current

(* Done with current, whatever became of it. *)
NextListed ==
  /\ listed' = [listed EXCEPT ![current] = NoUser]
  /\ current' = NoUser

(* Deliberately wrong: the end is marked but the status forgotten. *)
RecordExpiry_KeepsStatus(tg) ==
  /\ current = tg
  /\ users' = UpdateUser(users, tg, [listed[tg] EXCEPT !.subUntil = 0])
  /\ NextListed
  /\ UNCHANGED <<now, pending, config, running, bot, historyVars, accessVars>>

(* Deliberately wrong: a row that is no longer expired is left alone, although
   its client has been removed. *)
RecordExpiry_Rechecks(tg) ==
  /\ current = tg
  /\ users' = IF Expired(users, tg, now)
              THEN UpdateUser(users, tg, ExpiredRow(listed[tg]))
              ELSE users
  /\ NextListed
  /\ UNCHANGED <<now, pending, config, running, bot, historyVars, accessVars>>

(* UpdateUser writes back the whole copy, balance included, over whatever the
   row has become since ListExpired. *)
RecordExpiry(tg) ==
  /\ current = tg
  /\ users' = UpdateUser(users, tg, ExpiredRow(listed[tg]))
  /\ NextListed
  /\ UNCHANGED <<now, pending, config, running, bot, historyVars, accessVars>>

(* A failed write is only logged; the row is listed again by a later sweep. *)
RecordExpiryFails ==
  /\ current # NoUser
  /\ "db" \in Faults
  /\ NextListed
  /\ hurt' = hurt \cup {current}
  /\ UNCHANGED <<now, storeVars, bot, historyVars, unserved>>

-----------------------------------------------------------------------------
(* The process and its environment *)

(* The crash falls into the AddClient of the bot loop or the RemoveClient of
   the sweep for tg, when the file is replaced: the mutex admits only one. *)
DiesInXray(tg) ==
  \/ /\ bot.pc \in {"provision", "grant"} /\ bot.tg = tg
     /\ AddClientCutOff(bot.row.uuid)
     /\ RestartEnds(running' = config', {tg})
  \/ /\ current = NoUser /\ listed[tg] # NoUser
     /\ RemoveClientCutOff(listed[tg].uuid)
     /\ RestartEnds(running' = config', {})

(* Crash and restart; nothing is recovered but the stores.  A crash while
   both goroutines are idle loses nothing. *)
Crash ==
  /\ "crash" \in Faults
  /\ bot # Idle \/ ~SweepIdle
  /\ bot' = Idle
  /\ listed' = Nobody
  /\ current' = NoUser
  /\ \/ /\ UNCHANGED <<config, running, unserved>>
        /\ hurt' = hurt \cup ({bot.tg, current} \ {NoUser})
     \/ \E tg \in TgId :
          /\ DiesInXray(tg)
          /\ hurt' = hurt \cup ({bot.tg, tg, current} \ {NoUser})
  /\ UNCHANGED <<now, users, pending, historyVars>>

Tick ==
  /\ now < MaxTime
  /\ now' = now + 1
  /\ UNCHANGED <<storeVars, sweepVars, bot, historyVars, accessVars>>

BotStep ==
  \/ \E tg \in TgId : RegisterUser(tg) \/ GenerateVPNKey(tg) \/ StartPayment(tg)
  \/ \E tg \in TgId, amount \in Amount : CompletePayment(tg, amount)
  \/ ProvisionClient \/ CompensateRegistration
  \/ CommitPayment \/ GrantAccess

SweepStep ==
  \/ ListExpiredUsers
  \/ \E tg \in TgId : DisableClient(tg) \/ RecordExpiry(tg)
  \/ RecordExpiryFails

Next == BotStep \/ SweepStep \/ Crash \/ Tick

Spec == Init /\ [][Next]_vars

(***************************************************************************)
(* The ticker fires for ever and the calls of a sweep return; the bot loop *)
(* and the subscribers owe nothing.  Strong fairness says that writes and  *)
(* the process do not fail every time they are tried.                      *)
(***************************************************************************)
SweepFairness ==
  /\ SF_vars(ListExpiredUsers)
  /\ \A tg \in TgId : SF_vars(DisableClient(tg)) /\ SF_vars(RecordExpiry(tg))

FairSpec == Spec /\ SweepFairness

-----------------------------------------------------------------------------

BotStates ==
  {Idle} \cup
  [pc : {"provision", "compensate", "commit", "grant"},
   tg : TgId, row : UserRow, amount : Amount \cup {0}]

TypeOK ==
  /\ now \in Nat \ {0}
  /\ users \in UserTable
  /\ pending \subseteq TgId
  /\ XrayTypeOK
  /\ issued \subseteq Uuid
  /\ bot \in BotStates
  /\ listed \in UserTable
  /\ current \in TgId \cup {NoUser}
  /\ current # NoUser => listed[current] # NoUser
  /\ shown \subseteq TgId \X Uuid
  /\ received \in [TgId -> Nat]
  /\ {wrapped, hurt, unserved} \subseteq SUBSET TgId

(***************************************************************************)
(* A key that was sent to a subscriber (GenerateVPNKey) stays the key of   *)
(* that subscriber's row: no compensation, crash or stale write by the     *)
(* sweep removes the row or changes its uuid under a key in use.           *)
(***************************************************************************)
KeysStayValid ==
  \A key \in shown : Known(users, key[1]) /\ users[key[1]].uuid = key[2]

(***************************************************************************)
(* No interleaving, failed transaction or crash credits an amount twice:   *)
(* the stored balance (CompletePayment's read-modify-write) never exceeds  *)
(* the trial plus the amounts of the payments that were committed.         *)
(***************************************************************************)
BalanceNeverExceedsReceipts ==
  \A tg \in TgId :
    Known(users, tg) => users[tg].balance <= DefaultTrialBalance + received[tg]

(***************************************************************************)
(* Unless a restart of Xray fails, every client in the configuration is    *)
(* some subscriber's: RegisterUser inserts the row first and takes it back *)
(* only when the client was not added, a crash in the middle of AddClient  *)
(* leaves the row, and nothing else drops one.  (After a restart that      *)
(* failed the client is in the file, and the row is taken back.)           *)
(***************************************************************************)
ClientsHaveOwners ==
  \A uuid \in config : \E tg \in TgId : Known(users, tg) /\ users[tg].uuid = uuid

(* No operation on tg's account is half done. *)
Settled(tg) == bot.tg # tg /\ current # tg

(***************************************************************************)
(* Whatever fails, restarts of Xray included, the next restart has every   *)
(* active subscriber's client to serve: between any two operations on that *)
(* subscriber the file has it, however the sweep and payments interleave   *)
(* (RemoveClient before its write, AddClient after the commit), unless the *)
(* subscriber's own call failed or was cut off.                            *)
(***************************************************************************)
ActiveIsConfigured ==
  \A tg \in TgId :
    Known(users, tg) /\ users[tg].status = "active" /\ Settled(tg) /\ tg \notin hurt
      => users[tg].uuid \in config

(***************************************************************************)
(* Whatever fails, and wherever a call is cut off, the running Xray serves *)
(* every active subscriber between any two operations on that subscriber,  *)
(* with two exceptions only: the subscriber's own call failed (hurt), or   *)
(* the restart that was to bring the client in failed or was cut off and   *)
(* none has succeeded since (unserved).  The second one lasts: a payment   *)
(* whose AddClient finds the client in the file returns without restarting *)
(* and makes up for nothing, but any later restart does.  Nobody else's    *)
(* failed or cut-off call deprives a subscriber, unless it leaves Xray     *)
(* down.                                                                   *)
(***************************************************************************)
ActiveHasAccess ==
  \A tg \in TgId :
    /\ Known(users, tg) /\ users[tg].status = "active" /\ Settled(tg)
    /\ tg \notin hurt \cup unserved
    => users[tg].uuid \in running

(* RegisterUser has not returned. *)
Registering(tg) == bot.pc \in {"provision", "compensate"} /\ bot.tg = tg

AccountOf(tg) ==
  IF Known(users, tg)
  THEN [term |-> users[tg].subUntil, status |-> users[tg].status,
        stage |-> IF Registering(tg) THEN "new" ELSE "settled"]
  ELSE NoUser

ASSUME AccountAssumption ==
  NoUser \notin [term : Int, status : Status, stage : {"new", "settled"}]

Lifecycle == INSTANCE SubscriptionLifecycle
               WITH open <- pending, account <- [tg \in TgId |-> AccountOf(tg)]

(***************************************************************************)
(* The two goroutines, their stale copies, faults and crashes together     *)
(* implement the lifecycle that SubscriptionLifecycle states.              *)
(***************************************************************************)
LifecycleSpec == Lifecycle!Spec

(***************************************************************************)
(* A subscription that has run out does not stay so: some sweep records it *)
(* (CheckExpirations on every tick) unless a payment extends it first,     *)
(* however often writes fail or the process crashes on the way.            *)
(***************************************************************************)
ExpiredIsSwept ==
  \A tg \in TgId : Expired(users, tg, now) ~> ~Expired(users, tg, now)

-----------------------------------------------------------------------------
(* What comments of the code say and the code does not do. *)

(***************************************************************************)
(* user.go: Balance is the total amount the user has paid.  The sweep's    *)
(* UpdateUser must then not undo a payment made while it was running.      *)
(***************************************************************************)
BalanceIsReceipts ==
  \A tg \in TgId :
    Known(users, tg) => users[tg].balance >= DefaultTrialBalance + received[tg]

(***************************************************************************)
(* user.go: SubUntil is the time until which the subscription is active;   *)
(* CompletePayment "extends their subscription".  An active row then has   *)
(* an end for the sweep to find.                                           *)
(***************************************************************************)
ActiveHasTerm ==
  \A tg \in TgId :
    Known(users, tg) /\ users[tg].status = "active" => users[tg].subUntil > 0

(***************************************************************************)
(* CheckExpirations "finds expired subscriptions and disables VPN access": *)
(* a row it has marked inactive has no client.                             *)
(***************************************************************************)
InactiveHasNoAccess ==
  \A tg \in TgId :
    Known(users, tg) /\ users[tg].status = "inactive" /\ Settled(tg)
      => users[tg].uuid \notin config
=============================================================================
