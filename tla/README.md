# A formal model of vpn-bot

`vpn-bot` is one Go process that sells access to a VPN through a Telegram bot.
It keeps its subscribers in an SQLite database, puts the clients that may
connect into the configuration file of an Xray server on the same machine and
restarts that server, and every few minutes takes out those whose subscription
has run out. An optional pipeline reads Xray's access log and limits how many
devices a subscriber uses.

This directory holds TLA+ modules for the parts whose behaviour is hard to see
from the code or to reach with a test: money and time, two stores without a
common transaction, two goroutines on the same rows, failures and crashes
anywhere. TLC checks them on small instances (`*.cfg`), TLAPS proves the main
results for every instance (`*Proofs.tla`). `PROJECT.json` lists the runs, the
lines each definition stands for, the hazards and the theorems.

    tlc -config UserService_faults.cfg MCUserService.tla
    tlapm UserServiceProofs.tla

## Inventory

| Component | State | Operations | Hard parts | What makes it correct |
|---|---|---|---|---|
| pricing (`internal/domain/subscription.go`, `pricing.go`, `user.go`) | none | `ExtendSubscription`, `IsActive` | `time.Duration` wraps; days are rounded down | the result is the formula of the comment; paid time is not lost |
| service (`internal/service`) | none of its own: rows in the database, clients in Xray | `RegisterUser`, `GenerateVPNKey`, `StartPayment`, `CompletePayment`, `CheckExpirations` | copies of rows held across calls; a transaction followed by an Xray call; compensation; crashes | no amount credited twice or lost; a key in use stays valid; active rows have access, expired ones are swept |
| storage (`internal/storage`) | tables `users`, `pending_payments`, `device_sessions`; one connection | the SQL behind `domain.Repository`, `RunInTx` | every goroutine waits for the one connection, which a transaction holds across statements; any of them fails; crashes | a call or transaction takes effect at once or not at all, as its result says; every call returns; whole-row updates |
| Xray manager (`internal/xray`) | the configuration file, its `.tmp`, up to 20 backups, a mutex | `AddClient`, `RemoveClient` | interleaved read-modify-write; partial writes; restart with the mutex held | the file is always whole; updates are atomic; every call returns |
| bot (`internal/bot`) | the library's offset and channel of updates (100) | one handler per update, one update at a time | a handler that fails halfway; updates delivered again, or lost, after a crash | an update is taken unless it is lost in the channel, at most a channelful with each crash; a payment is credited once for each flow that was opened |
| device tracking (`internal/device`) | event channel (1024), session cache with dirty marks, uuid cache | `Track`, `processEvent`, `flush`, `runCleanup` | goroutines for events, flush and cleanup; copies out of the cache written back later | what waits to be flushed is saved, in order, unless the process dies; limits hold; expired sessions are deleted |
| access-log tail (`internal/device/parser.go`) | open file, its inode, offset, read buffer | `Run`, `runOnce`, `checkRotation`, `parseLogLine` | lines written in pieces; rotation by rename or by copy and truncate at any moment; failed reads; a full channel | no line twice or out of order; a line mixed with another only by a truncation nobody can see; whole lines that are consumed are emitted; the tail catches up |
| process (`cmd/main.go`) | goroutines, tickers | start; never stops on purpose | the context is never cancelled, so an exit is always a crash | |
| configuration, logging, key URL (`internal/config`, `logging`, `vpn`, `utils`) | none | read once; print; format | | |

How they interact: the bot loop (`Bot.Start`) calls the service directly and
waits for it; the expiration checker is a goroutine of `main` that calls
`CheckExpirations` on a ticker; both reach the database through its single
connection and the configuration file through the manager's mutex. The device
goroutines share only the database with the rest; the tail hands connections to
`processEvent` through a bounded channel.

The hard behaviours, each at its line, are under "hazards" in `PROJECT.json`.

## Modules

| Module | Models | Kind |
|---|---|---|
| `Subscription` | pricing arithmetic with Go's integer widths as constants | operators |
| `PaymentHistory` | one subscriber's payments over time against the documented formula | state machine |
| `Storage` | the SQL of `users` and `pending_payments` | operators on tables |
| `XrayClients` | `AddClient` and `RemoveClient` as atomic operations that may fail before or after the file is replaced | abstract specification |
| `SubscriptionLifecycle` | what happens to an account, as seen from outside | abstract specification |
| `UserService` | the service, run by the bot loop and the checker, on top of `Subscription`, `Storage` and `XrayClients` | state machine, implements `SubscriptionLifecycle` |
| `XrayManager` | `modifyConfig`, file operation by file operation | state machine, implements `XrayClients` |
| `DeviceSessions` | the SQL of `device_sessions` | operators on a table |
| `DeviceTracker` | `processEvent`, the session cache and its flush, the cleanup, on top of `DeviceSessions` | state machine |
| `AtomicStorage` | what `domain.Repository` and `RunInTx` promise: calls that take effect at one instant or not at all | abstract specification |
| `Transactions` | the calls of several goroutines, statement by statement, over one connection | state machine, implements `AtomicStorage` |
| `UpdateDelivery` | how Telegram's updates reach the bot loop, composed with `UserService`, whose actions its handlers are | state machine |
| `LogTail` | the tail of the access log, and the Xray and log rotation it lives with | state machine |
| `MCUserService`, `MCXrayManager`, `MCDeviceTracker`, `MCTransactions` | a symmetry set, the one process, who owns which device, the rows that are written, for TLC | instances |
| `SubscriptionProofs`, `PaymentHistoryProofs`, `UserServiceProofs`, `UpdateDeliveryProofs`, `XrayManagerProofs`, `DeviceTrackerProofs`, `TransactionsProofs`, `LogTailProofs` | theorems | proofs |

`UserService` uses the manager through `XrayClients`; that this is justified is
the refinement `ClientsSpec`, checked and proved from `XrayManager`. It uses the
repository as if every call and every transaction were one step; that this is
justified is the refinement `AtomicCalls`, checked and proved from
`Transactions`, which is written on the same `Storage`.

Definitions whose name ends in `_Something` and whose comment begins
"Deliberately wrong" are variants with a plausible bug. They are used by no
specification; each shows that some property would notice that bug.

### From the code to the state

`UserService`. `users` and `pending` are the two tables; `config` and `running`
are the clients in the file and in the running server. `bot` is the handler the
bot loop is in and the copy of the row it holds; `listed` and `current` are the
rows that `ListExpired` returned to the checker and the one whose
`RemoveClient` has returned. `issued`, `shown` and `received` are history:
uuids drawn, keys sent, amounts committed. A registration is `RegisterUser`
(reads and the transaction), `ProvisionClient` and, if that fails,
`CompensateRegistration`; a payment is `CompletePayment` (the reads and the
computation on the copy), `CommitPayment` (the transaction) and `GrantAccess`;
a sweep is `ListExpiredUsers` and, for each row, `DisableClient` and
`RecordExpiry`. `UpdateUser` writes every column of the caller's copy, as the
SQL does. Reads are merged with the step before them only when no other
goroutine can change what they read. The retry of `RegisterUser` after a
duplicate uuid is not taken, because uuids are random and taken to be fresh.
`hurt`, `unserved` and `wrapped` are history as well: the subscribers for whom an
`AddClient`, or the write that follows a `RemoveClient`, failed or was cut off by a
crash and has not been made up for since; those whom Xray was to be restarted for when
the restart failed or was cut off, and no later one has succeeded; and those who have
paid more than a Duration can hold. A crash may fall into `AddClient` or `RemoveClient`
itself, between the rename of the new configuration (`manager.go:183`) and the end of
the restart (`DiesInXray`): the file is the new one, and the running server the old
or the new one, as `systemctl` may go on without the process. The amounts are any
positive ints, as the bot takes them; only the trial, a constant of the code, is assumed
to fit (`TrialFits`).

`Transactions`. `users` and `pending` are what is committed, `workUsers` and
`workPending` what the open transaction sees; `call`, `step` and `result` say
which call each goroutine is in, how far it is and what it returned; `conn` is who
holds the connection. `Begin` is the entry into a repository method, `Acquire`
gets the connection (with `BeginTx` for `RunInTx`), `RunStatement` is any method
outside a transaction, and the two transactions of the service are
`CreateInTx` (with its retries, `tries`) and `UpdateInTx`, `DeletePendingInTx`,
each followed by `Commit` or `Rollback`. `call` and `result` are the abstract
state too, so the refinement needs no witness: committed tables are tables.

`UpdateDelivery`. `sent` are the updates subscribers have sent; `kept`, `answered`,
`fetched` and `taken` count those that Telegram has forgotten, that a getUpdates
has returned, that are in the channel, and that the loop has taken. `Poll`,
`PollFails` and `Put` are the library's polling goroutine, `Take` what `Bot.Start`
does with an update up to the first call that another goroutine could notice,
`Continue` the rest of the handler, `Restart` a crash, after which the loop stands
where Telegram's memory begins. `handled` and `lost` are history: the updates the loop
has taken, in any process, and those that were confirmed and still in the channel of a
process that died. `opened` and `credited` count, for each subscriber, the flows that
`StartPayment` has inserted (a button pressed again, or whose write fails, opens none)
and the payments. The library is external; that the offset is kept in memory
only is `NewUpdate(0)` at `bot.go:31`.

`LogTail`. `content` gives every file the log has ever been, numbered as created
(a number is an inode); `path` is the one at `AccessLogPath`, `xray` the one Xray has
open. A line is written whole or in two pieces (`torn` between them), of
which the first has the date and the address and the last the uuid and the newline,
because `logEntryRe` is anchored at the date. `file`, `inode`, `pos`, `buffer` and `event`
are the locals of `runOnce`; `pc` says which call is next. `FillBuffer`, `ReturnLine`
and `ReachEnd` are one `ReadString`, which returns at a newline and otherwise
reads on; at the end of the file what it had of a line goes with it. `CheckSize`
is the `Stat` of the open file, `CheckRotation` the `Stat` of the path, `Reopen` the
`Open` after it, `Send` the channel send. `emitted`, `start`, `shrunk`, `joints` and `cuts`
are history; the last two say where in the buffer, and how often, the file was truncated
while the reader held pieces of it.

`XrayManager`. `file`, `tmp` and `backups` are files, given by the clients of
the vless inbound or `Torn` when cut short; `mu` the mutex of each process;
`call` where each goroutine is. `os.WriteFile` is two steps, opening the file
empty and filling it, so that an error or a crash can fall in between. `cleanupBackups`
ignores the errors of `os.Remove`: `Cleanup` may leave any of the files it should remove,
which `leftover` records until the next cleanup. The JSON
around the client list is not modelled, and there is exactly one vless inbound.
`backupConfig` reads the file a second time; the copy is taken in `FillBackup`,
which is the same thing as long as no other process writes the file.

`DeviceTracker`. `db` is `device_sessions` and `cache`, `persisted` and `dirty` are
the `DeviceCache`: for each device hash the `last_seen`, the `Persisted` flag, the
dirty mark. `proc` holds the locals of `processEvent` (`at` is its `now`, `dev` its
`baseHash`), `batch` and `saved` those of `flush`, `cleanup` those of `runCleanup`.
An event is `Receive`, `MatchMobile` (`FindRecentSessionByPortBucket`), `LookUp`
(`cache.Get`), `CountActive`, `CheckStored` (`GetDeviceSession`), `FindOldest`, `Evict`
and `Update` (`cache.Update`); a flush is `StartFlush` (the copy) and for each copy
`Save` or `SaveFails`, then `MarkSaved`; a cleanup is `ListStale`, `Forget` for each
session listed, and `DeleteStale`. `GetUser` is called with a row id and looks for
a Telegram ID, so the model has both: `GetUserFinds`. The uuid cache has no effect
on this (ids do not change) and is left out, as are connection counts.

## Runs

| Run | Asks | Answer |
|---|---|---|
| `payments_exact` | is the end of a subscription the documented one after any payments, does splitting whole days change nothing, does the end never move back, and is a subscriber who pays a day active? | yes, while amounts fit a Duration; after one that does not, the next that fits again never moves the end back |
| `service_faults` | is a payment credited twice, does a key that was sent lose its row, is an active subscriber missing from the configuration or the running server, does an account leave its lifecycle, with every fault? | no; out of the configuration are only those whose own operation failed (`hurt`), out of the running server also those whose restart did not succeed, until one does (`unserved`) |
| `service_sweep` | with failing queries and crashes, is every expired subscription swept? | yes, under the fairness below |
| `service_lost_payment` | does the balance keep every payment (`user.go:12`)? | no: a sweep writes back a stale row |
| `service_no_term` | does an active subscription have an end (`user.go:17`)? | no: after a payment of less than a day it has none |
| `service_failed_removal` | does the sweep disable access (`service.go:210`)? | not when Xray fails: it is never tried again |
| `manager` | whole file, backups, atomic updates, calls that return, with every fault | hold, for one process; more backups than the limit only after a removal that failed |
| `transactions` | is a repository call atomic and its result true, does it return, with failing statements and crashes? | yes |
| `updates` | with crashes, redelivery and failing handlers: does the bot loop come to every update, how many are lost, is a payment credited only for a flow of its own, is there a client without a subscriber? | to all but those lost in the channel, at most its capacity with each crash; yes; none, while restarts of Xray succeed |
| `devices` | does a stored `last_seen` move back, is a time that waits for the next flush saved, every expired row deleted, with failing queries and a crash? | never back; saved, it or a later one, unless the cleanup or a crash drops the session, and deleted, under the fairness below |
| `devices_clean` | is a session that is marked clean persisted (`cache.go:118`)? | no: an update between the copy and the mark is called clean and not written |
| `tail` | through torn lines, rotation, truncation, failed reads and a crash: is a line emitted twice or late, or mixed with another, is every whole line that is consumed emitted, does the tail catch up? | no; at most one for each truncation that falls on a half-read line; yes; it does |

The four runs with the answer "no: …" or "not …" are the findings in `PROJECT.json`. The
model shows more of what the comments do not say, without a run of its own:

- the stale write of `service_lost_payment` also marks a subscriber who has just
  paid as inactive, while the client stays in the configuration;
- a crash between the registration transaction and `AddClient`
  (`service.go:132`) leaves an active row without a client, and the next
  `/start` returns it unmodified;
- the remainder of a payment that is not a whole number of days stays in the
  balance and is never granted, although `user.go:13` says that the balance
  determines entitlement;
- removing a client that is absent rewrites the file and restarts Xray, although
  `manager.go:99-100` calls it a no-op;
- `processEvent` passes the row id to `GetUser`, which expects a Telegram ID
  (`tracker.go:170`). For a subscriber whose row id is nobody's Telegram ID, which
  is to say for practically all, `CountActive` always returns: nothing is ever
  tracked and no limit enforced. `MCDeviceTracker` has one user of either kind;
- the device limit counts rows, so devices that connect between two flushes are
  all admitted (`tracker.go:175`), and an evicted device stays in the cache with
  `Persisted` set and is not counted as new when it returns (`tracker.go:182`),
  although `user.go:15` calls the limit the number of concurrent devices, and
  `cache.go:67` says that eviction deletes from the cache;
- a session refreshed between the listing of expired rows and `cache.Delete` is
  dropped with its refreshment (`tracker.go:269`);
- checking in `RecordExpiry` that the row is still expired would not repair the
  lost payment but take the access away from an active subscriber: the client
  has been removed by then (`RecordExpiry_Rechecks` violates `ActiveIsConfigured`);
- an amount of 533760 or more at 5 a day is more days than a Duration holds, and the
  bot takes it (`bot.go:179-180`): the end of the subscription may then move into the past,
  even below zero on an active row (`subscription.go:31`), although
  `subscription.go:9-10` promise that paid time is never lost. `payments_exact` and
  `service_faults` have such amounts; `PaidTimeIsKept` and `EndIsExact` are about the
  others, and `SubscriptionLifecycle` leaves the end of such a subscriber open. Without
  its condition `PaidTimeIsKept` is violated by a single payment of that kind;
- after a crash between the rename of the configuration and the restart, or a restart
  that failed, the client is in the file and not in the server; the next payment's
  `AddClient` finds it there (`manager.go:79-80`) and returns without restarting, so the
  subscriber who has paid twice is not served until Xray is restarted for somebody else
  (`unserved`);
- nothing locks between processes, although `manager.go:34-36` says so: two that
  edit the configuration lose each other's updates and can leave a torn file.
  The program is one process, and so are `manager` and the theorems about it;
- when a crash falls after a payment is committed and before its update is
  confirmed, and the payment button pressed before it is delivered again as well,
  the amount is credited twice (`user.go:12`): `CreditsNeedFlows` is what does hold;
- `sendResetKey` tells the subscriber that the key is renewed and sends the same
  one (`GenerateVPNKey` models both buttons);
- a line that is half written when the tail reaches the end of the file is lost
  (`parser.go:79`): `ReadString` has taken its first half, which `PassedIsEmitted`
  therefore does not ask for;
- a truncated log that has grown past the tail's offset before the tail looks
  (`parser.go:84`) is read on from the middle: what it has before the offset is not read,
  and if the reader holds the beginning of a line, that becomes one with whatever follows.
  `cuts` counts those moments and `EmittedAreLines` allows one joined event for each;
- lines are also passed over when they are appended to a renamed file after the tail has
  read to its end and before it opens the new one (`parser.go:78-105`), when they are
  truncated before they are read, and when `runOnce` begins again at the end of the file after
  an error or a restart (`parser.go:66`). `PassedIsEmitted` is about what was consumed from the
  open file since it was opened or rewound;
- a log that is rotated between the `Stat` and the `Open` of the tail
  (`parser.go:92-95`) is read twice. The run leaves this out, by the guard in `Create`: with
  `"rerotated"` in `Faults` it violates `EmittedInOrder`;
- a registration that is compensated after a restart that failed leaves its client in the
  file without a row (`service.go:134-138`): `ClientsHaveOwners` is about the other failures,
  and `"reload"` is not among the `Faults` of `updates`.

### Bounds

Prices and day lengths are scaled so that the interesting cases are small: in
`PaymentHistory` a day costs 3 and lasts 2 ticks of 3 sub-ticks, amounts lie on
both sides of one, two and three days, and the clock runs long enough for a
subscription to end and be bought again. `DurationWrap` is 20, so that three days fit
and the four of the largest amount do not; `IntWrap` is 16 and the total may reach 31, so
balances wrap as well. In `UserService` a day
costs 2, the trial buys one day, and amounts of 1, 2 and 4 are less than a day, a day
and two days. In `service_faults` `DurationWrap` is 2: two days are more than fits, and move
the end below zero; with the clock at 3 a trial expires and can be swept and paid again, and
`MaxReceived` allows a second payment into a balance the first one changed. Two
subscribers and two uuids give every pair of operations on the same and on
different rows, and a second registration after a compensated one. A sweep
handles rows one at a time, so a third subscriber would add nothing but
interleavings of the same pairs. Runs that ask for a counterexample use one
subscriber. In `XrayManager` two goroutines are what the code has; two clients
distinguish an update on top of another from one that loses it; with
`MaxBackups` at 1 and two seconds the rotation removes something.
In `DeviceTracker` a session can be evicted only when it has been idle for longer
than the reconnect window and less than the lifetime, hence the lifetime of 3,
the window of 1 and the clock at 5, where a row of instant 1 expires; the mobile
window of 2 lies between, as in the code. With a limit of 1, two devices suffice
to exceed it. Two connections in `devices` (three in `devices_clean`) are a session
and its update, or two devices in conflict; that time never moves back for more
of them is proved. In `Transactions` two goroutines contend for the connection; two
subscribers and two uuids make a registration conflict, in either of two attempts;
rows that differ in the balance tell an update from none; calls and crashes are
not bounded at all. In `UpdateDelivery` three updates are a registration, a button and
an amount, or a button and two amounts, with a channel of two that fills, and one
crash anywhere redelivers any suffix of them. In `LogTail` three lines and three
files allow a line before, across and after a rotation, and a rotation that is
noticed only after the next one; one truncation and one crash fall anywhere; a
channel of one event is full most of the time. `MaxTime`, `MaxReceived`, `MaxBalance`,
`MaxConnections`, `MaxUpdates`, `MaxStarts`, `MaxLines`, `MaxFiles`, `MaxTruncations` and
`MaxCrashes` are the only bounds on behaviour, and the proofs do not depend on
their values.

Deadlock is checked in every run but those of `PaymentHistory`, where the clock
and the balance stop at their bounds and nothing else can happen.

### Fairness

`SweepFairness` (`service_sweep`): the ticker of `main.go` fires for ever, so a
sweep that could start does, and its calls return. It is strong fairness,
because a crash or a failed write may disable a step again and again: it says
that they do not do so every single time. Nothing is assumed of the bot loop or
the subscribers. A failure of Xray does not matter to the sweep, which logs the error and
goes on, and is left out of that run: `service_faults` has all of them.

`Fairness` (`manager`): file operations and `systemctl restart` return,
and `sync.Mutex`, which hands over to a waiter that has starved for 1 ms, does
not starve a goroutine. That the restart returns is an assumption the code does
not enforce; see the hazard at `manager.go:230`. A crash ends the calls of the
process, and none is ever required.

`Fairness` (`devices`): the tickers of the cache and of the cleanup fire for ever,
calls return, and an upsert or delete that is tried again and again does not fail
every time, hence strong fairness for these two. Crashes are finitely many, so
weak fairness does for the rest. Nothing is assumed of the processor.

`Fairness` (`transactions`): statements return (weak fairness of `Proceed`), and a
goroutine that waits for the connection is given it sometime (strong fairness of
`Acquire`): `database/sql` picks among the waiting ones at random. No new call and no
success is assumed.

`DeliveryFairness` (`updates`): the polling goroutine and the bot loop run and their
calls return. `Poll` is enabled until it happens, so weak fairness says that of the
requests, which the library repeats for ever, one is answered. Nothing is assumed of
the outcome of a handler; crashes are bounded by `MaxCrashes`.

`Fairness` (`tail`): the tail's goroutine runs, and whoever reads the channel takes
events. Strong fairness of `ReachEnd` says that a read does not fail every
time. Xray and the rotation owe nothing: the log need not go on, nor a rename be
followed by a new file.

## Proofs

All theorems hold for any constants that satisfy the named assumptions.

*Arithmetic* (`SubscriptionProofs`). For amounts whose days fit a Duration the
wrapping product is the product and the floor to seconds is exact, so
`ExtendSubscription` is the documented formula (`ExtendIsExact`) and never
moves the end back (`ExtendKeepsTime`). `PaymentHistoryProofs` lifts this to
histories: `EndIsAlwaysExact`, `PaidTimeIsAlwaysKept`, `PayingAlwaysActivates` and
`InstalmentsAlwaysAddUp`, which needs that days of multiples of the price add up
(`DaysAddUp`). Nothing is assumed of the amounts but that they are positive ints: that they fit a Duration
is a condition within each property, and `HistoryInv` carries on beside them that end and balance stay in their
types when they wrap.

*Service* (`UserServiceProofs`). `TypeCorrect` by the type invariant alone, which
is inductive because every row that reaches `UpdateUser` is a row, whatever the amount was:
`sub_until` is any integer. `NoDoubleCredit` needs `MoneyInv`: not only the stored row but each copy in
flight (the bot's and the checker's) is bounded by what has been received, and
the bot's copy by what will have been once its amount is committed.
`SentKeysStayValid` needs `KeyInv`: a key is only sent for a row that is past
its registration, and a compensation concerns a row whose key was never sent.

That active subscribers have their client rests on `ServedInv`, which is about what the
two goroutines hold while they are at work: the bot loop's copy is of a row that is
there and has the same uuid (`HandlerInv`), no listed uuid is another subscriber's
(`UuidsApart`), a registration is compensated only after its own call failed, and a
subscriber who is active and not `hurt` has a client, except after the sweep has removed
it or after the bot loop's commit, until `AddClient` returns (`Served`).
`ActiveIsAlwaysConfigured` follows under any faults. `ActiveAlwaysHasAccess` does, too, with
`ServerInv`: a subscriber whose client is in the file is served, but for the `unserved`, because
whoever replaces the file restarts Xray for all; and no uuid is in the file before it is
issued, so that no new subscriber's `AddClient` finds it there and returns without a restart.
`ClientsAlwaysHaveOwners` assumes that restarts do not fail (`"reload" \notin Faults`), as
`updates` does; a crash in the middle of a call is not excluded. A call that returns an error
has then not touched the file, so a registration that is compensated has left no client
(`OwnerInv`). With failing restarts it is false.

*Refinement* (`UserServiceProofs`). `ServiceImplementsLifecycle` maps each action to
an abstract one or to a stutter, for any amounts. It rests on `TermInv`: a copy listed for
expiry or held for a commit belongs to a row that has not changed in a way the
abstract step forbids. For those who have paid an amount that overflows (`wrapped`), neither
`TermInv` nor the lifecycle says where the end is; all the rest of the lifecycle holds for
them as well.

*Causes of the findings.* A run that ends in a counterexample shows one way in which a comment
is wrong. These theorems show that there is no other, which is what a repair has to
remove; each is about all interleavings and faults that its hypothesis leaves:

| Run | Theorem | Hypothesis | Invariant |
|---|---|---|---|
| `service_no_term` | `ActiveHasTermForWholeDays` | every amount buys at least a day and fits a Duration (`AmountsBuyDays`) | `TermsHaveEnds`: so has the copy about to be committed |
| `service_lost_payment` | `OnlySweepLosesPayments` | no payment is committed while the sweep holds a copy of its row (`SweepMissesCommits`); balances fit an int (`TotalsFit`) | `ReceiptsInv`: no copy in flight is short of what was received |
| `service_failed_removal` | `OnlyXrayOrRaceKeepsAccess` | the configuration can always be edited (`"xray" \notin Faults`), and the sweep and the bot loop never meet at a subscriber (`SweepApart`) | `DisabledInv`: a row that is inactive, or whose client the sweep has removed, has none |
| `devices_clean` | `OnlyUpdatesUnderFlushAreLost` (`DeviceTrackerProofs`) | no session is updated between its copy and its mark (`UpdatesMissFlush`) | `CopyIsCurrent`: the copy is the cached session, and once saved the row |

None of the hypotheses can be dropped. Without `SweepApart` there is, with no failure at
all, the payment that commits and adds the client, after which the sweep marks the row
inactive from its old copy. A hypothesis about steps (`[][...]_vars`) or states is a
restriction of the behaviours, not of the constants, and the code does not ensure it.

*Updates* (`UpdateDeliveryProofs`). `DeliveryImplementsService`: however updates are delivered,
lost and repeated, what the service does is a behaviour of `UserService`, so every theorem
above about `Spec` holds of the whole. `DeliveryTypeCorrect` has the order of the places
of the queue, and that no more than its capacity lies between two of them, from which
`LossAlwaysFitsChannel` follows by counting what each crash loses. `CreditsAlwaysNeedFlows`
is an equation between the flows opened, the credits and the flow still open. What carries it
over a commit is `PaymentDue`, an invariant of the service: a payment about to be committed
has its flow open, so that the commit closes one for the credit it adds, and its amount is
not 0.

*Manager* (`XrayManagerProofs`). `TypeCorrect` holds for any number of processes. The other
theorems assume `OneProcessOnly`; with a second process none of them is true. `ManagerInv`
says that whoever is past `Lock` holds the mutex, that a mutex is held by a goroutine of its
process, that what the holder read is still on disk until it renames, and that at the rename
the `.tmp` is the complete update. `FileIsAlwaysWhole` is immediate from it. For
`ManagerImplementsClients` the abstract configuration is what is on disk,
except between the rename and the end of the restart, when it is what was
replaced: the update takes effect with the restart, or with the crash that
interrupts it, and all other steps are invisible. `ReplacedIsAlwaysBackedUp` needs
`BackupInv`: backups are finitely many, none is from the future, and whoever has written
its backup has the version it read in one that is the newest. That the rotation keeps it, and
keeps at most `MaxBackups` where no removal fails, is a statement about cardinalities: the
number of newer backups is an injection of what is kept into `0 .. MaxBackups - 1` (`AtMostMaxBackupsKept`).

*Devices* (`DeviceTrackerProofs`). `StoredTimeNeverGoesBack` needs `CopiesInOrder`:
of one session the row is no newer than the copy `flush` holds, that copy no
newer than the cached session, and none newer than the `now` of the event at
work. `flush` may write old copies, but never over a newer row.

*Storage* (`TransactionsProofs`). `TypeCorrect` includes who holds the connection
when: whoever runs a statement or is in a transaction holds it, so there is at
most one of them (`Alone`). `TransactionsAreAtomic` needs `WorkInv`: what the
open transaction sees is what is committed plus exactly the statements it has
passed, so a commit is the whole effect of its call on the tables as they are
now, and all steps before it are invisible.

*Tail* (`LogTailProofs`). `TypeCorrect`; then `LinesAreEmittedInOrder`, under the
assumption that the log is not rotated between a `Stat` and its `Open`. Three
invariants carry it: `Layout` (no file is newer than the one at the path, and
those newer than Xray's are empty), `Inode` (the tail's inode is its file's, or that of
a newer file which it is about to open) and `OrderInv` (what was sent, the event in hand,
the buffer and what is unread in this file and in newer ones are lines in
this order, and complete ones). Each kind of step has a lemma of its own.
`ConsumedLinesAreEmitted` and `EventsAreLines` assume nothing. The first rests on `BufferIsRead`:
while the file has not been truncated under the tail, the buffer is what lies before the
offset. For the second, a first piece in a file is followed by its last one, or is the newest
(`PiecesFollow`), and so it is in the buffer, across reads, except where the file was truncated in
between (`BufferFollows`, `FreshIsRead`); those places, the event in hand and the events that
were joined are together no more than the truncations that made them (`CutsCount`).

Only model-checked are the liveness properties: `ExpiredIsSwept`, `EveryCallReturns` of the
manager and of the storage, `EveryUpdateIsTakenOrLost`, `EventuallySaved`, `ExpiredIsDeleted` and
`CatchesUp`. They rest on fairness, that is on `ENABLED`, which TLAPS does not reason about.
Every safety property and refinement that a passing run checks is a theorem.

## Not modelled, and why

- message texts, menus, the profile and instruction views: no state;
- `models/user.go`, `validateConfig`, the types of `xray/model.go`,
  `GetAllUsers`, `ListPendingPayments`, `GetUserByID`: nothing calls them;
- the columns `devices`, `referrer_id`, `created_at`, `updated_at`, and the method
  and state of a pending payment: written and never decided on here;
- a configuration file that is not the expected JSON: the type assertions of
  `AddClient` would panic, which is a crash like any other;
- a clock that is set back: backups are assumed to be named in order;
- of `internal/device`: `ip`, `first_seen`, `priority` and `connection_count` of a session
  (decide nothing); in `DeviceTracker`, the channel, whose events arrive at any time
  (it is in `LogTail`, where the tail waits when it is full);
- in `LogTail`, a line that the filesystem shows in more than two pieces, and a
  failing `Stat` or `Seek`, which the code treats as no change or leaves as a failed
  read does;
- a `getUpdates` that returns more updates than the library asks for at once;
- reading the environment and logging: input and output only.

## Plan

1. Done: `Subscription`, `PaymentHistory`, `Storage`, `UserService`,
   `SubscriptionLifecycle`, `XrayClients`, `XrayManager`, `DeviceSessions`,
   `DeviceTracker`, `AtomicStorage`, `Transactions`, `UpdateDelivery`, `LogTail`, and
   their theorems.
2. `DeviceTracker`, continued: connection counts, with an abstract specification
   that counts every event once (`cache.go:46`), and the device limit.
3. Done: a theorem for every safety property of the passing runs, and for the causes of
   the four findings.
4. Theorems: what the tail does when it is rotated between its `Stat` and its `Open`, and
   the repairs of the findings. A `RecordExpiry`
   that writes only the columns it means to (`status` and `sub_until`) should need no
   hypothesis for `OnlySweepLosesPayments`, and a mark that compares the cached session
   with the copy none for `OnlyUpdatesUnderFlushAreLost`.
