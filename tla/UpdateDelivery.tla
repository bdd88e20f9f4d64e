-------------------------- MODULE UpdateDelivery ---------------------------
(***************************************************************************)
(* How updates reach the bot loop (Bot.Start): Telegram keeps each update  *)
(* until a later getUpdates confirms it by asking for the ones after it.   *)
(* GetUpdatesChan, a library, polls in a goroutine of its own and puts the *)
(* updates into a buffered channel, from which the bot loop takes one at a *)
(* time and calls the service.  The offset is not stored: a process that   *)
(* restarts is given whatever has not been confirmed.                      *)
(*                                                                         *)
(* Updates are numbered in the order they were sent.  What the process     *)
(* knows of them are three places, taken <= fetched <= answered: how far   *)
(* the bot loop, the channel and the answers of getUpdates have come.      *)
(* They say nothing of what became of an update: handled and lost do.      *)
(***************************************************************************)
EXTENDS UserService, Sequences, FiniteSets

CONSTANTS
  Buffer,      \* the capacity of the channel, 100 in the library
  MaxUpdates,  \* bounds on the runs: updates that are sent,
  MaxStarts,   \* those among them that register,
  MaxCrashes   \* and crashes

ASSUME DeliveryAssumption ==
  /\ Buffer \in Nat \ {0}
  /\ MaxUpdates \in Nat
  /\ MaxStarts \in Nat
  /\ MaxCrashes \in Nat

VARIABLES
  sent,      \* the updates subscribers have sent
  kept,      \* Telegram: the updates up to here are confirmed and forgotten
  answered,  \* the last update that getUpdates has returned to this process
  fetched,   \* the last one put into the channel
  taken,     \* the bot loop is here: it takes the update after this one next
  handled,   \* history: the updates the bot loop has taken, in any process
  lost,      \* history: those lost in the channel of a process that died
  opened,    \* history: payment flows opened for each subscriber
  credited,  \* history: payments committed for each subscriber
  crashes    \* how many so far

queueVars == <<sent, kept, answered, fetched, taken>>
fateVars == <<handled, lost>>
countVars == <<opened, credited>>
deliveryVars == <<vars, queueVars, fateVars, countVars, crashes>>

(* /start and the main menu, the two key buttons, the two payment buttons, and
   a message that is no command.  The views are left out. *)
Update ==
  [kind : {"start", "key", "buy"}, tg : TgId, amount : {0}]
    \cup [kind : {"text"}, tg : TgId, amount : Amount]

DeliveryInit ==
  /\ Init
  /\ sent = <<>>
  /\ kept = 0
  /\ answered = 0
  /\ fetched = 0
  /\ taken = 0
  /\ handled = {}
  /\ lost = {}
  /\ opened = [tg \in TgId |-> 0]
  /\ credited = [tg \in TgId |-> 0]
  /\ crashes = 0

Starts == Cardinality({i \in DOMAIN sent : sent[i].kind = "start"})

Send(update) ==
  /\ Len(sent) < MaxUpdates
  /\ update.kind = "start" => Starts < MaxStarts
  /\ sent' = Append(sent, update)
  /\ UNCHANGED <<vars, kept, answered, fetched, taken, fateVars, countVars, crashes>>

-----------------------------------------------------------------------------
(* GetUpdatesChan *)

(* Deliberately wrong: an answer is confirmed before it is in the channel. *)
Poll_ConfirmsEarly ==
  /\ fetched = answered
  /\ answered' = Len(sent)
  /\ kept' = answered'
  /\ UNCHANGED <<vars, sent, fetched, taken, fateVars, countVars, crashes>>

(* The next getUpdates, when all of the last answer is in the channel. *)
Poll ==
  /\ fetched = answered
  /\ kept' = fetched
  /\ answered' = Len(sent)
  /\ UNCHANGED <<vars, sent, fetched, taken, fateVars, countVars, crashes>>

(* The request arrives, the answer does not. *)
PollFails ==
  /\ fetched = answered
  /\ kept' = fetched
  /\ UNCHANGED <<vars, sent, answered, fetched, taken, fateVars, countVars, crashes>>

Put ==
  /\ fetched < answered
  /\ fetched - taken < Buffer
  /\ fetched' = fetched + 1
  /\ UNCHANGED <<vars, sent, kept, answered, taken, fateVars, countVars, crashes>>

-----------------------------------------------------------------------------
(* Bot.Start *)

(* What the handler of an update does first. *)
Handle(update) ==
  LET tg == update.tg IN
  \/ /\ update.kind = "start"
     /\ RegisterUser(tg) \/ (Known(users, tg) /\ UNCHANGED vars)
  \/ /\ update.kind = "key"
     /\ GenerateVPNKey(tg) \/ (~Known(users, tg) /\ UNCHANGED vars)
  \/ /\ update.kind = "buy"
     /\ StartPayment(tg)
  \/ /\ update.kind = "text"
     /\ \/ CompletePayment(tg, update.amount)
        \/ /\ ~GetPendingPayment(pending, tg) \/ ~Known(users, tg)
           /\ UNCHANGED vars
  \/ "db" \in Faults /\ UNCHANGED vars

(* Take of an update, in order.  Whatever its handler does, it is not taken
   again by this process. *)
Take ==
  /\ bot = Idle
  /\ taken < fetched
  /\ Handle(sent[taken + 1])
  /\ taken' = taken + 1
  /\ handled' = handled \cup {taken'}
  /\ opened' = IF pending' = pending THEN opened
               ELSE [opened EXCEPT ![sent[taken'].tg] = @ + 1]
  /\ UNCHANGED <<sent, kept, answered, fetched, lost, credited, crashes>>

(* The rest of the handler. *)
Continue ==
  /\ ProvisionClient \/ CompensateRegistration \/ CommitPayment \/ GrantAccess
  /\ credited' = IF received' = received THEN credited
                 ELSE [credited EXCEPT ![bot.tg] = @ + 1]
  /\ UNCHANGED <<queueVars, fateVars, opened, crashes>>

-----------------------------------------------------------------------------

Background ==
  /\ SweepStep \/ Tick
  /\ UNCHANGED <<queueVars, fateVars, countVars, crashes>>

(* Deliberately wrong: the offset goes back and what was taken does not. *)
Restart_KeepsTaken ==
  /\ "crash" \in Faults
  /\ crashes < MaxCrashes
  /\ crashes' = crashes + 1
  /\ Crash \/ (bot = Idle /\ SweepIdle /\ UNCHANGED vars)
  /\ answered' = kept
  /\ fetched' = kept
  /\ UNCHANGED <<sent, kept, taken, fateVars, countVars>>

(* The channel and the offset are lost with the process.  What was confirmed
   when it was put into the channel will not be delivered again. *)
Restart ==
  /\ "crash" \in Faults
  /\ crashes < MaxCrashes
  /\ crashes' = crashes + 1
  /\ Crash \/ (bot = Idle /\ SweepIdle /\ UNCHANGED vars)
  /\ answered' = kept
  /\ fetched' = kept
  /\ taken' = kept
  /\ lost' = lost \cup (taken + 1 .. kept)
  /\ UNCHANGED <<sent, kept, handled, countVars>>

DeliveryNext ==
  \/ \E update \in Update : Send(update)
  \/ Poll \/ PollFails \/ Put
  \/ Take \/ Continue
  \/ Background \/ Restart

DeliverySpec == DeliveryInit /\ [][DeliveryNext]_deliveryVars

(* The polling goroutine and the bot loop run, and their calls return; a poll
   is repeated until one is answered. *)
DeliveryFairness ==
  /\ WF_deliveryVars(Poll)
  /\ WF_deliveryVars(Put)
  /\ WF_deliveryVars(Take)
  /\ WF_deliveryVars(Continue)

FairDeliverySpec == DeliverySpec /\ DeliveryFairness

-----------------------------------------------------------------------------

(* The places are in order: no update is confirmed before it is in the channel,
   and none is taken that is not. *)
DeliveryTypeOK ==
  /\ sent \in Seq(Update)
  /\ kept \in 0 .. fetched
  /\ fetched \in 0 .. answered
  /\ answered \in 0 .. Len(sent)
  /\ taken \in 0 .. fetched
  /\ fetched - taken <= Buffer
  /\ handled \subseteq DOMAIN sent
  /\ lost \subseteq DOMAIN sent
  /\ opened \in [TgId -> Nat]
  /\ credited \in [TgId -> Nat]
  /\ crashes \in Nat

(***************************************************************************)
(* Each payment flow that StartPayment opened, a button pressed again or a *)
(* write that failed not being one, is still open or has been credited     *)
(* once: an amount that is delivered again after a crash, its commit done, *)
(* finds the flow closed (handlePendingPurchase) and is not credited again *)
(* unless the button before it is delivered again and opens a new one.     *)
(***************************************************************************)
CreditsNeedFlows ==
  \A tg \in TgId :
    credited[tg] + (IF tg \in pending THEN 1 ELSE 0) = opened[tg]

(***************************************************************************)
(* A crash loses no more updates than the channel holds: an update is      *)
(* confirmed only once it is in the channel, so all others come again.     *)
(***************************************************************************)
LossFitsChannel == Cardinality(lost) <= crashes * Buffer

(***************************************************************************)
(* The bot loop comes to every update that is sent, unless it was lost in  *)
(* the channel of a process that died: no failure in the service leaves    *)
(* the loop in a handler, and no poll that failed skips an update.         *)
(***************************************************************************)
EveryUpdateIsTakenOrLost ==
  \A i \in 1 .. MaxUpdates : Len(sent) >= i ~> i \in handled \cup lost
=============================================================================
