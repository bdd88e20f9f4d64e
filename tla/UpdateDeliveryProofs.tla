------------------------ MODULE UpdateDeliveryProofs ------------------------
(***************************************************************************)
(* What the way from Telegram to the service can and cannot add to it: for *)
(* any number of updates and crashes, any capacity of the channel and any  *)
(* faults.                                                                 *)
(***************************************************************************)
EXTENDS UpdateDelivery, UserServiceProofs, FiniteSetTheorems

LEMMA DeliveryInitially == DeliveryInit => DeliveryTypeOK
  BY DeliveryAssumption DEF DeliveryAssumption, DeliveryInit, DeliveryTypeOK

(* The update that the bot loop takes next is one that was sent. *)
LEMMA NextUpdate ==
  ASSUME DeliveryTypeOK, taken < fetched
  PROVE  /\ sent[taken + 1] \in Update
         /\ sent[taken + 1].tg \in TgId
         /\ sent[taken + 1].kind = "text" => sent[taken + 1].amount \in Amount
<1>1. sent \in Seq(Update) /\ taken + 1 \in 1 .. Len(sent)
  BY DEF DeliveryTypeOK
<1>2. sent[taken + 1] \in Update
  BY <1>1
<1> QED  BY <1>2 DEF Update

(* Counting one more, for a subscriber or for nobody. *)
LEMMA CountType ==
  ASSUME NEW count \in [TgId -> Nat], NEW tg
  PROVE  [count EXCEPT ![tg] = @ + 1] \in [TgId -> Nat]
<1> DEFINE new == [count EXCEPT ![tg] = @ + 1]
<1>1. new = [other \in TgId |-> IF other = tg THEN count[other] + 1 ELSE count[other]]
  OBVIOUS
<1> HIDE DEF new
<1>2. new \in [TgId -> Nat]
  BY <1>1
<1> QED  BY <1>2 DEF new

LEMMA DeliveryStep ==
  ASSUME DeliveryTypeOK, [DeliveryNext]_deliveryVars
  PROVE  DeliveryTypeOK'
<1> USE DEF DeliveryTypeOK
<1>0. Buffer \in Nat \ {0} /\ Len(sent) \in Nat
  BY DeliveryAssumption DEF DeliveryAssumption
<1>1. ASSUME NEW update \in Update, Send(update)
      PROVE  DeliveryTypeOK'
  <2>1. sent' \in Seq(Update) /\ Len(sent') = Len(sent) + 1
    BY <1>1 DEF Send
  <2>2. DOMAIN sent \subseteq DOMAIN sent'
    BY <1>0, <2>1
  <2> QED  BY <1>0, <1>1, <2>1, <2>2 DEF Send, fateVars, countVars
<1>2. CASE Poll
  BY <1>0, <1>2 DEF Poll, fateVars, countVars
<1>3. CASE PollFails
  BY <1>0, <1>3 DEF PollFails, fateVars, countVars
<1>4. CASE Put
  BY <1>0, <1>4 DEF Put, fateVars, countVars
<1>5. CASE Take
  <2>1. opened' \in [TgId -> Nat]
    BY <1>5, CountType DEF Take
  <2>2. handled' \subseteq DOMAIN sent
    BY <1>0, <1>5 DEF Take
  <2> QED  BY <1>0, <1>5, <2>1, <2>2 DEF Take
<1>6. CASE Continue
  <2>1. credited' \in [TgId -> Nat]
    BY <1>6, CountType DEF Continue
  <2> QED  BY <1>0, <1>6, <2>1 DEF Continue, queueVars, fateVars
<1>7. CASE Background
  BY <1>7 DEF Background, queueVars, fateVars, countVars
<1>8. CASE Restart
  <2>1. lost' \subseteq DOMAIN sent
    BY <1>0, <1>8 DEF Restart
  <2> QED  BY <1>0, <1>8, <2>1 DEF Restart, countVars
<1>9. CASE UNCHANGED deliveryVars
  BY <1>9 DEF deliveryVars, queueVars, fateVars, countVars
<1> QED
  BY <1>1, <1>2, <1>3, <1>4, <1>5, <1>6, <1>7, <1>8, <1>9 DEF DeliveryNext

(***************************************************************************)
(* At every instant what is confirmed is in the channel or taken, what is  *)
(* in the channel was answered, what was answered was sent, and the        *)
(* channel holds no more than its capacity.                                *)
(***************************************************************************)
THEOREM DeliveryTypeCorrect == DeliverySpec => []DeliveryTypeOK
<1>1. DeliveryTypeOK /\ [DeliveryNext]_deliveryVars => DeliveryTypeOK'
  BY DeliveryStep
<1> QED  BY <1>1, DeliveryInitially, PTL DEF DeliverySpec

-----------------------------------------------------------------------------
(***************************************************************************)
(* Losses.  Only a crash loses updates, and no more than it finds in the   *)
(* channel: the places confirmed and taken are never further apart.        *)
(***************************************************************************)
LossInv == IsFiniteSet(lost) /\ LossFitsChannel

LEMMA LossStep ==
  ASSUME DeliveryTypeOK, LossInv, [DeliveryNext]_deliveryVars
  PROVE  LossInv'
<1>0. Buffer \in Nat \ {0} /\ crashes \in Nat
  BY DeliveryAssumption DEF DeliveryAssumption, DeliveryTypeOK
<1>1. CASE Restart
  <2> DEFINE gone == taken + 1 .. kept
  <2>1. /\ taken \in Nat /\ kept \in Nat /\ kept - taken <= Buffer
        /\ lost' = lost \cup gone /\ crashes' = crashes + 1
    BY <1>0, <1>1 DEF Restart, DeliveryTypeOK
  <2>2. IsFiniteSet(gone) /\ Cardinality(gone) \in Nat /\ Cardinality(gone) <= Buffer
    <3>1. taken + 1 \in Int /\ kept \in Int
      BY <2>1
    <3>2. IsFiniteSet(gone)
      BY <3>1, FS_Interval
    <3>3. Cardinality(gone) = IF taken + 1 > kept THEN 0 ELSE kept - (taken + 1) + 1
      BY <3>1, FS_Interval
    <3> QED  BY <1>0, <2>1, <3>2, <3>3
  <2> HIDE DEF gone
  <2>3. IsFiniteSet(lost) /\ Cardinality(lost) \in Nat
          /\ Cardinality(lost) <= crashes * Buffer
    BY FS_CardinalityType DEF LossInv, LossFitsChannel
  <2>4. /\ IsFiniteSet(lost')
        /\ Cardinality(lost') =
             Cardinality(lost) + Cardinality(gone) - Cardinality(lost \cap gone)
    BY <2>1, <2>2, <2>3, FS_Union
  <2>5. Cardinality(lost \cap gone) \in Nat
    BY <2>3, FS_Intersection, FS_CardinalityType
  <2>6. (crashes + 1) * Buffer = crashes * Buffer + Buffer /\ crashes * Buffer \in Nat
    BY <1>0
  <2>7. Cardinality(lost') <= crashes' * Buffer
    BY <1>0, <2>1, <2>2, <2>3, <2>4, <2>5, <2>6
  <2> QED  BY <2>4, <2>7 DEF LossInv, LossFitsChannel
<1>2. ASSUME UNCHANGED <<lost, crashes>> PROVE LossInv'
  BY <1>2 DEF LossInv, LossFitsChannel
<1>3. ASSUME \/ \E update \in Update : Send(update)
             \/ Poll \/ PollFails \/ Put \/ Take \/ Continue \/ Background
             \/ UNCHANGED deliveryVars
      PROVE  UNCHANGED <<lost, crashes>>
  BY <1>3
  DEF Send, Poll, PollFails, Put, Take, Continue, Background, deliveryVars, fateVars
<1> QED  BY <1>1, <1>2, <1>3 DEF DeliveryNext

(***************************************************************************)
(* However often the process dies, it loses no more updates than the       *)
(* channel can hold each time.                                             *)
(***************************************************************************)
THEOREM LossAlwaysFitsChannel == DeliverySpec => []LossFitsChannel
<1>1. DeliveryInit => LossInv
  BY FS_EmptySet, DeliveryAssumption
  DEF DeliveryInit, LossInv, LossFitsChannel, DeliveryAssumption
<1>2. DeliveryTypeOK /\ LossInv /\ [DeliveryNext]_deliveryVars => LossInv'
  BY LossStep
<1>3. LossInv => LossFitsChannel
  BY DEF LossInv
<1> QED  BY <1>1, <1>2, <1>3, DeliveryTypeCorrect, PTL DEF DeliverySpec

-----------------------------------------------------------------------------
(* The bot loop only does to the service what the service says can be done. *)
LEMMA DeliveryStepOfService ==
  ASSUME DeliveryTypeOK, [DeliveryNext]_deliveryVars
  PROVE  [Next]_vars
<1>1. CASE Take
  <2> DEFINE update == sent[taken + 1]
  <2>1. Handle(update) /\ taken < fetched
    BY <1>1 DEF Take
  <2>2. update.tg \in TgId /\ (update.kind = "text" => update.amount \in Amount)
    BY <2>1, NextUpdate
  <2> HIDE DEF update
  <2> QED  BY <2>1, <2>2 DEF Handle, Next, BotStep
<1>2. CASE Continue
  BY <1>2 DEF Continue, Next, BotStep
<1>3. CASE Background
  BY <1>3 DEF Background, Next
<1>4. CASE Restart
  BY <1>4 DEF Restart, Next
<1>5. ASSUME \/ \E update \in Update : Send(update)
             \/ Poll \/ PollFails \/ Put \/ UNCHANGED deliveryVars
      PROVE  UNCHANGED vars
  BY <1>5 DEF Send, Poll, PollFails, Put, deliveryVars
<1> QED  BY <1>1, <1>2, <1>3, <1>4, <1>5 DEF DeliveryNext

(***************************************************************************)
(* Whatever updates arrive, are lost or delivered again, the service       *)
(* behaves as UserService says: all that is proved of it holds here.       *)
(***************************************************************************)
THEOREM DeliveryImplementsService == DeliverySpec => Spec
<1>1. DeliveryInit => Init
  BY DEF DeliveryInit
<1>2. DeliveryTypeOK /\ [DeliveryNext]_deliveryVars => [Next]_vars
  BY DeliveryStepOfService
<1> QED  BY <1>1, <1>2, DeliveryTypeCorrect, PTL DEF DeliverySpec, Spec

-----------------------------------------------------------------------------
(***************************************************************************)
(* Credits.  A payment about to be committed has its flow open (PaymentDue *)
(* of the service), so that a commit can pay for its credit by closing it. *)
(***************************************************************************)

(* The steps by what they do to flows and credits. *)
LEMMA FlowSteps ==
  ASSUME DeliveryTypeOK, TypeOK, TermInv, [DeliveryNext]_deliveryVars
  PROVE  \/ UNCHANGED <<pending, opened, credited>>
         \/ /\ \E tg \in TgId \ pending :
                 /\ pending' = pending \cup {tg}
                 /\ opened' = [opened EXCEPT ![tg] = @ + 1]
            /\ UNCHANGED credited
         \/ /\ \E tg \in pending :
                 /\ pending' = pending \ {tg}
                 /\ credited' = [credited EXCEPT ![tg] = @ + 1]
            /\ UNCHANGED opened
<1>1. CASE Take
  <2> DEFINE update == sent[taken + 1]
  <2>1. /\ Handle(update) /\ UNCHANGED credited
        /\ opened' = IF pending' = pending
                     THEN opened ELSE [opened EXCEPT ![update.tg] = @ + 1]
        /\ update \in Update /\ update.tg \in TgId
    BY <1>1, NextUpdate DEF Take
  <2> HIDE DEF update
  <2>2. pending' = pending \/ pending' = pending \cup {update.tg}
    BY <2>1
    DEF Handle, StartPayment, CreatePendingPayment, RegisterUser, GenerateVPNKey,
        CompletePayment, vars, storeVars
  <2>3. CASE pending' = pending
    BY <2>1, <2>3
  <2>4. CASE pending' # pending
    <3>1. pending' = pending \cup {update.tg} /\ update.tg \notin pending
      BY <2>2, <2>4
    <3> QED  BY <2>1, <2>4, <3>1
  <2> QED  BY <2>3, <2>4
<1>2. CASE Continue
  <2>1. ASSUME ProvisionClient \/ CompensateRegistration \/ GrantAccess
        PROVE  UNCHANGED <<pending, received>>
    BY <2>1 DEF ProvisionClient, CompensateRegistration, GrantAccess, historyVars
  <2>2. CASE CommitPayment
    <3>1. bot.tg \in pending /\ bot.amount # 0
      BY <2>2 DEF CommitPayment, TermInv, PaymentDue
    <3>2. CASE UNCHANGED <<pending, received>>
      BY <1>2, <3>2 DEF Continue
    <3>3. CASE pending' = DeletePendingPayment(pending, bot.tg) /\ Receipt
      <4>1. bot.tg \in TgId /\ bot.amount \in Nat /\ received \in [TgId -> Nat]
        BY <2>2, BotMoves DEF CommitPayment, TypeOK
      <4>2. received'[bot.tg] = received[bot.tg] + bot.amount
        BY <3>3, <4>1 DEF Receipt
      <4>3. received' # received
        BY <3>1, <4>1, <4>2
      <4> QED  BY <1>2, <3>1, <3>3, <4>3 DEF Continue, DeletePendingPayment
    <3> QED  BY <2>2, <3>2, <3>3 DEF CommitPayment
  <2> QED  BY <1>2, <2>1, <2>2 DEF Continue
<1>3. CASE Background
  <2>1. UNCHANGED pending
    BY <1>3
    DEF Background, SweepStep, ListExpiredUsers, DisableClient, RecordExpiry,
        RecordExpiryFails, Tick, storeVars
  <2> QED  BY <1>3, <2>1 DEF Background, countVars
<1>4. CASE Restart
  BY <1>4 DEF Restart, Crash, vars, storeVars, countVars
<1>5. ASSUME \/ \E update \in Update : Send(update)
             \/ Poll \/ PollFails \/ Put \/ UNCHANGED deliveryVars
      PROVE  UNCHANGED <<pending, opened, credited>>
  BY <1>5 DEF Send, Poll, PollFails, Put, deliveryVars, vars, storeVars, countVars
<1> QED  BY <1>1, <1>2, <1>3, <1>4, <1>5 DEF DeliveryNext

LEMMA CreditsStep ==
  ASSUME DeliveryTypeOK, TypeOK, TermInv, CreditsNeedFlows,
         [DeliveryNext]_deliveryVars
  PROVE  CreditsNeedFlows'
<1> SUFFICES ASSUME NEW tg \in TgId
             PROVE  credited'[tg] + (IF tg \in pending' THEN 1 ELSE 0) = opened'[tg]
  BY DEF CreditsNeedFlows
<1>0. /\ opened \in [TgId -> Nat] /\ credited \in [TgId -> Nat]
      /\ credited[tg] + (IF tg \in pending THEN 1 ELSE 0) = opened[tg]
      /\ pending \subseteq TgId
  BY DEF DeliveryTypeOK, CreditsNeedFlows, TypeOK
<1>1. CASE UNCHANGED <<pending, opened, credited>>
  BY <1>0, <1>1
<1>2. ASSUME NEW payer \in TgId \ pending,
             pending' = pending \cup {payer},
             opened' = [opened EXCEPT ![payer] = @ + 1],
             UNCHANGED credited
      PROVE  credited'[tg] + (IF tg \in pending' THEN 1 ELSE 0) = opened'[tg]
  BY <1>0, <1>2
<1>3. ASSUME NEW payer \in pending,
             pending' = pending \ {payer},
             credited' = [credited EXCEPT ![payer] = @ + 1],
             UNCHANGED opened
      PROVE  credited'[tg] + (IF tg \in pending' THEN 1 ELSE 0) = opened'[tg]
  BY <1>0, <1>3
<1> QED  BY <1>1, <1>2, <1>3, FlowSteps

(***************************************************************************)
(* However updates are delivered again, each flow that StartPayment opened *)
(* is still open or was credited once, and no payment is credited without. *)
(***************************************************************************)
THEOREM CreditsAlwaysNeedFlows == DeliverySpec => []CreditsNeedFlows
<1>1. DeliveryInit => CreditsNeedFlows
  BY DEF DeliveryInit, Init, CreditsNeedFlows
<1>2. DeliveryTypeOK /\ TypeOK /\ TermInv /\ CreditsNeedFlows
        /\ [DeliveryNext]_deliveryVars => CreditsNeedFlows'
  BY CreditsStep
<1> QED
  BY <1>1, <1>2, DeliveryTypeCorrect, DeliveryImplementsService, TypeCorrect,
     TermIsKept, PTL
  DEF DeliverySpec
=============================================================================
