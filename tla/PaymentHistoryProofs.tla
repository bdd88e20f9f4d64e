------------------------ MODULE PaymentHistoryProofs ------------------------
(***************************************************************************)
(* That the end of a subscription is the documented one after any payments *)
(* at any times, as long as every amount has fitted a time.Duration; that  *)
(* an amount that fits never moves it back and leaves the subscriber       *)
(* active, and that such payments add up, whatever was paid before; and    *)
(* that the balance stays a Go int.                                        *)
(***************************************************************************)
EXTENDS PaymentHistory, SubscriptionProofs

(* What the theorems rest on. *)
HistoryInv ==
  /\ TypeOK
  /\ EndIsExact

(* An amount that fits does to the end what the reference says. *)
LEMMA ReferenceStep ==
  ASSUME NEW current \in Int, NEW t \in Nat, NEW amount \in Nat, AmountFits(amount)
  PROVE  ExtendSubscription(current, t, amount, PricePerDay)
           = ReferenceEnd(current, t, amount)
  BY ExtendIsExact DEF ReferenceEnd, ExtensionDays

(* The constants, as the steps need them. *)
LEMMA HistoryConstants ==
  /\ DefaultTrialBalance \in Nat /\ AmountFits(DefaultTrialBalance)
  /\ DefaultTrialBalance < IntWrap /\ IntWrap \in Nat \ {0}
  /\ MaxTime \in Nat /\ MaxBalance \in Nat
  /\ PricePerDay \in Nat \ {0} /\ DaySeconds \in Nat \ {0}
  /\ \A amount \in Amount : amount \in 1 .. IntWrap - 1 /\ amount \in Nat \ {0}
  BY PricingAssumption, HistoryAssumption DEF PricingAssumption, HistoryAssumption

LEMMA ReferenceInNat ==
  ASSUME NEW current \in Nat, NEW t \in Nat, NEW amount \in Nat
  PROVE  ReferenceEnd(current, t, amount) \in Nat
<1>1. amount \div PricePerDay \in Nat
  BY HistoryConstants, DivisionInNat
<1>2. (amount \div PricePerDay) * DaySeconds \in Nat
  BY <1>1, HistoryConstants
<1>3. Later(current, t) \in Nat
  BY DEF Later
<1> QED  BY <1>2, <1>3 DEF ReferenceEnd

LEMMA HistoryInitially == Init => HistoryInv
<1> SUFFICES ASSUME Init PROVE HistoryInv
  OBVIOUS
<1>1. now \in Nat /\ now \in 1 .. MaxTime
  BY HistoryConstants DEF Init
<1>2. subUntil = reference
  BY <1>1, HistoryConstants, ReferenceStep DEF Init
<1>3. reference \in Nat
  BY <1>1, HistoryConstants, ReferenceInNat DEF Init
<1>4. balance \in -IntWrap .. IntWrap - 1 /\ received \in 0 .. Later(DefaultTrialBalance, MaxBalance)
  BY HistoryConstants DEF Init, Later
<1> QED  BY <1>1, <1>2, <1>3, <1>4 DEF Init, HistoryInv, TypeOK, EndIsExact

LEMMA HistoryStep ==
  ASSUME HistoryInv, [Next]_vars
  PROVE  HistoryInv'
<1>1. CASE Tick
  BY <1>1, HistoryConstants DEF Tick, HistoryInv, TypeOK, EndIsExact
<1>2. ASSUME NEW amount \in Amount, Pay(amount)
      PROVE  HistoryInv'
  <2>1. /\ amount \in Nat /\ amount \in 1 .. IntWrap - 1
        /\ now \in Nat /\ subUntil \in Int /\ reference \in Nat
    BY HistoryConstants DEF HistoryInv, TypeOK
  <2>2. fits' => subUntil' = reference'
    <3>1. fits' => AmountFits(amount) /\ subUntil = reference
      BY <1>2 DEF Pay, HistoryInv, EndIsExact
    <3> QED  BY <1>2, <2>1, <3>1, ReferenceStep DEF Pay
  <2>3. subUntil' \in Int
    BY <1>2, <2>1, ExtendInInt DEF Pay
  <2>4. reference' \in Nat
    BY <1>2, <2>1, ReferenceInNat DEF Pay
  <2>5. balance' \in -IntWrap .. IntWrap - 1
    BY <1>2, <2>1, BalanceInRange DEF Pay, HistoryInv, TypeOK
  <2>6. received' \in 0 .. Later(DefaultTrialBalance, MaxBalance)
    BY <1>2, <2>1, HistoryConstants DEF Pay, HistoryInv, TypeOK, Later
  <2>7. fits' \in BOOLEAN /\ now' = now
    BY <1>2 DEF Pay, HistoryInv, TypeOK
  <2> QED  BY <2>2, <2>3, <2>4, <2>5, <2>6, <2>7 DEF HistoryInv, TypeOK, EndIsExact
<1>3. CASE UNCHANGED vars
  BY <1>3 DEF vars, HistoryInv, TypeOK, EndIsExact
<1> QED  BY <1>1, <1>2, <1>3 DEF Next

(***************************************************************************)
(* The clock, the end and the balance keep their types through every       *)
(* history: the end stays an integer, and the balance a Go int, when they  *)
(* wrap.                                                                   *)
(***************************************************************************)
THEOREM TypeCorrect == Spec => []TypeOK
<1>1. HistoryInv => TypeOK
  BY DEF HistoryInv
<1> QED  BY <1>1, HistoryInitially, HistoryStep, PTL DEF Spec

(***************************************************************************)
(* The stored end is the documented formula's, after any history of        *)
(* amounts that fit.                                                       *)
(***************************************************************************)
THEOREM EndIsAlwaysExact == Spec => []EndIsExact
<1>1. HistoryInv => EndIsExact
  BY DEF HistoryInv
<1> QED  BY <1>1, HistoryInitially, HistoryStep, PTL DEF Spec

(***************************************************************************)
(* "Existing paid time is never lost" by an amount that fits, whatever was *)
(* paid before.                                                            *)
(***************************************************************************)
THEOREM PaidTimeIsAlwaysKept == Spec => PaidTimeIsKept
<1> DEFINE Kept == \A a \in Amount : Pay(a) /\ AmountFits(a) => subUntil' >= subUntil
<1>1. ASSUME HistoryInv PROVE Kept
  <2> SUFFICES ASSUME NEW a \in Amount, Pay(a), AmountFits(a)
               PROVE  subUntil' >= subUntil
    OBVIOUS
  <2>1. a \in Nat /\ now \in Nat /\ subUntil \in Int
    BY <1>1, HistoryConstants DEF HistoryInv, TypeOK
  <2> QED  BY <2>1, ExtendKeepsTime DEF Pay
<1> HIDE DEF Kept
<1>2. HistoryInv => [Kept]_vars
  BY <1>1
<1>3. Spec => [][Kept]_vars
  BY <1>2, HistoryInitially, HistoryStep, PTL DEF Spec
<1> QED  BY <1>3 DEF Kept, PaidTimeIsKept

(* A whole number of days is that many times the price. *)
LEMMA WholeDays ==
  ASSUME NEW amount \in Nat, amount % PricePerDay = 0
  PROVE  /\ ExtensionDays(amount, PricePerDay) \in Nat
         /\ amount = ExtensionDays(amount, PricePerDay) * PricePerDay
  BY PricingAssumption DEF PricingAssumption, ExtensionDays

LEMMA DaysAddUp ==
  ASSUME NEW a \in Nat, NEW b \in Nat, a % PricePerDay = 0, b % PricePerDay = 0
  PROVE  ExtensionDays(a + b, PricePerDay)
           = ExtensionDays(a, PricePerDay) + ExtensionDays(b, PricePerDay)
<1> DEFINE m == ExtensionDays(a, PricePerDay)
           n == ExtensionDays(b, PricePerDay)
<1>1. PricePerDay \in Nat \ {0} /\ m \in Nat /\ n \in Nat
  BY WholeDays, PricingAssumption DEF PricingAssumption
<1>2. a = m * PricePerDay /\ b = n * PricePerDay
  BY WholeDays
<1> HIDE DEF m, n
<1>3. a + b = (m + n) * PricePerDay
  BY <1>1, <1>2
<1>4. ((m + n) * PricePerDay) \div PricePerDay = m + n
  BY <1>1, ExactDivision
<1> QED  BY <1>3, <1>4 DEF ExtensionDays, m, n

(* Parts of an amount that fits do. *)
LEMMA PartFits ==
  ASSUME NEW a \in Nat, NEW b \in Nat, a % PricePerDay = 0, b % PricePerDay = 0,
         AmountFits(a + b)
  PROVE  AmountFits(a) /\ AmountFits(b)
<1> DEFINE m == ExtensionDays(a, PricePerDay)
           n == ExtensionDays(b, PricePerDay)
<1>1. m \in Nat /\ n \in Nat /\ DayDuration \in Nat /\ DurationWrap \in Nat
  BY WholeDays, PricingAssumption DEF PricingAssumption, DayDuration
<1>2. (m + n) * DayDuration < DurationWrap
  BY DaysAddUp DEF AmountFits
<1> HIDE DEF m, n
<1>3. /\ m * DayDuration \in Nat /\ n * DayDuration \in Nat
      /\ (m + n) * DayDuration = m * DayDuration + n * DayDuration
  BY <1>1
<1>4. m * DayDuration < DurationWrap /\ n * DayDuration < DurationWrap
  BY <1>1, <1>2, <1>3
<1> QED  BY <1>4 DEF AmountFits, m, n

(***************************************************************************)
(* Payments of whole days made at one instant add up if their sum fits, at *)
(* every reachable end and instant, whatever was paid before.              *)
(***************************************************************************)
THEOREM InstalmentsAlwaysAddUp == Spec => []InstalmentsAddUp
<1>1. ASSUME HistoryInv PROVE InstalmentsAddUp
  <2> SUFFICES ASSUME NEW a \in Amount, NEW b \in Amount,
                      a % PricePerDay = 0, b % PricePerDay = 0, AmountFits(a + b)
               PROVE  ExtendSubscription(
                        ExtendSubscription(subUntil, now, a, PricePerDay),
                        now, b, PricePerDay)
                      = ExtendSubscription(subUntil, now, a + b, PricePerDay)
    BY DEF InstalmentsAddUp
  <2> DEFINE days(x) == ExtensionDays(x, PricePerDay)
             half == Later(subUntil, now) + days(a) * DaySeconds
  <2>1. /\ a \in Nat \ {0} /\ AmountFits(a)
        /\ b \in Nat \ {0} /\ AmountFits(b)
    BY HistoryConstants, PartFits
  <2>2. now \in Nat /\ subUntil \in Int
    BY <1>1, HistoryConstants DEF HistoryInv, TypeOK
  <2>3. PricePerDay \in Nat \ {0} /\ DaySeconds \in Nat \ {0}
    BY PricingAssumption DEF PricingAssumption
  <2>4. days(a) \in Nat /\ days(b) \in Nat /\ days(a + b) = days(a) + days(b)
    BY <2>1, WholeDays, DaysAddUp
  <2>5. /\ ~(a < PricePerDay)
        /\ ~(b < PricePerDay)
        /\ ~(a + b < PricePerDay)
    BY <2>1, <2>3
  <2>6. ExtendSubscription(subUntil, now, a, PricePerDay) = half
    BY <2>1, <2>2, <2>5, ExtendIsExact
  <2>7. days(a) * DaySeconds \in Nat
    BY <2>3, <2>4
  <2>8. half \in Int /\ Later(half, now) = half
    BY <2>2, <2>7 DEF Later
  <2>9. ExtendSubscription(half, now, b, PricePerDay) = half + days(b) * DaySeconds
    BY <2>1, <2>2, <2>5, <2>8, ExtendIsExact
  <2>10. ExtendSubscription(subUntil, now, a + b, PricePerDay)
           = Later(subUntil, now) + (days(a) + days(b)) * DaySeconds
    BY <2>1, <2>2, <2>4, <2>5, ExtendIsExact
  <2>11. Later(subUntil, now) \in Int
    BY <2>2 DEF Later
  <2>12. (days(a) + days(b)) * DaySeconds = days(a) * DaySeconds + days(b) * DaySeconds
    BY <2>3, <2>4
  <2>13. days(b) * DaySeconds \in Nat
    BY <2>3, <2>4
  <2> HIDE DEF days
  <2> QED  BY <2>6, <2>7, <2>9, <2>10, <2>11, <2>12, <2>13
<1> QED  BY <1>1, HistoryInitially, HistoryStep, PTL DEF Spec

(***************************************************************************)
(* A payment of a day or more whose amount fits leaves the subscriber      *)
(* active, whenever it is made and whatever was paid before.               *)
(***************************************************************************)
THEOREM PayingAlwaysActivates == Spec => PayingActivates
<1> DEFINE Activates ==
      \A a \in Amount :
        Pay(a) /\ a >= PricePerDay /\ AmountFits(a) => IsActive(subUntil', now)
<1>1. ASSUME HistoryInv PROVE Activates
  <2> SUFFICES ASSUME NEW a \in Amount, Pay(a), a >= PricePerDay, AmountFits(a)
               PROVE  IsActive(subUntil', now)
    OBVIOUS
  <2>1. a \in Nat /\ now \in Nat /\ subUntil \in Int
    BY <1>1, HistoryConstants DEF HistoryInv, TypeOK
  <2> QED  BY <2>1, ExtendKeepsTime DEF Pay, IsActive
<1> HIDE DEF Activates
<1>2. HistoryInv => [Activates]_vars
  BY <1>1
<1>3. Spec => [][Activates]_vars
  BY <1>2, HistoryInitially, HistoryStep, PTL DEF Spec
<1> QED  BY <1>3 DEF Activates, PayingActivates
=============================================================================
