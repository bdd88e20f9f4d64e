------------------------- MODULE SubscriptionProofs -------------------------
(***************************************************************************)
(* Facts about the pricing arithmetic of Subscription, for every price,    *)
(* day length and integer width.                                           *)
(***************************************************************************)
EXTENDS Subscription, TLAPS

(* Dividing a multiple gives the multiplier back. *)
LEMMA ExactDivision ==
  ASSUME NEW a \in Nat, NEW b \in Nat \ {0}
  PROVE  (a * b) \div b = a
  OBVIOUS

(* Reducing a number that is small enough does nothing. *)
LEMMA SmallModulo ==
  ASSUME NEW a \in Nat, NEW m \in Nat \ {0}, a < m
  PROVE  a % m = a
  OBVIOUS

(* A quotient of naturals is a natural. *)
LEMMA DivisionInNat ==
  ASSUME NEW a \in Nat, NEW b \in Nat \ {0}
  PROVE  a \div b \in Nat
  OBVIOUS

(* A duration in range is not touched by the reduction to 64 bits. *)
LEMMA WrapInRange ==
  ASSUME NEW d \in Nat, d < DurationWrap
  PROVE  WrapDuration(d) = d
<1>1. DurationWrap \in Nat \ {0} /\ 2 * DurationWrap \in Nat \ {0}
  BY PricingAssumption DEF PricingAssumption
<1>2. d + DurationWrap \in Nat /\ d + DurationWrap < 2 * DurationWrap
  BY <1>1
<1>3. (d + DurationWrap) % (2 * DurationWrap) = d + DurationWrap
  BY <1>1, <1>2, SmallModulo
<1> QED  BY <1>1, <1>3 DEF WrapDuration

(***************************************************************************)
(* What an amount that fits buys is exactly its whole days, in seconds:    *)
(* neither the wrapping product nor the floor to seconds loses any.        *)
(***************************************************************************)
LEMMA PaidSeconds ==
  ASSUME NEW amount \in Nat, AmountFits(amount)
  PROVE  /\ ExtensionDays(amount, PricePerDay) \in Nat
         /\ WrapDuration(ExtensionDays(amount, PricePerDay) * DayDuration) \div NsPerSecond
              = ExtensionDays(amount, PricePerDay) * DaySeconds
<1> DEFINE days == ExtensionDays(amount, PricePerDay)
<1>1. /\ PricePerDay \in Nat \ {0}
      /\ DaySeconds \in Nat \ {0}
      /\ NsPerSecond \in Nat \ {0}
  BY PricingAssumption DEF PricingAssumption
<1>2. days \in Nat
  BY <1>1, DivisionInNat DEF ExtensionDays
<1>3. days * DaySeconds \in Nat
  BY <1>1, <1>2
<1>4. days * DayDuration = (days * DaySeconds) * NsPerSecond
  BY <1>1, <1>2 DEF DayDuration
<1>5. days * DayDuration \in Nat
  BY <1>1, <1>3, <1>4
<1>6. WrapDuration(days * DayDuration) = days * DayDuration
  BY <1>5, WrapInRange DEF AmountFits
<1>7. ((days * DaySeconds) * NsPerSecond) \div NsPerSecond = days * DaySeconds
  BY <1>1, <1>3, ExactDivision
<1> QED  BY <1>2, <1>4, <1>6, <1>7

(***************************************************************************)
(* ExtendSubscription computes the formula of its comment for every amount *)
(* that fits: whole days on top of the later of the old end and now.       *)
(***************************************************************************)
THEOREM ExtendIsExact ==
  ASSUME NEW current \in Int, NEW t \in Nat, NEW amount \in Nat, AmountFits(amount)
  PROVE  ExtendSubscription(current, t, amount, PricePerDay) =
           IF amount < PricePerDay
           THEN current
           ELSE Later(current, t) + ExtensionDays(amount, PricePerDay) * DaySeconds
<1>1. PricePerDay \in Nat \ {0}
  BY PricingAssumption DEF PricingAssumption
<1>2. CASE amount < PricePerDay
  <2>1. ExtensionDays(amount, PricePerDay) = 0
    BY <1>1, <1>2 DEF ExtensionDays
  <2> QED  BY <1>2, <2>1 DEF ExtendSubscription
<1>3. CASE ~(amount < PricePerDay)
  <2>1. ExtensionDays(amount, PricePerDay) > 0 /\ amount > 0
    BY <1>1, <1>3 DEF ExtensionDays
  <2>2. ~(PricePerDay <= 0 \/ amount <= 0 \/ ExtensionDays(amount, PricePerDay) <= 0)
    BY <1>1, <2>1, PaidSeconds
  <2> QED  BY <1>3, <2>2, PaidSeconds DEF ExtendSubscription
<1> QED  BY <1>2, <1>3

(***************************************************************************)
(* Paid time is never lost by a payment that fits: the end does not move   *)
(* back, wherever it is, and one that buys a day moves it past now.        *)
(***************************************************************************)
THEOREM ExtendKeepsTime ==
  ASSUME NEW current \in Int, NEW t \in Nat, NEW amount \in Nat, AmountFits(amount)
  PROVE  LET end == ExtendSubscription(current, t, amount, PricePerDay)
         IN  /\ end \in Int
             /\ end >= current
             /\ amount >= PricePerDay => end > current /\ IsActive(end, t)
<1> DEFINE days == ExtensionDays(amount, PricePerDay)
           bought == days * DaySeconds
<1>1. PricePerDay \in Nat \ {0} /\ DaySeconds \in Nat \ {0} /\ days \in Nat
  BY PaidSeconds, PricingAssumption DEF PricingAssumption
<1>2. amount >= PricePerDay => days > 0
  BY <1>1 DEF ExtensionDays
<1>3. bought \in Nat /\ (days > 0 => bought > 0)
  BY <1>1
<1>4. ExtendSubscription(current, t, amount, PricePerDay) =
        IF amount < PricePerDay THEN current ELSE Later(current, t) + bought
  BY ExtendIsExact
<1> HIDE DEF days, bought
<1>5. Later(current, t) \in Int /\ Later(current, t) >= current /\ Later(current, t) >= t
  BY DEF Later
<1> QED  BY <1>1, <1>2, <1>3, <1>4, <1>5 DEF IsActive

(* Whatever the amount, the end stays an integer. *)
LEMMA ExtendInInt ==
  ASSUME NEW current \in Int, NEW t \in Nat, NEW amount \in Nat
  PROVE  ExtendSubscription(current, t, amount, PricePerDay) \in Int
<1> DEFINE days == ExtensionDays(amount, PricePerDay)
<1>1. /\ PricePerDay \in Nat \ {0} /\ DaySeconds \in Nat \ {0}
      /\ NsPerSecond \in Nat \ {0} /\ DurationWrap \in Nat \ {0}
  BY PricingAssumption DEF PricingAssumption
<1>2. days \in Nat
  BY <1>1, DivisionInNat DEF ExtensionDays
<1>3. DayDuration \in Nat
  BY <1>1 DEF DayDuration
<1>4. days * DayDuration \in Int
  BY <1>2, <1>3
<1> HIDE DEF days
<1>5. WrapDuration(days * DayDuration) \in Int
  <2> DEFINE d == days * DayDuration
             m == 2 * DurationWrap
  <2>1. d + DurationWrap \in Int /\ m \in Nat \ {0}
    BY <1>1, <1>4
  <2> HIDE DEF d, m
  <2>2. (d + DurationWrap) % m \in Int
    BY <2>1
  <2> QED  BY <1>1, <2>2 DEF WrapDuration, d, m
<1>6. WrapDuration(days * DayDuration) \div NsPerSecond \in Int
  BY <1>1, <1>5
<1>7. Later(current, t) \in Int
  BY DEF Later
<1> QED  BY <1>6, <1>7 DEF ExtendSubscription, days

(***************************************************************************)
(* A balance that is a Go int stays one: user.Balance += amount wraps.     *)
(***************************************************************************)
LEMMA BalanceInRange ==
  ASSUME NEW balance \in -IntWrap .. IntWrap - 1, NEW amount \in 1 .. IntWrap - 1
  PROVE  AddBalance(balance, amount) \in -IntWrap .. IntWrap - 1
<1>1. IntWrap \in Nat \ {0}
  BY PricingAssumption DEF PricingAssumption
<1> QED  BY <1>1 DEF AddBalance
=============================================================================
