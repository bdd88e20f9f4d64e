--------------------------- MODULE PaymentHistory ---------------------------
(***************************************************************************)
(* One subscriber's subscription over time: a registration with the trial  *)
(* balance, then payments at arbitrary instants, with no expiry sweep.     *)
(* Used to check ExtendSubscription against the reference definition in    *)
(* its own comment, on every sequence of payments within the bounds.  The  *)
(* bot takes any positive int, so an amount may buy more days than a       *)
(* time.Duration holds, and the balance may pass the largest int.          *)
(***************************************************************************)
EXTENDS Subscription

CONSTANTS
  Amount,      \* the amounts a subscriber may type; the bot rejects those <= 0
  MaxTime,     \* bound: the clock stops here
  MaxBalance   \* bound: no payment that would take the true total above this

ASSUME HistoryAssumption ==
  /\ Amount \subseteq 1 .. IntWrap - 1
  /\ DefaultTrialBalance < IntWrap
  /\ AmountFits(DefaultTrialBalance)
  /\ MaxTime \in Nat
  /\ MaxBalance \in Nat

VARIABLES
  now,        \* the wall clock, Unix seconds
  subUntil,   \* users.sub_until
  balance,    \* users.balance
  received,   \* history: trial balance plus every amount paid, not wrapped
  reference,  \* history: the end of the subscription by the documented formula
  fits        \* history: every amount paid so far fits a time.Duration

vars == <<now, subUntil, balance, received, reference, fits>>

(***************************************************************************)
(* The formula in the comment of ExtendSubscription, in exact arithmetic:  *)
(* max(currentSubUntil, now) + (paymentAmount / pricePerDay) * 24h, and no *)
(* change when no whole day is paid.                                       *)
(***************************************************************************)
ReferenceEnd(current, t, amount) ==
  IF amount < PricePerDay
  THEN current
  ELSE Later(current, t) + (amount \div PricePerDay) * DaySeconds

Init ==
  /\ now \in 1 .. MaxTime
  /\ subUntil = ExtendSubscription(0, now, DefaultTrialBalance, PricePerDay)
  /\ reference = ReferenceEnd(0, now, DefaultTrialBalance)
  /\ balance = DefaultTrialBalance
  /\ received = DefaultTrialBalance
  /\ fits = TRUE

Pay(amount) ==
  /\ received + amount <= MaxBalance
  /\ subUntil' = ExtendSubscription(subUntil, now, amount, PricePerDay)
  /\ balance' = AddBalance(balance, amount)
  /\ received' = received + amount
  /\ reference' = ReferenceEnd(reference, now, amount)
  /\ fits' = (fits /\ AmountFits(amount))
  /\ UNCHANGED now

Tick ==
  /\ now < MaxTime
  /\ now' = now + 1
  /\ UNCHANGED <<subUntil, balance, received, reference, fits>>

Next == Tick \/ \E amount \in Amount : Pay(amount)

Spec == Init /\ [][Next]_vars

-----------------------------------------------------------------------------

TypeOK ==
  /\ now \in 1 .. MaxTime
  /\ subUntil \in Int
  /\ reference \in Nat
  /\ balance \in -IntWrap .. IntWrap - 1
  /\ received \in 0 .. Later(DefaultTrialBalance, MaxBalance)
  /\ fits \in BOOLEAN

(***************************************************************************)
(* As long as every amount has fitted a time.Duration, the stored end is   *)
(* exactly the documented one after any sequence of payments: neither the  *)
(* wrapping product nor the floor to seconds of ExtendSubscription shows.  *)
(***************************************************************************)
EndIsExact == fits => subUntil = reference

(***************************************************************************)
(* Paying in two instalments of whole days at one instant buys what paying *)
(* them at once buys, if that fits.  (Instalments that are not whole days  *)
(* do not add up: the rest of each division is lost.)                      *)
(***************************************************************************)
InstalmentsAddUp ==
  \A a, b \in Amount :
    (a % PricePerDay = 0 /\ b % PricePerDay = 0 /\ AmountFits(a + b)) =>
      ExtendSubscription(
        ExtendSubscription(subUntil, now, a, PricePerDay), now, b, PricePerDay)
      = ExtendSubscription(subUntil, now, a + b, PricePerDay)

(***************************************************************************)
(* A payment of at least one day leaves the subscriber active (IsActive),  *)
(* however long ago the old subscription ended, if its amount fits.        *)
(***************************************************************************)
PayingActivates ==
  [][\A a \in Amount :
       Pay(a) /\ a >= PricePerDay /\ AmountFits(a) => IsActive(subUntil', now)]_vars

(***************************************************************************)
(* subscription.go:9-10 promises that existing paid time is never lost.  A *)
(* payment whose amount fits keeps the promise, also after one that did    *)
(* not: the end does not move back.  At 5 a day an amount of 533760 or     *)
(* more does not fit, and the bot takes it (bot.go:179): the end may then  *)
(* move back, even behind now.                                             *)
(***************************************************************************)
PaidTimeIsKept ==
  [][\A a \in Amount : Pay(a) /\ AmountFits(a) => subUntil' >= subUntil]_vars
=============================================================================
