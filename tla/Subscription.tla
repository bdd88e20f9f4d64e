---------------------------- MODULE Subscription ----------------------------
(***************************************************************************)
(* The pricing arithmetic of internal/domain: what a payment buys.  These  *)
(* are pure operators; the modules that keep accounts EXTEND this one.     *)
(*                                                                         *)
(* Instants are Unix seconds.  Go multiplies the number of days into a     *)
(* time.Duration, an int64 count of nanoseconds that silently wraps, and   *)
(* only then adds it to the base instant; a balance is a Go int.  Both     *)
(* widths are constants here so that small instances reach the edge:       *)
(* DurationWrap and IntWrap stand for 2^63.                                *)
(***************************************************************************)
EXTENDS Integers

CONSTANTS
  PricePerDay,          \* 5 in the code
  DefaultTrialBalance,  \* 15 in the code
  DaySeconds,           \* 86400
  NsPerSecond,          \* 10^9
  DurationWrap,         \* 2^63: a duration lies in -DurationWrap..DurationWrap-1
  IntWrap               \* 2^63: a Go int lies in -IntWrap..IntWrap-1

ASSUME PricingAssumption ==
  /\ PricePerDay \in Nat \ {0}
  /\ DefaultTrialBalance \in Nat
  /\ DaySeconds \in Nat \ {0}
  /\ NsPerSecond \in Nat \ {0}
  /\ DurationWrap \in Nat \ {0}
  /\ IntWrap \in Nat \ {0}

(* The day length as a duration: 24 * time.Hour. *)
DayDuration == DaySeconds * NsPerSecond

(* Two's complement reduction of a product of durations. *)
WrapDuration(d) == ((d + DurationWrap) % (2 * DurationWrap)) - DurationWrap

(* Deliberately wrong: one more value than a Go int has. *)
AddBalance_WrapsLate(balance, amount) ==
  IF balance + amount <= IntWrap THEN balance + amount
                                 ELSE balance + amount - 2 * IntWrap

(* user.Balance += amount, for Go ints of which the amount is positive. *)
AddBalance(balance, amount) ==
  IF balance + amount < IntWrap THEN balance + amount
                                ELSE balance + amount - 2 * IntWrap

Later(s, t) == IF s > t THEN s ELSE t

(* Whole days that an amount pays for. *)
ExtensionDays(amount, price) == amount \div price

(* Deliberately wrong: extends from now even when paid time is left. *)
ExtendSubscription_ForgetsPaidTime(current, now, amount, price) ==
  IF price <= 0 \/ amount <= 0 \/ ExtensionDays(amount, price) <= 0
  THEN current
  ELSE now + WrapDuration(ExtensionDays(amount, price) * DayDuration) \div NsPerSecond

(* Deliberately wrong: rounds the number of days up, not down. *)
ExtendSubscription_RoundsUp(current, now, amount, price) ==
  IF price <= 0 \/ amount <= 0
  THEN current
  ELSE Later(current, now)
         + WrapDuration(ExtensionDays(amount + price - 1, price) * DayDuration) \div NsPerSecond

(* Deliberately wrong: extends from the old end even when it is past. *)
ExtendSubscription_IgnoresNow(current, now, amount, price) ==
  IF price <= 0 \/ amount <= 0 \/ ExtensionDays(amount, price) <= 0
  THEN current
  ELSE current + WrapDuration(ExtensionDays(amount, price) * DayDuration) \div NsPerSecond

(***************************************************************************)
(* The new end of a subscription: whole days are added to the later of the *)
(* current end and now; an amount that buys no whole day changes nothing.  *)
(* time.Time.Add carries nanoseconds, so .Unix() is a floor.               *)
(***************************************************************************)
ExtendSubscription(current, now, amount, price) ==
  IF price <= 0 \/ amount <= 0 \/ ExtensionDays(amount, price) <= 0
  THEN current
  ELSE Later(current, now)
         + WrapDuration(ExtensionDays(amount, price) * DayDuration) \div NsPerSecond

(* The amounts whose extension is representable as a time.Duration. *)
AmountFits(amount) ==
  ExtensionDays(amount, PricePerDay) * DayDuration < DurationWrap

(* User.IsActive. *)
IsActive(subUntil, now) == subUntil > now
=============================================================================
