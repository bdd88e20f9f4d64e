----------------------- MODULE SubscriptionLifecycle -----------------------
(***************************************************************************)
(* What the bot promises about each subscriber's account, whatever fails,  *)
(* crashes or interleaves:                                                 *)
(*                                                                         *)
(*   - the end of a subscription never moves back while the account stays  *)
(*     active: it is only ever cleared, and then the account is inactive,  *)
(*     unless the subscriber has paid more than a Duration can hold;       *)
(*   - only a payment makes an account active again or moves the end       *)
(*     forward, and that payment closes the flow that was open for it;     *)
(*   - a flow is closed by such a payment and by nothing else;             *)
(*   - an account is taken back only before its registration has settled;  *)
(*   - an account that has no end left to clear is not expired again,      *)
(*     with the same exception.                                            *)
(*                                                                         *)
(* It does not promise that Expire finds the end in the past: the sweep    *)
(* decides on a copy of the row and may clear an end that has since moved. *)
(***************************************************************************)
EXTENDS Integers

CONSTANTS
  TgId,     \* subscribers
  NoUser    \* no account

VARIABLES
  open,     \* subscribers with an open payment flow
  account,  \* [term, status, stage], or NoUser
  wrapped   \* subscribers one of whose payments overflowed: their end may be
            \*   anything

(* Active accounts with an acceptable term. *)
ActiveAccount(terms, stage) ==
  [term : terms, status : {"active"}, stage : {stage}]

(* tg's account becomes one of the given ones; the others stay. *)
Becomes(tg, accounts) ==
  /\ account'[tg] \in accounts
  /\ account' = [account EXCEPT ![tg] = account'[tg]]

Init ==
  /\ open = {}
  /\ account = [tg \in TgId |-> NoUser]
  /\ wrapped = {}

(* /start: a trial term, active at once. *)
Register(tg) ==
  /\ account[tg] = NoUser
  /\ Becomes(tg, ActiveAccount(Nat \ {0}, "new"))
  /\ UNCHANGED <<open, wrapped>>

(* The registration is over: the account is there to stay. *)
Settle(tg) ==
  /\ account[tg] # NoUser
  /\ Becomes(tg, {[account[tg] EXCEPT !.stage = "settled"]})
  /\ UNCHANGED <<open, wrapped>>

(* A registration that could not be provisioned is taken back. *)
Withdraw(tg) ==
  /\ account[tg] # NoUser
  /\ account[tg].stage = "new"
  /\ Becomes(tg, {NoUser})
  /\ UNCHANGED <<open, wrapped>>

OpenFlow(tg) ==
  /\ open' = open \cup {tg}
  /\ UNCHANGED <<account, wrapped>>

(* The ends that a payment for tg may lead to. *)
PaidTerms(tg) ==
  IF tg \in wrapped' THEN Int ELSE {n \in Int : n >= account[tg].term}

Pay(tg) ==
  /\ tg \in open
  /\ account[tg] # NoUser
  /\ account[tg].stage = "settled"
  /\ wrapped' \in {wrapped, wrapped \cup {tg}}
  /\ Becomes(tg, ActiveAccount(PaidTerms(tg), "settled"))
  /\ open' = open \ {tg}

Expire(tg) ==
  /\ account[tg] # NoUser
  /\ account[tg].term > 0 \/ tg \in wrapped
  /\ Becomes(tg, {[term |-> 0, status |-> "inactive", stage |-> account[tg].stage]})
  /\ UNCHANGED <<open, wrapped>>

Step(tg) ==
  \/ Register(tg) \/ Settle(tg) \/ Withdraw(tg)
  \/ OpenFlow(tg) \/ Pay(tg)
  \/ Expire(tg)

Next == \E tg \in TgId : Step(tg)

Spec == Init /\ [][Next]_<<open, account, wrapped>>
=============================================================================
