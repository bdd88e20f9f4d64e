------------------------------ MODULE Storage ------------------------------
(***************************************************************************)
(* The users and pending_payments tables of internal/storage, as the       *)
(* functions its SQL statements compute on them.  The pool is limited to   *)
(* one connection, so a statement, or a whole RunInTx, is one atomic step  *)
(* of whoever calls it; the modules that use these operators decide where  *)
(* the steps are.                                                          *)
(*                                                                         *)
(* users is a function from Telegram IDs to rows, NoUser where there is no *)
(* row.  Columns no operation depends on (devices, referrer_id, created_at *)
(* and updated_at are copied through unchanged) are left out.              *)
(* pending_payments is the set of Telegram IDs that have a row: the method *)
(* and state columns are never read back.                                  *)
(***************************************************************************)
EXTENDS Integers

CONSTANTS
  TgId,    \* Telegram IDs, users.telegram_id
  Uuid,    \* client identifiers, users.uuid
  NoUser   \* the nil *domain.User: no such row

Status == {"active", "inactive"}

(* subUntil is an instant, or 0 for none; an overflow may put it before 1970. *)
UserRow == [uuid : Uuid, balance : Int, subUntil : Int, status : Status]

ASSUME StorageAssumption ==
  /\ NoUser \notin UserRow
  /\ NoUser \notin TgId

UserTable == [TgId -> UserRow \cup {NoUser}]

(* GetUser returns nil for an unknown Telegram ID. *)
Known(users, tg) == users[tg] # NoUser

(* INSERT INTO users; the callers have found no row for tg. *)
CreateUser(users, tg, row) == [users EXCEPT ![tg] = row]

(* Deliberately wrong: the uuid column is overwritten too. *)
UpdateUser_WritesUuid(users, tg, row) ==
  IF Known(users, tg) THEN [users EXCEPT ![tg] = row] ELSE users

(* UPDATE users ... WHERE telegram_id: every column but the uuid is
   overwritten from the caller's copy of the row; no row, no effect. *)
UpdateUser(users, tg, row) ==
  IF Known(users, tg)
  THEN [users EXCEPT ![tg] = [row EXCEPT !.uuid = users[tg].uuid]]
  ELSE users

(* DELETE FROM users WHERE telegram_id. *)
DeleteUser(users, tg) == [users EXCEPT ![tg] = NoUser]

(* sub_until > 0 AND sub_until < now. *)
Expired(users, tg, now) ==
  /\ Known(users, tg)
  /\ users[tg].subUntil > 0
  /\ users[tg].subUntil < now

(* Deliberately wrong: also requires the balance to be used up. *)
ListExpired_OnlyBroke(users, now) ==
  [tg \in TgId |-> IF Expired(users, tg, now) /\ users[tg].balance <= 0
                   THEN users[tg] ELSE NoUser]

(* Copies of the rows whose subscription has run out. *)
ListExpired(users, now) ==
  [tg \in TgId |-> IF Expired(users, tg, now) THEN users[tg] ELSE NoUser]

(* INSERT ... ON CONFLICT(telegram_id) DO UPDATE: one row per Telegram ID. *)
CreatePendingPayment(pending, tg) == pending \cup {tg}

GetPendingPayment(pending, tg) == tg \in pending

DeletePendingPayment(pending, tg) == pending \ {tg}
=============================================================================
