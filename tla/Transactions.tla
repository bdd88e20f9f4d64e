---------------------------- MODULE Transactions ---------------------------
(***************************************************************************)
(* internal/storage: how the calls of several goroutines share the one     *)
(* connection of the pool (SetMaxOpenConns(1)).  A single statement holds  *)
(* it while it runs; RunInTx holds it from BeginTx to the end of Commit or *)
(* Rollback, and whoever wants it meanwhile waits, without a timeout.  Any *)
(* statement, Begin or Commit may fail, and the process may crash.         *)
(*                                                                         *)
(* database/sql and SQLite are external: a waiting goroutine is chosen in  *)
(* any order, a failed statement changes nothing and leaves its            *)
(* transaction open, a failed Commit is rolled back by the driver.         *)
(***************************************************************************)
EXTENDS AtomicStorage, Naturals

CONSTANTS
  Nobody,     \* in conn: the connection is free
  Attempts    \* of RegisterUser to find a uuid, 3 in the code

ASSUME TransactionsAssumption ==
  /\ Nobody \notin Process
  /\ Attempts \in Nat \ {0}

VARIABLES
  conn,         \* the process that holds the connection
  step,         \* where each process is in its call
  tries,        \* attempt, in the transaction of RegisterUser
  workUsers,    \* users, as the open transaction sees it
  workPending   \* pending, likewise

workVars == <<workUsers, workPending>>
transactionVars == <<storageVars, conn, step, tries, workVars>>

IsTx(c) == c.op \in {"register", "pay"}

TxStep == {"first", "second", "commit", "rollback"}

Init ==
  /\ StorageInit
  /\ conn = Nobody
  /\ step = [p \in Process |-> "idle"]
  /\ tries = 0
  /\ workUsers = users
  /\ workPending = pending

Goto(p, s) == step' = [step EXCEPT ![p] = s]

(* The call of p returns, and with it the connection to the pool. *)
Release(p, outcome) ==
  /\ Returns(p, outcome)
  /\ Goto(p, "idle")
  /\ conn' = Nobody
  /\ tries' = 0

-----------------------------------------------------------------------------

Begin(p, c) ==
  /\ Invoke(p, c)
  /\ Goto(p, "wait")
  /\ UNCHANGED <<conn, tries, workVars>>

(* Deliberately wrong: the pool opens a second connection. *)
Acquire_SecondConnection(p) ==
  /\ step[p] = "wait"
  /\ conn' = p
  /\ Goto(p, IF IsTx(call[p]) THEN "first" ELSE "run")
  /\ workUsers' = users
  /\ workPending' = pending
  /\ UNCHANGED <<storageVars, tries>>

(* The connection is free.  For RunInTx this is BeginTx, which may fail. *)
Acquire(p) ==
  /\ step[p] = "wait"
  /\ conn = Nobody
  /\ \/ /\ conn' = p
        /\ Goto(p, IF IsTx(call[p]) THEN "first" ELSE "run")
        /\ workUsers' = users
        /\ workPending' = pending
        /\ UNCHANGED <<storageVars, tries>>
     \/ /\ IsTx(call[p])
        /\ Release(p, "error")
        /\ UNCHANGED <<users, pending, workVars>>

(* A single statement, in a transaction of its own. *)
RunStatement(p) ==
  /\ step[p] = "run"
  /\ \/ Effect(call[p]) /\ Release(p, "ok")
     \/ UNCHANGED <<users, pending>> /\ Release(p, "error")
  /\ workUsers' = users'
  /\ workPending' = pending'

(* tx.UpdateUser of CompletePayment. *)
UpdateInTx(p) ==
  /\ step[p] = "first"
  /\ call[p].op = "pay"
  /\ \/ /\ workUsers' = UpdateUser(workUsers, call[p].tg, call[p].row)
        /\ Goto(p, "second")
     \/ Goto(p, "rollback") /\ UNCHANGED workUsers
  /\ UNCHANGED <<storageVars, conn, tries, workPending>>

(* Deliberately wrong: calls the repository instead of tx, and waits for the
   connection that its own transaction holds. *)
DeletePendingInTx_OutsideTx(p) ==
  /\ step[p] = "second"
  /\ conn = Nobody
  /\ workPending' = DeletePendingPayment(workPending, call[p].tg)
  /\ Goto(p, "commit")
  /\ UNCHANGED <<storageVars, conn, tries, workUsers>>

(* tx.DeletePendingPayment of CompletePayment. *)
DeletePendingInTx(p) ==
  /\ step[p] = "second"
  /\ \/ /\ workPending' = DeletePendingPayment(workPending, call[p].tg)
        /\ Goto(p, "commit")
     \/ Goto(p, "rollback") /\ UNCHANGED workPending
  /\ UNCHANGED <<storageVars, conn, tries, workUsers>>

(* tx.CreateUser of RegisterUser with a new uuid.  After a conflict, on the
   uuid or on the Telegram ID, it is tried again, Attempts times in all. *)
CreateInTx(p) ==
  /\ step[p] = "first"
  /\ call[p].op = "register"
  /\ \/ \E uuid \in Uuid :
          IF Conflicts(workUsers, call[p].tg, uuid)
          THEN /\ tries' = tries + 1
               /\ Goto(p, IF tries' = Attempts THEN "rollback" ELSE "first")
               /\ UNCHANGED workUsers
          ELSE /\ workUsers' = CreateUser(workUsers, call[p].tg,
                                          [call[p].row EXCEPT !.uuid = uuid])
               /\ Goto(p, "commit")
               /\ UNCHANGED tries
     \/ Goto(p, "rollback") /\ UNCHANGED <<workUsers, tries>>
  /\ UNCHANGED <<storageVars, conn, workPending>>

(* Commit; an error of it is returned, and nothing is committed. *)
Commit(p) ==
  /\ step[p] = "commit"
  /\ \/ /\ users' = workUsers
        /\ pending' = workPending
        /\ Release(p, "ok")
        /\ UNCHANGED workVars
     \/ /\ Release(p, "error")
        /\ workUsers' = users
        /\ workPending' = pending
        /\ UNCHANGED <<users, pending>>

(* Deliberately wrong: Commit is deferred and runs after an error, too. *)
Rollback_Commits(p) ==
  /\ step[p] = "rollback"
  /\ users' = workUsers
  /\ pending' = workPending
  /\ Release(p, "error")
  /\ UNCHANGED workVars

(* After an error of the function; the error of Rollback is ignored. *)
Rollback(p) ==
  /\ step[p] = "rollback"
  /\ Release(p, "error")
  /\ workUsers' = users
  /\ workPending' = pending
  /\ UNCHANGED <<users, pending>>

(* SQLite discards what was not committed. *)
Crash ==
  /\ StorageCrash
  /\ conn' = Nobody
  /\ step' = [p \in Process |-> "idle"]
  /\ tries' = 0
  /\ workUsers' = users
  /\ workPending' = pending

Proceed(p) ==
  \/ RunStatement(p)
  \/ UpdateInTx(p) \/ DeletePendingInTx(p) \/ CreateInTx(p)
  \/ Commit(p) \/ Rollback(p)

Next ==
  \/ \E p \in Process : (\E c \in Call : Begin(p, c)) \/ Acquire(p) \/ Proceed(p)
  \/ Crash

Spec == Init /\ [][Next]_transactionVars

(* Statements return.  database/sql gives a freed connection to one of the
   waiting goroutines at random, so that none loses for ever. *)
Fairness == \A p \in Process : WF_transactionVars(Proceed(p)) /\ SF_transactionVars(Acquire(p))

FairSpec == Spec /\ Fairness

-----------------------------------------------------------------------------

(* A process is in a transaction, or running a statement, exactly when it
   holds the connection; what a transaction sees is what is committed unless
   it has changed it. *)
TypeOK ==
  /\ users \in UserTable /\ workUsers \in UserTable
  /\ pending \subseteq TgId /\ workPending \subseteq TgId
  /\ call \in [Process -> Call \cup {NoCall}]
  /\ result \in [Process -> {"none", "ok", "error"}]
  /\ conn \in Process \cup {Nobody}
  /\ step \in [Process -> {"idle", "wait", "run"} \cup TxStep]
  /\ tries \in 0 .. Attempts
  /\ \A p \in Process :
       /\ call[p] = NoCall <=> step[p] = "idle"
       /\ conn = p <=> step[p] \in {"run"} \cup TxStep
       /\ step[p] \in TxStep => IsTx(call[p])
       /\ step[p] = "first" => tries < Attempts
  /\ conn = Nobody => workUsers = users /\ workPending = pending /\ tries = 0

(***************************************************************************)
(* repository.go: RunInTx allows callers to perform a set of operations    *)
(* atomically, and is rolled back on an error.  Through failures at every  *)
(* statement, crashes and the calls of others, a call that returns an      *)
(* error has changed nothing, and one that does not has changed all it     *)
(* should, at one instant.                                                 *)
(***************************************************************************)
AtomicCalls == StorageSpec

(***************************************************************************)
(* Every call returns: no path through RunInTx keeps the only connection,  *)
(* and none waits for it while holding it.                                 *)
(***************************************************************************)
EveryCallReturns == \A p \in Process : call[p] # NoCall ~> call[p] = NoCall
=============================================================================
