------------------------- MODULE TransactionsProofs ------------------------
(***************************************************************************)
(* RunInTx keeps the promise of domain.Repository for any number of        *)
(* goroutines, subscribers and uuids, with failures of every statement and *)
(* crashes anywhere.                                                       *)
(***************************************************************************)
EXTENDS Transactions, TLAPS

(* What an open transaction sees, by how far it has come: the committed
   tables, then these with the first statement, then with the whole effect. *)
Applied(c) ==
  \/ /\ c.op = "register"
     /\ \E uuid \in Uuid :
          /\ ~Conflicts(users, c.tg, uuid)
          /\ workUsers = CreateUser(users, c.tg, [c.row EXCEPT !.uuid = uuid])
     /\ workPending = pending
  \/ /\ c.op = "pay"
     /\ workUsers = UpdateUser(users, c.tg, c.row)
     /\ workPending = DeletePendingPayment(pending, c.tg)

WorkInv ==
  \A p \in Process :
    /\ step[p] = "first" => workUsers = users /\ workPending = pending
    /\ step[p] = "second" =>
         /\ call[p].op = "pay"
         /\ workUsers = UpdateUser(users, call[p].tg, call[p].row)
         /\ workPending = pending
    /\ step[p] = "commit" => Applied(call[p])

Steps == {"idle", "wait", "run"} \cup TxStep

LEMMA CallTypes ==
  ASSUME NEW c \in Call
  PROVE  /\ c # NoCall
         /\ c.tg \in TgId
         /\ c.op \in {"update", "register", "pay"} => c.row \in UserRow
  BY RowAssumption DEF Call, NoCall

LEMMA TableTypes ==
  ASSUME NEW table \in UserTable, NEW tg \in TgId, NEW row \in UserRow
  PROVE  /\ \A uuid \in Uuid :
              CreateUser(table, tg, [row EXCEPT !.uuid = uuid]) \in UserTable
         /\ UpdateUser(table, tg, row) \in UserTable
         /\ DeleteUser(table, tg) \in UserTable
<1>1. ASSUME NEW uuid \in Uuid PROVE [row EXCEPT !.uuid = uuid] \in UserRow
  BY DEF UserRow
<1>2. Known(table, tg) => table[tg].uuid \in Uuid
  BY DEF UserTable, Known, UserRow
<1>3. CASE Known(table, tg)
  <2>1. UpdateUser(table, tg, row) =
          [table EXCEPT ![tg] = [row EXCEPT !.uuid = table[tg].uuid]]
    BY <1>3 DEF UpdateUser
  <2> QED  BY <1>1, <1>2, <1>3, <2>1 DEF UserTable, CreateUser, DeleteUser
<1>4. CASE ~Known(table, tg)
  BY <1>1, <1>4 DEF UserTable, CreateUser, UpdateUser, DeleteUser
<1> QED  BY <1>3, <1>4

LEMMA EffectTypes ==
  ASSUME users \in UserTable, pending \subseteq TgId, NEW c \in Call, Effect(c)
  PROVE  users' \in UserTable /\ pending' \subseteq TgId
<1>1. CASE c.op \in {"update", "register", "pay"}
  BY <1>1, CallTypes, TableTypes DEF Effect, DeletePendingPayment
<1>2. CASE c.op = "delete"
  <2>1. users' = DeleteUser(users, c.tg) /\ pending' = pending
    BY <1>2 DEF Effect
  <2> QED  BY <2>1, CallTypes DEF DeleteUser, UserTable
<1>3. CASE c.op \in {"read", "open"}
  BY <1>3, CallTypes DEF Effect, CreatePendingPayment
<1> QED  BY <1>1, <1>2, <1>3 DEF Call

(* Whoever is in a transaction or runs a statement is alone in it. *)
LEMMA Alone ==
  ASSUME TypeOK, NEW p \in Process, step[p] \in {"run"} \cup TxStep
  PROVE  /\ conn = p
         /\ \A q \in Process : q # p => step[q] \notin {"run"} \cup TxStep
  BY DEF TypeOK

-----------------------------------------------------------------------------

LEMMA TypeInitially == Init => TypeOK
<1> SUFFICES ASSUME Init PROVE TypeOK
  OBVIOUS
<1>1. users \in UserTable
  BY DEF Init, StorageInit, UserTable
<1> QED
  BY <1>1, TransactionsAssumption
  DEF Init, StorageInit, TypeOK, TransactionsAssumption, TxStep

(* The tables apart, this is what moving a process does to the types. *)
Control ==
  /\ call \in [Process -> Call \cup {NoCall}]
  /\ result \in [Process -> {"none", "ok", "error"}]
  /\ conn \in Process \cup {Nobody}
  /\ step \in [Process -> Steps]
  /\ tries \in 0 .. Attempts
  /\ \A p \in Process :
       /\ call[p] = NoCall <=> step[p] = "idle"
       /\ conn = p <=> step[p] \in {"run"} \cup TxStep
       /\ step[p] \in TxStep => IsTx(call[p])
       /\ step[p] = "first" => tries < Attempts
  /\ conn = Nobody => tries = 0

Tables ==
  /\ users \in UserTable /\ workUsers \in UserTable
  /\ pending \subseteq TgId /\ workPending \subseteq TgId
  /\ conn = Nobody => workUsers = users /\ workPending = pending

(* A call returns, from wherever it is with the connection. *)
LEMMA ReleaseControl ==
  ASSUME Control, NEW p \in Process, NEW outcome \in {"ok", "error"},
         conn \in {p, Nobody}, Release(p, outcome)
  PROVE  Control'
<1>1. conn' = Nobody /\ tries' = 0 /\ step' = [step EXCEPT ![p] = "idle"]
      /\ call' = [call EXCEPT ![p] = NoCall] /\ result' = [result EXCEPT ![p] = outcome]
  BY DEF Release, Returns, Goto
<1>2. \A q \in Process : conn' # q
  BY <1>1, TransactionsAssumption DEF TransactionsAssumption
<1>3. \A q \in Process : step'[q] \notin {"run"} \cup TxStep
  BY <1>1, TransactionsAssumption DEF Control, TxStep, TransactionsAssumption
<1> QED
  BY <1>1, <1>2, <1>3, TransactionsAssumption DEF Control, Steps, TransactionsAssumption

(* A step of the holder that stays in its transaction. *)
LEMMA TxControl ==
  ASSUME Control, NEW p \in Process, step[p] \in TxStep,
         NEW s \in TxStep, Goto(p, s), tries' \in 0 .. Attempts,
         s = "first" => tries' < Attempts,
         UNCHANGED <<call, result, conn>>
  PROVE  Control'
<1>1. step' = [step EXCEPT ![p] = s] /\ step[p] \in Steps
  BY DEF Goto, Control
<1>2. conn = p /\ p # Nobody
  BY TransactionsAssumption DEF Control, TransactionsAssumption
<1>3. \A q \in Process : q # p => step[q] # "first"
  BY <1>2 DEF Control, TxStep
<1>4. \A q \in Process : step'[q] = "first" => tries' < Attempts
  BY <1>1, <1>3 DEF Control
<1>5. step' \in [Process -> Steps]
  BY <1>1 DEF Control, Steps
<1>6. \A q \in Process :
        /\ call[q] = NoCall <=> step'[q] = "idle"
        /\ conn = q <=> step'[q] \in {"run"} \cup TxStep
        /\ step'[q] \in TxStep => IsTx(call[q])
  BY <1>1, <1>2 DEF Control, TxStep, IsTx
<1> QED  BY <1>2, <1>4, <1>5, <1>6 DEF Control, IsTx

LEMMA TypeStep == TypeOK /\ [Next]_transactionVars => TypeOK'
<1> SUFFICES ASSUME Control, Tables, [Next]_transactionVars PROVE Control' /\ Tables'
  BY DEF TypeOK, Control, Tables, Steps
<1> USE DEF workVars, storageVars
<1>1. ASSUME NEW p \in Process, NEW c \in Call, Begin(p, c)
      PROVE  Control' /\ Tables'
  <2>1. call[p] = NoCall /\ call' = [call EXCEPT ![p] = c] /\ step' = [step EXCEPT ![p] = "wait"]
        /\ result' = [result EXCEPT ![p] = "none"] /\ UNCHANGED <<conn, tries>>
    BY <1>1 DEF Begin, Invoke, Goto
  <2>2. c # NoCall
    BY CallTypes
  <2>3. Control'
    BY <2>1, <2>2 DEF Control, Steps, TxStep
  <2>4. Tables'
    BY <1>1 DEF Begin, Invoke, Tables
  <2> QED  BY <2>3, <2>4
<1>2. ASSUME NEW p \in Process, Acquire(p)
      PROVE  Control' /\ Tables'
  <2>1. CASE conn' = p
    <3>1. step[p] = "wait" /\ conn = Nobody /\ UNCHANGED <<users, pending, call, result, tries>>
          /\ workUsers' = users /\ workPending' = pending
          /\ Goto(p, IF IsTx(call[p]) THEN "first" ELSE "run")
      BY <1>2, <2>1, TransactionsAssumption DEF Acquire, Release, TransactionsAssumption
    <3>2. \A q \in Process : step[q] \notin {"run"} \cup TxStep
      BY <3>1, TransactionsAssumption DEF Control, TransactionsAssumption
    <3>3. CASE IsTx(call[p])
      <4>1. step' = [step EXCEPT ![p] = "first"]
        BY <3>1, <3>3 DEF Goto
      <4> QED  BY <2>1, <3>1, <3>2, <3>3, <4>1, TransactionsAssumption DEF TransactionsAssumption, Control, Tables, Steps, TxStep
    <3>4. CASE ~IsTx(call[p])
      <4>1. step' = [step EXCEPT ![p] = "run"]
        BY <3>1, <3>4 DEF Goto
      <4> QED  BY <2>1, <3>1, <3>2, <3>4, <4>1 DEF Control, Tables, Steps, TxStep
    <3> QED  BY <3>3, <3>4
  <2>2. CASE Release(p, "error") /\ UNCHANGED <<users, pending, workVars>>
    BY <1>2, <2>2, ReleaseControl DEF Acquire, Tables
  <2> QED  BY <1>2, <2>1, <2>2 DEF Acquire
<1>3. ASSUME NEW p \in Process, RunStatement(p)
      PROVE  Control' /\ Tables'
  <2>1. conn = p /\ call[p] \in Call
    BY <1>3 DEF RunStatement, Control
  <2>2. Control'
    BY <1>3, <2>1, ReleaseControl DEF RunStatement
  <2>3. users' \in UserTable /\ pending' \subseteq TgId
    BY <1>3, <2>1, EffectTypes DEF RunStatement, Tables
  <2> QED  BY <1>3, <2>2, <2>3 DEF RunStatement, Tables
<1>4. ASSUME NEW p \in Process, UpdateInTx(p)
      PROVE  Control' /\ Tables'
  <2>1. step[p] \in TxStep /\ conn = p /\ call[p] \in Call /\ call[p].op = "pay"
    BY <1>4 DEF UpdateInTx, Control, TxStep
  <2>2. Control'
    BY <1>4, <2>1, TxControl DEF UpdateInTx, TxStep, Control
  <2>3. workUsers' \in UserTable
    BY <1>4, <2>1, CallTypes, TableTypes DEF UpdateInTx, Tables
  <2> QED  BY <1>4, <2>1, <2>2, <2>3, TransactionsAssumption
           DEF UpdateInTx, Tables, TransactionsAssumption
<1>5. ASSUME NEW p \in Process, DeletePendingInTx(p)
      PROVE  Control' /\ Tables'
  <2>1. step[p] \in TxStep /\ conn = p
    BY <1>5 DEF DeletePendingInTx, Control, TxStep
  <2>2. Control'
    BY <1>5, <2>1, TxControl DEF DeletePendingInTx, TxStep, Control
  <2>3. workPending' \subseteq TgId
    BY <1>5 DEF DeletePendingInTx, DeletePendingPayment, Tables
  <2> QED  BY <1>5, <2>1, <2>2, <2>3, TransactionsAssumption
           DEF DeletePendingInTx, Tables, TransactionsAssumption
<1>6. ASSUME NEW p \in Process, CreateInTx(p)
      PROVE  Control' /\ Tables'
  <2>1. step[p] \in TxStep /\ conn = p /\ call[p] \in Call /\ call[p].op = "register"
    BY <1>6 DEF CreateInTx, Control, TxStep
  <2>2. UNCHANGED <<users, pending, workPending, call, result, conn>>
    BY <1>6 DEF CreateInTx
  <2>3. CASE Goto(p, "rollback") /\ UNCHANGED <<workUsers, tries>>
    <3>1. Control'
      BY <2>1, <2>2, <2>3, TxControl DEF TxStep, Control
    <3> QED  BY <2>2, <2>3, <3>1 DEF Tables
  <2>4. ASSUME NEW uuid \in Uuid, Conflicts(workUsers, call[p].tg, uuid),
               tries' = tries + 1, UNCHANGED workUsers,
               Goto(p, IF tries' = Attempts THEN "rollback" ELSE "first")
        PROVE  Control' /\ Tables'
    <3>1. tries < Attempts
      BY <1>6, <2>1 DEF CreateInTx, Control
    <3>2. ASSUME tries' = Attempts PROVE Control'
      BY <2>1, <2>2, <2>4, <3>1, <3>2, TxControl, TransactionsAssumption DEF TxStep, Control, TransactionsAssumption
    <3>3. ASSUME tries' # Attempts PROVE Control'
      BY <2>1, <2>2, <2>4, <3>1, <3>3, TxControl, TransactionsAssumption DEF TxStep, Control, TransactionsAssumption
    <3> QED  BY <2>2, <2>4, <3>2, <3>3 DEF Tables
  <2>5. ASSUME NEW uuid \in Uuid, Goto(p, "commit"), UNCHANGED tries,
               workUsers' = CreateUser(workUsers, call[p].tg, [call[p].row EXCEPT !.uuid = uuid])
        PROVE  Control' /\ Tables'
    <3>1. Control'
      BY <2>1, <2>2, <2>5, TxControl DEF TxStep, Control
    <3>2. workUsers' \in UserTable
      BY <2>1, <2>5, CallTypes, TableTypes DEF Tables
    <3> QED  BY <2>1, <2>2, <3>1, <3>2, TransactionsAssumption DEF Tables, TransactionsAssumption
  <2> QED  BY <1>6, <2>3, <2>4, <2>5 DEF CreateInTx
<1>7. ASSUME NEW p \in Process, Commit(p) \/ Rollback(p)
      PROVE  Control' /\ Tables'
  <2>1. conn = p
    BY <1>7 DEF Commit, Rollback, Control, TxStep
  <2>2. Control'
    BY <1>7, <2>1, ReleaseControl DEF Commit, Rollback
  <2> QED  BY <1>7, <2>2 DEF Commit, Rollback, Tables
<1>8. CASE Crash
  <2>1. Control'
    BY <1>8, TransactionsAssumption
    DEF Crash, StorageCrash, Control, Steps, TxStep, TransactionsAssumption
  <2> QED  BY <1>8, <2>1 DEF Crash, StorageCrash, Tables
<1>9. CASE UNCHANGED transactionVars
  BY <1>9 DEF transactionVars, Control, Tables, IsTx
<1> QED
  BY <1>1, <1>2, <1>3, <1>4, <1>5, <1>6, <1>7, <1>8, <1>9 DEF Next, Proceed

(***************************************************************************)
(* Every variable keeps its type; a process is in a transaction exactly    *)
(* when it holds the connection, and nothing uncommitted is left when      *)
(* nobody does.                                                            *)
(***************************************************************************)
THEOREM TypeCorrect == Spec => []TypeOK
  BY TypeInitially, TypeStep, PTL DEF Spec

-----------------------------------------------------------------------------

LEMMA WorkInitially == Init => WorkInv
  BY DEF Init, WorkInv

(* Only the holder of the connection can be in a transaction. *)
LEMMA OthersWork ==
  ASSUME WorkInv, NEW p \in Process,
         \A q \in Process \ {p} : step[q] \notin TxStep /\ step'[q] = step[q],
         step'[p] \notin TxStep
  PROVE  WorkInv'
  BY DEF WorkInv, TxStep

LEMMA WorkStep == TypeOK /\ WorkInv /\ [Next]_transactionVars => WorkInv'
<1> SUFFICES ASSUME TypeOK, WorkInv, [Next]_transactionVars PROVE WorkInv'
  OBVIOUS
<1> USE DEF workVars, storageVars
<1>1. ASSUME NEW p \in Process, NEW c \in Call, Begin(p, c)
      PROVE  WorkInv'
  <2>1. /\ UNCHANGED <<users, pending, workUsers, workPending>>
        /\ step' = [step EXCEPT ![p] = "wait"] /\ call' = [call EXCEPT ![p] = c]
    BY <1>1 DEF Begin, Invoke, Goto
  <2> QED  BY <2>1 DEF WorkInv, Applied, TypeOK
<1>2. ASSUME NEW p \in Process, Acquire(p)
      PROVE  WorkInv'
  <2>1. conn = Nobody /\ \A q \in Process : step[q] \notin TxStep
    BY <1>2, TransactionsAssumption DEF Acquire, TypeOK, TransactionsAssumption
  <2>2. CASE Release(p, "error")
    BY <2>1, <2>2, OthersWork DEF Release, Goto, TypeOK, TxStep
  <2>3. CASE /\ Goto(p, IF IsTx(call[p]) THEN "first" ELSE "run")
             /\ workUsers' = users /\ workPending' = pending
             /\ UNCHANGED <<users, pending>>
    <3>1. \A q \in Process : step'[q] \in TxStep => step'[q] = "first"
      BY <2>1, <2>3 DEF Goto, TypeOK, TxStep
    <3> QED  BY <2>3, <3>1 DEF WorkInv, TxStep
  <2> QED  BY <1>2, <2>2, <2>3 DEF Acquire
<1>3. ASSUME NEW p \in Process, RunStatement(p) \/ Commit(p) \/ Rollback(p)
      PROVE  WorkInv'
  <2>1. step[p] \in {"run"} \cup TxStep
    BY <1>3 DEF RunStatement, Commit, Rollback, TxStep
  <2>2. Goto(p, "idle")
    BY <1>3 DEF RunStatement, Commit, Rollback, Release
  <2> QED  BY <2>1, <2>2, Alone, OthersWork DEF Goto, TypeOK, TxStep
<1>4. ASSUME NEW p \in Process, UpdateInTx(p)
      PROVE  WorkInv'
  <2>1. step[p] = "first" /\ call[p].op = "pay" /\ UNCHANGED <<users, pending, call, workPending>>
    BY <1>4 DEF UpdateInTx
  <2>2. \A q \in Process \ {p} : step[q] \notin TxStep
    BY <2>1, Alone DEF TxStep
  <2>3. CASE workUsers' = UpdateUser(workUsers, call[p].tg, call[p].row) /\ Goto(p, "second")
    <3>1. workUsers = users /\ workPending = pending
      BY <2>1 DEF WorkInv
    <3>2. step'[p] = "second" /\ \A q \in Process \ {p} : step'[q] = step[q]
      BY <2>3 DEF Goto, TypeOK
    <3> QED  BY <2>1, <2>2, <2>3, <3>1, <3>2 DEF WorkInv, TxStep, UpdateUser, Known
  <2>4. CASE Goto(p, "rollback")
    BY <2>2, <2>4 DEF Goto, TypeOK, WorkInv, TxStep
  <2> QED  BY <1>4, <2>3, <2>4 DEF UpdateInTx
<1>5. ASSUME NEW p \in Process, DeletePendingInTx(p)
      PROVE  WorkInv'
  <2>1. step[p] = "second" /\ UNCHANGED <<users, pending, call, workUsers>>
    BY <1>5 DEF DeletePendingInTx
  <2>2. \A q \in Process \ {p} : step[q] \notin TxStep
    BY <2>1, Alone DEF TxStep
  <2>3. CASE workPending' = DeletePendingPayment(workPending, call[p].tg) /\ Goto(p, "commit")
    <3>1. /\ call[p].op = "pay" /\ workPending = pending
          /\ workUsers = UpdateUser(users, call[p].tg, call[p].row)
      BY <2>1 DEF WorkInv
    <3>2. step'[p] = "commit" /\ \A q \in Process \ {p} : step'[q] = step[q]
      BY <2>3 DEF Goto, TypeOK
    <3>3. Applied(call[p])'
      BY <2>1, <2>3, <3>1 DEF Applied, UpdateUser, Known, DeletePendingPayment
    <3> QED  BY <2>2, <3>2, <3>3 DEF WorkInv, TxStep
  <2>4. CASE Goto(p, "rollback")
    BY <2>2, <2>4 DEF Goto, TypeOK, WorkInv, TxStep
  <2> QED  BY <1>5, <2>3, <2>4 DEF DeletePendingInTx
<1>6. ASSUME NEW p \in Process, CreateInTx(p)
      PROVE  WorkInv'
  <2>1. /\ step[p] = "first" /\ call[p].op = "register"
        /\ UNCHANGED <<users, pending, call, workPending>>
    BY <1>6 DEF CreateInTx
  <2>2. \A q \in Process \ {p} : step[q] \notin TxStep
    BY <2>1, Alone DEF TxStep
  <2>3. workUsers = users /\ workPending = pending
    BY <2>1 DEF WorkInv
  <2>4. ASSUME NEW uuid \in Uuid, ~Conflicts(workUsers, call[p].tg, uuid), Goto(p, "commit"),
               workUsers' = CreateUser(workUsers, call[p].tg, [call[p].row EXCEPT !.uuid = uuid])
        PROVE  WorkInv'
    <3>1. step'[p] = "commit" /\ \A q \in Process \ {p} : step'[q] = step[q]
      BY <2>4 DEF Goto, TypeOK
    <3>2. Applied(call[p])'
      BY <2>1, <2>3, <2>4 DEF Applied, CreateUser, Conflicts, Known
    <3> QED  BY <2>2, <3>1, <3>2 DEF WorkInv, TxStep
  <2>5. CASE UNCHANGED workUsers /\ (Goto(p, "rollback") \/ Goto(p, "first"))
    <3>1. step'[p] \in {"rollback", "first"} /\ \A q \in Process \ {p} : step'[q] = step[q]
      BY <2>5 DEF Goto, TypeOK
    <3> QED  BY <2>1, <2>2, <2>3, <2>5, <3>1 DEF WorkInv, TxStep
  <2>6. \/ \E uuid \in Uuid :
             /\ ~Conflicts(workUsers, call[p].tg, uuid) /\ Goto(p, "commit")
             /\ workUsers' = CreateUser(workUsers, call[p].tg, [call[p].row EXCEPT !.uuid = uuid])
        \/ UNCHANGED workUsers /\ (Goto(p, "rollback") \/ Goto(p, "first"))
    BY <1>6 DEF CreateInTx, Goto
  <2> QED  BY <2>4, <2>5, <2>6
<1>7. CASE Crash
  BY <1>7 DEF Crash, WorkInv
<1>8. CASE UNCHANGED transactionVars
  BY <1>8 DEF transactionVars, WorkInv, Applied
<1> QED
  BY <1>1, <1>2, <1>3, <1>4, <1>5, <1>6, <1>7, <1>8 DEF Next, Proceed

(* A commit has the effect its call promises; everything else that touches
   the committed tables is a single statement. *)
LEMMA StorageStep ==
  TypeOK /\ WorkInv /\ [Next]_transactionVars => [StorageNext]_storageVars
<1> SUFFICES ASSUME TypeOK, WorkInv, [Next]_transactionVars
             PROVE  StorageNext \/ UNCHANGED storageVars
  OBVIOUS
<1>1. ASSUME NEW p \in Process, NEW c \in Call, Begin(p, c)
      PROVE  StorageNext
  BY <1>1 DEF Begin, StorageNext
<1>2. ASSUME NEW p \in Process, step[p] # "idle", Returns(p, "error"), UNCHANGED <<users, pending>>
      PROVE  StorageNext
  BY <1>2 DEF TypeOK, Fail, StorageNext
<1>3. ASSUME NEW p \in Process, step[p] # "idle", Effect(call[p]), Returns(p, "ok")
      PROVE  StorageNext
  BY <1>3 DEF TypeOK, Succeed, StorageNext
<1>4. ASSUME NEW p \in Process, Acquire(p)
      PROVE  StorageNext \/ UNCHANGED storageVars
  BY <1>2, <1>4 DEF Acquire, Release
<1>5. ASSUME NEW p \in Process, RunStatement(p) \/ Rollback(p)
      PROVE  StorageNext
  BY <1>2, <1>3, <1>5 DEF RunStatement, Rollback, Release
<1>6. ASSUME NEW p \in Process, UpdateInTx(p) \/ DeletePendingInTx(p) \/ CreateInTx(p)
      PROVE  UNCHANGED storageVars
  BY <1>6 DEF UpdateInTx, DeletePendingInTx, CreateInTx
<1>7. ASSUME NEW p \in Process, Commit(p)
      PROVE  StorageNext
  <2>1. CASE Release(p, "error") /\ UNCHANGED <<users, pending>>
    BY <1>2, <1>7, <2>1 DEF Commit, Release
  <2>2. CASE users' = workUsers /\ pending' = workPending /\ Release(p, "ok")
    <3>1. Applied(call[p])
      BY <1>7 DEF Commit, WorkInv
    <3>2. Effect(call[p])
      BY <2>2, <3>1 DEF Applied, Effect
    <3> QED  BY <1>3, <1>7, <2>2, <3>2 DEF Commit, Release
  <2> QED  BY <1>7, <2>1, <2>2 DEF Commit
<1>8. CASE Crash
  BY <1>8 DEF Crash, StorageNext
<1>9. CASE UNCHANGED transactionVars
  BY <1>9 DEF transactionVars, storageVars
<1> QED
  BY <1>1, <1>4, <1>5, <1>6, <1>7, <1>8, <1>9 DEF Next, Proceed

(***************************************************************************)
(* What RunInTx and the single statements do, step by step, is what the    *)
(* atomic repository does: UserService may be written on the latter.       *)
(***************************************************************************)
THEOREM TransactionsAreAtomic == Spec => AtomicCalls
<1>1. Init => StorageInit
  BY DEF Init
<1> QED
  BY <1>1, TypeInitially, TypeStep, WorkInitially, WorkStep, StorageStep, PTL
  DEF Spec, AtomicCalls, StorageSpec
=============================================================================
