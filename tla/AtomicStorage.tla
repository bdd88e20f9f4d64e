--------------------------- MODULE AtomicStorage ---------------------------
(***************************************************************************)
(* What domain.Repository promises its callers: a call, or everything that *)
(* a RunInTx does, takes effect at one instant between its beginning and   *)
(* its return if it returns no error, and has no effect otherwise.         *)
(* UserService is written on this promise.  Transactions models how        *)
(* internal/storage keeps it, and is checked and proved to.                *)
(***************************************************************************)
EXTENDS Storage

CONSTANTS
  Process,  \* goroutines that call the repository
  Row       \* the rows they write

ASSUME RowAssumption == Row \subseteq UserRow

VARIABLES
  users,    \* the table as others see it
  pending,  \* likewise
  call,     \* the call each process is in, NoCall if none
  result    \* what its last call returned, "none" before and in a call

storageVars == <<users, pending, call, result>>

NoCall == [op |-> "none"]

(* Reads, the single statements that write, and the two transactions of the
   service: RegisterUser's and CompletePayment's. *)
Call ==
  [op : {"read", "open", "delete"}, tg : TgId, row : {NoUser}]
    \cup [op : {"update", "register", "pay"}, tg : TgId, row : Row]

Conflicts(table, tg, uuid) ==
  Known(table, tg) \/ \E other \in TgId : Known(table, other) /\ table[other].uuid = uuid

StorageInit ==
  /\ users = [tg \in TgId |-> NoUser]
  /\ pending = {}
  /\ call = [p \in Process |-> NoCall]
  /\ result = [p \in Process |-> "none"]

Invoke(p, c) ==
  /\ call[p] = NoCall
  /\ call' = [call EXCEPT ![p] = c]
  /\ result' = [result EXCEPT ![p] = "none"]
  /\ UNCHANGED <<users, pending>>

Returns(p, outcome) ==
  /\ call' = [call EXCEPT ![p] = NoCall]
  /\ result' = [result EXCEPT ![p] = outcome]

Effect(c) ==
  \/ c.op = "read" /\ UNCHANGED <<users, pending>>
  \/ c.op = "open" /\ pending' = CreatePendingPayment(pending, c.tg) /\ UNCHANGED users
  \/ c.op = "update" /\ users' = UpdateUser(users, c.tg, c.row) /\ UNCHANGED pending
  \/ c.op = "delete" /\ users' = DeleteUser(users, c.tg) /\ UNCHANGED pending
  \/ /\ c.op = "register"
     /\ \E uuid \in Uuid :
          /\ ~Conflicts(users, c.tg, uuid)
          /\ users' = CreateUser(users, c.tg, [c.row EXCEPT !.uuid = uuid])
     /\ UNCHANGED pending
  \/ /\ c.op = "pay"
     /\ users' = UpdateUser(users, c.tg, c.row)
     /\ pending' = DeletePendingPayment(pending, c.tg)

Succeed(p) == call[p] # NoCall /\ Effect(call[p]) /\ Returns(p, "ok")

Fail(p) == call[p] # NoCall /\ Returns(p, "error") /\ UNCHANGED <<users, pending>>

(* The process ends: its calls never return, and had no effect. *)
StorageCrash ==
  /\ call' = [p \in Process |-> NoCall]
  /\ UNCHANGED <<users, pending, result>>

StorageNext ==
  \/ \E p \in Process : (\E c \in Call : Invoke(p, c)) \/ Succeed(p) \/ Fail(p)
  \/ StorageCrash

StorageSpec == StorageInit /\ [][StorageNext]_storageVars
=============================================================================
