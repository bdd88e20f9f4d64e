---------------------------- MODULE XrayManager ----------------------------
(***************************************************************************)
(* internal/xray, step by step: modifyConfig under the manager's mutex.    *)
(* The configuration is one JSON file; an update reads it, copies it to a  *)
(* backup named by the second, writes the new version to a .tmp file whose *)
(* name is fixed, renames that over the configuration and restarts Xray.   *)
(*                                                                         *)
(* A goroutine belongs to a process, and a mutex is the process's own.     *)
(* The contents of a file are the clients of its vless inbound (of which   *)
(* there is exactly one), or Torn where it is not valid JSON.              *)
(***************************************************************************)
EXTENDS Integers, FiniteSets

CONSTANTS
  Uuid,         \* client identifiers
  Goroutine,    \* callers of AddClient and RemoveClient
  Process,      \* processes that edit the same file; the code runs one
  ProcessOf,    \* the process of each goroutine
  Nobody,       \* no goroutine: the mutex is free
  Torn,         \* a file cut short by a crash, or by another writer
  Absent,       \* no such file
  MaxBackups,   \* 20 in the code
  MaxTime,      \* bound: the clock stops here
  Faults        \* subset of {"fs", "reload", "crash"}

ASSUME ManagerAssumption ==
  /\ ProcessOf \in [Goroutine -> Process]
  /\ Nobody \notin Goroutine
  /\ MaxBackups \in Nat \ {0}
  /\ MaxTime \in Nat
  /\ Faults \subseteq {"fs", "reload", "crash"}
  /\ Torn # Absent
  /\ \A clients \in SUBSET Uuid : clients # Torn /\ clients # Absent

VARIABLES
  now,       \* the wall clock, in the seconds that name a backup
  file,      \* the configuration
  tmp,       \* the configuration's .tmp
  backups,   \* [at, clients] of the .bak files
  leftover,  \* history: the last cleanup has failed to remove a backup
  running,   \* the clients that the running Xray serves
  mu,        \* holder of each process's mutex
  call       \* what each goroutine is doing: [pc, op, uuid, base, name]

vars == <<now, file, tmp, backups, leftover, running, mu, call>>

Returned == [pc |-> "idle", op |-> "none", uuid |-> Nobody, base |-> {}, name |-> 0]

Init ==
  /\ now = 0
  /\ file = {}
  /\ tmp = Absent
  /\ backups = {}
  /\ leftover = FALSE
  /\ running = {}
  /\ mu = [p \in Process |-> Nobody]
  /\ call = [g \in Goroutine |-> Returned]

At(g, pc) == call[g].pc = pc

Goto(g, pc) == call' = [call EXCEPT ![g].pc = pc]

(* Deliberately wrong: an error path that forgets the mutex. *)
Return_KeepsLock(g) ==
  /\ call' = [call EXCEPT ![g] = Returned]
  /\ mu' = IF call[g].pc = "reload" THEN [mu EXCEPT ![ProcessOf[g]] = Nobody] ELSE mu

(* Every way out of modifyConfig runs the deferred Unlock. *)
Return(g) ==
  /\ call' = [call EXCEPT ![g] = Returned]
  /\ mu' = [mu EXCEPT ![ProcessOf[g]] = Nobody]

(* Reading, writing or renaming a file fails, which ends the call. *)
FileError(g) ==
  /\ "fs" \in Faults
  /\ call[g].pc \in {"read", "backup", "copy", "truncate", "fill", "rename"}
  /\ Return(g)
  /\ UNCHANGED <<now, file, tmp, backups, leftover, running>>

(* AddClient or RemoveClient is called, and waits for the mutex. *)
Call(g, op, uuid) ==
  /\ At(g, "idle")
  /\ call' = [call EXCEPT ![g] = [@ EXCEPT !.pc = "lock", !.op = op, !.uuid = uuid]]
  /\ UNCHANGED <<now, file, tmp, backups, leftover, running, mu>>

Lock(g) ==
  /\ At(g, "lock")
  /\ mu[ProcessOf[g]] = Nobody
  /\ mu' = [mu EXCEPT ![ProcessOf[g]] = g]
  /\ Goto(g, "read")
  /\ UNCHANGED <<now, file, tmp, backups, leftover, running>>

(* ReadFile, Unmarshal and the update function: only AddClient of a client
   that is there already stops here, with no error. *)
Read(g) ==
  /\ At(g, "read")
  /\ IF file = Torn \/ (call[g].op = "add" /\ call[g].uuid \in file)
     THEN Return(g)
     ELSE /\ call' = [call EXCEPT ![g].pc = "backup", ![g].base = file]
          /\ UNCHANGED mu
  /\ UNCHANGED <<now, file, tmp, backups, leftover, running>>

Updated(c) ==
  IF c.op = "add" THEN c.base \cup {c.uuid} ELSE c.base \ {c.uuid}

(* Deliberately wrong: a backup of the same second is not overwritten. *)
OpenBackup_KeepsBoth(g) ==
  /\ At(g, "backup")
  /\ backups' = backups \cup {[at |-> now, clients |-> Torn]}
  /\ call' = [call EXCEPT ![g].pc = "copy", ![g].name = now]
  /\ UNCHANGED <<now, file, tmp, leftover, running, mu>>

(* backupConfig: os.WriteFile opens the backup of this second empty, an
   older one of the same name included, and then copies the file to it. *)
OpenBackup(g) ==
  /\ At(g, "backup")
  /\ backups' = {b \in backups : b.at # now} \cup {[at |-> now, clients |-> Torn]}
  /\ call' = [call EXCEPT ![g].pc = "copy", ![g].name = now]
  /\ UNCHANGED <<now, file, tmp, leftover, running, mu>>

(* What is copied was read a moment before, in backupConfig; the goroutines
   of the same process cannot have replaced it since. *)
FillBackup(g) ==
  /\ At(g, "copy")
  /\ backups' = {b \in backups : b.at # call[g].name}
                 \cup {[at |-> call[g].name, clients |-> file]}
  /\ Goto(g, "cleanup")
  /\ UNCHANGED <<now, file, tmp, leftover, running, mu>>

(* How many backups sort after b. *)
Newer(b) == Cardinality({other \in backups : other.at > b.at})

(* Deliberately wrong: the names are sorted the other way round. *)
Cleanup_KeepsOldest(g) ==
  /\ At(g, "cleanup")
  /\ backups' = {b \in backups :
                   Cardinality({other \in backups : other.at < b.at}) < MaxBackups}
  /\ leftover' = FALSE
  /\ Goto(g, "truncate")
  /\ UNCHANGED <<now, file, tmp, running, mu>>

(* cleanupBackups: all but the last MaxBackups names are removed.  An error of
   os.Remove, or of reading the directory, is ignored, and the files stay. *)
Cleanup(g) ==
  /\ At(g, "cleanup")
  /\ LET kept == {b \in backups : Newer(b) < MaxBackups} IN
       \/ backups' = kept /\ leftover' = FALSE
       \/ /\ "fs" \in Faults
          /\ \E left \in SUBSET (backups \ kept) :
               backups' = kept \cup left /\ leftover' = (left # {})
  /\ Goto(g, "truncate")
  /\ UNCHANGED <<now, file, tmp, running, mu>>

(* Deliberately wrong: the new version is written over the file itself. *)
Truncate_InPlace(g) ==
  /\ At(g, "truncate")
  /\ file' = Torn
  /\ tmp' = Torn
  /\ Goto(g, "fill")
  /\ UNCHANGED <<now, backups, leftover, running, mu>>

(* os.WriteFile opens the .tmp file empty, and then writes it. *)
Truncate(g) ==
  /\ At(g, "truncate")
  /\ tmp' = Torn
  /\ Goto(g, "fill")
  /\ UNCHANGED <<now, file, backups, leftover, running, mu>>

Fill(g) ==
  /\ At(g, "fill")
  /\ tmp' = Updated(call[g])
  /\ Goto(g, "rename")
  /\ UNCHANGED <<now, file, backups, leftover, running, mu>>

(* Deliberately wrong: the mutex is given up before the restart. *)
Rename_Unlocks(g) ==
  /\ At(g, "rename")
  /\ file' = tmp
  /\ tmp' = Absent
  /\ Goto(g, "reload")
  /\ mu' = [mu EXCEPT ![ProcessOf[g]] = Nobody]
  /\ UNCHANGED <<now, backups, leftover, running>>

(* os.Rename; another process may have renamed the .tmp already. *)
Rename(g) ==
  /\ At(g, "rename")
  /\ IF tmp = Absent
     THEN Return(g) /\ UNCHANGED <<file, tmp>>
     ELSE /\ file' = tmp
          /\ tmp' = Absent
          /\ Goto(g, "reload")
          /\ UNCHANGED mu
  /\ UNCHANGED <<now, backups, leftover, running>>

(* What a restarted Xray serves: nothing, if it cannot read the file. *)
Served == IF file = Torn THEN {} ELSE file

(* A restart that fails leaves the old server running or none at all. *)
ReloadEnds ==
  \/ running' = Served
  \/ "reload" \in Faults /\ running' \in {running, {}}

(* systemctl restart, with the mutex held. *)
Reload(g) ==
  /\ At(g, "reload")
  /\ ReloadEnds
  /\ Return(g)
  /\ UNCHANGED <<now, file, tmp, backups, leftover>>

(* Process p dies and starts again: its mutex and its calls are gone, the
   files stay.  A restart of Xray that was under way may still happen. *)
Crash(p) ==
  /\ "crash" \in Faults
  /\ mu[p] # Nobody
  /\ call' = [g \in Goroutine |-> IF ProcessOf[g] = p THEN Returned ELSE call[g]]
  /\ mu' = [mu EXCEPT ![p] = Nobody]
  /\ \/ UNCHANGED running
     \/ At(mu[p], "reload") /\ ReloadEnds
  /\ UNCHANGED <<now, file, tmp, backups, leftover>>

Tick ==
  /\ now < MaxTime
  /\ now' = now + 1
  /\ UNCHANGED <<file, tmp, backups, leftover, running, mu, call>>

(* What a goroutine does by itself once it holds the mutex. *)
Proceed(g) ==
  \/ Read(g)
  \/ OpenBackup(g) \/ FillBackup(g) \/ Cleanup(g)
  \/ Truncate(g) \/ Fill(g) \/ Rename(g)
  \/ Reload(g)

Step(g) ==
  \/ \E op \in {"add", "remove"}, uuid \in Uuid : Call(g, op, uuid)
  \/ Lock(g) \/ Proceed(g) \/ FileError(g)

Next ==
  \/ \E g \in Goroutine : Step(g)
  \/ \E p \in Process : Crash(p)
  \/ Tick

Spec == Init /\ [][Next]_vars

(* File operations and the restart return, and a sync.Mutex starves nobody
   for ever. *)
Fairness ==
  \A g \in Goroutine : SF_vars(Lock(g)) /\ WF_vars(Proceed(g))

FairSpec == Spec /\ Fairness

-----------------------------------------------------------------------------

Contents == {Torn} \cup SUBSET Uuid

Calls ==
  [pc : {"idle", "lock", "read", "backup", "copy", "cleanup", "truncate",
         "fill", "rename", "reload"},
   op : {"none", "add", "remove"}, uuid : Uuid \cup {Nobody},
   base : SUBSET Uuid, name : Nat]

OneProcessOnly == \A g, h \in Goroutine : ProcessOf[g] = ProcessOf[h]

(* A name is a second, so two backups never share one. *)
TypeOK ==
  /\ now \in Nat
  /\ file \in Contents
  /\ tmp \in {Absent} \cup Contents
  /\ backups \subseteq [at : Nat, clients : Contents]
  /\ \A b, c \in backups : b.at = c.at => b = c
  /\ leftover \in BOOLEAN
  /\ running \subseteq Uuid
  /\ mu \in [Process -> Goroutine \cup {Nobody}]
  /\ call \in [Goroutine -> Calls]

(***************************************************************************)
(* Wherever an update fails or the process dies, and however often, the    *)
(* configuration on disk is a whole file that Xray could start from.  (The *)
(* comment of Manager promises as much between independent processes, but  *)
(* nothing in the code locks between them: this is about one process.)     *)
(***************************************************************************)
FileIsWhole == file # Torn

(***************************************************************************)
(* When a goroutine is about to replace the file, the newest backup is a   *)
(* whole copy of the version it replaces: neither cleanupBackups nor the   *)
(* torn backups that earlier failures and crashes left take its place.  No *)
(* more than the limit are kept, unless this cleanup has just failed to    *)
(* remove some; the next one that succeeds makes up for it.                *)
(***************************************************************************)
ReplacedIsBackedUp ==
  \A g \in Goroutine :
    call[g].pc \in {"truncate", "fill", "rename"} =>
      /\ \E b \in backups : Newer(b) = 0 /\ b.clients = file
      /\ leftover \/ Cardinality(backups) <= MaxBackups

(* What the file counts for: between the rename and the end of the restart
   that follows it, the version that was replaced. *)
Effective ==
  IF \E g \in Goroutine : At(g, "reload")
  THEN call[CHOOSE g \in Goroutine : At(g, "reload")].base
  ELSE file

Clients == INSTANCE XrayClients WITH config <- Effective

(***************************************************************************)
(* The step-by-step updates implement the atomic ones of XrayClients: each *)
(* takes effect with its restart, on top of all earlier ones, an error or  *)
(* a crash before the rename leaves no trace, and a crash after it leaves  *)
(* the file changed, with the restart that is under way or without it.     *)
(***************************************************************************)
ClientsSpec == Clients!XraySpec

(***************************************************************************)
(* Every call of AddClient or RemoveClient returns, on every error path,   *)
(* if the restart it runs does.                                            *)
(***************************************************************************)
EveryCallReturns ==
  \A g \in Goroutine : At(g, "lock") ~> At(g, "idle")
=============================================================================
