------------------------- MODULE XrayManagerProofs -------------------------
(***************************************************************************)
(* What one process that edits the configuration can rely on, for any      *)
(* number of goroutines and clients and any file errors, failed restarts   *)
(* and crashes.  Of the theorems only TypeCorrect is true with a second    *)
(* process, and it alone does not assume OneProcessOnly.                   *)
(***************************************************************************)
EXTENDS XrayManager, FiniteSetTheorems, TLAPS

(* The mutex is held from Lock to Return. *)
Holds(g) == call[g].pc \notin {"idle", "lock"}

ClientSets == SUBSET Uuid

Types ==
  /\ now \in Nat
  /\ file \in {Torn} \cup ClientSets
  /\ mu \in [Process -> Goroutine \cup {Nobody}]
  /\ call \in [Goroutine -> Calls]

Exclusive == \A g \in Goroutine : Holds(g) => mu[ProcessOf[g]] = g

(* A mutex is held by a goroutine of its own process. *)
OwnMutex == \A p \in Process : mu[p] # Nobody => ProcessOf[mu[p]] = p

(* What the holder of the mutex has done so far. *)
Progress(g) ==
  /\ call[g].pc # "idle" => call[g].op \in {"add", "remove"} /\ call[g].uuid \in Uuid
  /\ call[g].pc \in {"backup", "copy", "cleanup", "truncate", "fill", "rename"} =>
       call[g].base = file
  /\ call[g].pc \in {"backup", "copy", "cleanup", "truncate", "fill", "rename", "reload"} =>
       (call[g].op = "add" => call[g].uuid \notin call[g].base)
  /\ call[g].pc = "rename" => tmp = Updated(call[g])
  /\ call[g].pc = "reload" => file = Updated(call[g])

ManagerInv ==
  /\ Types
  /\ FileIsWhole
  /\ Exclusive
  /\ OwnMutex
  /\ \A g \in Goroutine : Progress(g)

LEMMA UpdatedIsWhole ==
  ASSUME NEW c \in Calls, c.uuid \in Uuid
  PROVE  Updated(c) \in ClientSets /\ Updated(c) # Torn /\ Updated(c) # Absent
<1>1. Updated(c) \in ClientSets
  BY DEF Calls, Updated, ClientSets
<1> QED  BY <1>1, ManagerAssumption DEF ManagerAssumption, ClientSets

LEMMA CallTypes ==
  ASSUME NEW g \in Goroutine, call \in [Goroutine -> Calls]
  PROVE  /\ Returned \in Calls
         /\ call[g].base \in ClientSets
         /\ \A pc \in {"idle", "lock", "read", "backup", "copy", "cleanup", "truncate",
                       "fill", "rename", "reload"} : [call[g] EXCEPT !.pc = pc] \in Calls
  BY DEF Calls, Returned, ClientSets

LEMMA ManagerInitially == Init => ManagerInv
<1> SUFFICES ASSUME Init PROVE ManagerInv
  OBVIOUS
<1>1. Returned \in Calls
  BY DEF Returned, Calls
<1>2. Types /\ FileIsWhole
  BY <1>1, ManagerAssumption
  DEF Init, Types, ClientSets, FileIsWhole, ManagerAssumption
<1>3. Exclusive /\ OwnMutex /\ \A g \in Goroutine : Progress(g)
  BY DEF Init, Exclusive, OwnMutex, Holds, Progress, Returned
<1> QED  BY <1>2, <1>3 DEF ManagerInv

(* In one process, whoever holds the mutex is alone in holding it. *)
LEMMA Alone ==
  ASSUME OneProcessOnly, ManagerInv, NEW g \in Goroutine, Holds(g)
  PROVE  \A h \in Goroutine : h # g => ~Holds(h)
  BY DEF OneProcessOnly, ManagerInv, Exclusive

(* A goroutine that is idle or waiting has made no progress to lose. *)
LEMMA OthersProgress ==
  ASSUME ManagerInv, NEW h \in Goroutine, ~Holds(h), call'[h] = call[h]
  PROVE  Progress(h)'
  BY DEF ManagerInv, Progress, Holds

(* The holder goes on: the others are not touched. *)
LEMMA HolderStep ==
  ASSUME OneProcessOnly, ManagerInv, NEW g \in Goroutine, Holds(g),
         NEW c \in Calls, c.pc \notin {"idle", "lock"},
         call' = [call EXCEPT ![g] = c], mu' = mu,
         now' = now, file' \in ClientSets, Progress(g)'
  PROVE  ManagerInv'
<1>1. Types' /\ FileIsWhole'
  BY ManagerAssumption
  DEF ManagerInv, Types, FileIsWhole, ClientSets, ManagerAssumption
<1>2. call'[g] = c /\ \A h \in Goroutine : h # g => call'[h] = call[h]
  BY DEF ManagerInv, Types
<1>3. ASSUME NEW h \in Goroutine, Holds(h)' PROVE mu'[ProcessOf[h]] = h
  <2>1. Holds(h)
    BY <1>2, <1>3 DEF Holds
  <2> QED  BY <2>1 DEF ManagerInv, Exclusive
<1>4. ASSUME NEW h \in Goroutine PROVE Progress(h)'
  <2>1. CASE h = g
    BY <2>1
  <2>2. CASE h # g
    BY <1>2, <2>2, Alone, OthersProgress
  <2> QED  BY <2>1, <2>2
<1>5. OwnMutex'
  BY DEF ManagerInv, OwnMutex
<1> QED  BY <1>1, <1>3, <1>4, <1>5 DEF ManagerInv, Exclusive, Holds

(* The holder returns: nobody holds the mutex. *)
LEMMA ReturnStep ==
  ASSUME OneProcessOnly, ManagerInv, NEW g \in Goroutine, Holds(g),
         Return(g), UNCHANGED <<now, file>>
  PROVE  ManagerInv'
<1>1. Returned \in Calls /\ Returned.pc = "idle"
  BY DEF Returned, Calls
<1>2. call'[g] = Returned /\ \A h \in Goroutine : h # g => call'[h] = call[h]
  BY DEF Return, ManagerInv, Types
<1>3. Types' /\ FileIsWhole'
  BY <1>1 DEF Return, ManagerInv, Types, FileIsWhole
<1>4. \A h \in Goroutine : ~Holds(h)'
  BY <1>1, <1>2, Alone DEF Holds
<1>5. Progress(g)'
  BY <1>1, <1>2 DEF Progress
<1>6. \A h \in Goroutine : Progress(h)'
  BY <1>2, <1>5, Alone, OthersProgress
<1>7. OwnMutex'
  BY DEF Return, ManagerInv, Types, OwnMutex
<1> QED  BY <1>3, <1>4, <1>6, <1>7 DEF ManagerInv, Exclusive, Holds

LEMMA ManagerStep ==
  ASSUME OneProcessOnly, ManagerInv, [Next]_vars
  PROVE  ManagerInv'
<1>0. /\ file \in ClientSets
      /\ call \in [Goroutine -> Calls]
      /\ mu \in [Process -> Goroutine \cup {Nobody}]
  BY DEF ManagerInv, Types, FileIsWhole
<1>1. ASSUME NEW g \in Goroutine, NEW op \in {"add", "remove"}, NEW uuid \in Uuid,
             Call(g, op, uuid)
      PROVE  ManagerInv'
  <2> DEFINE c == [call[g] EXCEPT !.pc = "lock", !.op = op, !.uuid = uuid]
  <2>1. c \in Calls /\ c.pc = "lock" /\ c.op = op /\ c.uuid = uuid
    BY <1>0 DEF Calls
  <2>2. /\ call' = [call EXCEPT ![g] = c]
        /\ UNCHANGED <<now, file, tmp, mu>>
    BY <1>1 DEF Call
  <2> HIDE DEF c
  <2>3. call'[g] = c /\ \A h \in Goroutine : h # g => call'[h] = call[h]
    BY <1>0, <2>2
  <2>4. Types' /\ FileIsWhole'
    BY <2>1, <2>2 DEF ManagerInv, Types, FileIsWhole
  <2>5. Exclusive' /\ OwnMutex'
    BY <2>1, <2>2, <2>3 DEF ManagerInv, Exclusive, OwnMutex, Holds
  <2>6. Progress(g)'
    BY <2>1, <2>3 DEF Progress
  <2>7. ASSUME NEW h \in Goroutine, h # g PROVE Progress(h)'
    BY <2>2, <2>3, <2>7 DEF ManagerInv, Progress, Updated
  <2> QED  BY <2>4, <2>5, <2>6, <2>7 DEF ManagerInv
<1>2. ASSUME NEW g \in Goroutine, Lock(g)
      PROVE  ManagerInv'
  <2> DEFINE c == [call[g] EXCEPT !.pc = "read"]
  <2>1. c \in Calls /\ c.pc = "read" /\ c.op = call[g].op /\ c.uuid = call[g].uuid
    BY <1>0 DEF Calls
  <2>2. /\ call' = [call EXCEPT ![g] = c]
        /\ mu[ProcessOf[g]] = Nobody
        /\ mu' = [mu EXCEPT ![ProcessOf[g]] = g]
        /\ call[g].pc = "lock"
        /\ UNCHANGED <<now, file, tmp>>
    BY <1>2 DEF Lock, Goto, At
  <2> HIDE DEF c
  <2>3. call'[g] = c /\ \A h \in Goroutine : h # g => call'[h] = call[h]
    BY <1>0, <2>2
  <2>4. ProcessOf[g] \in Process
    BY ManagerAssumption DEF ManagerAssumption
  <2>5. Types' /\ FileIsWhole'
    BY <2>1, <2>2 DEF ManagerInv, Types, FileIsWhole
  <2>6. \A h \in Goroutine : ~Holds(h)
    BY <2>2, ManagerAssumption
    DEF ManagerInv, Exclusive, OneProcessOnly, ManagerAssumption
  <2>7. Exclusive'
    BY <1>0, <2>2, <2>3, <2>4, <2>6 DEF Exclusive, Holds
  <2>10. OwnMutex'
    BY <1>0, <2>2, <2>4 DEF ManagerInv, OwnMutex
  <2>8. Progress(g)'
    BY <2>1, <2>2, <2>3 DEF ManagerInv, Progress
  <2>9. ASSUME NEW h \in Goroutine, h # g PROVE Progress(h)'
    BY <2>3, <2>6, <2>9, OthersProgress
  <2> QED  BY <2>5, <2>7, <2>8, <2>9, <2>10 DEF ManagerInv
<1>3. ASSUME NEW g \in Goroutine, Read(g)
      PROVE  ManagerInv'
  <2>1. Holds(g) /\ call[g].pc = "read" /\ Progress(g)
        /\ UNCHANGED <<now, file>>
    BY <1>3 DEF Read, At, Holds, ManagerInv
  <2>2. CASE Return(g)
    BY <2>1, <2>2, ReturnStep
  <2>3. CASE /\ ~(call[g].op = "add" /\ call[g].uuid \in file)
             /\ call' = [call EXCEPT ![g].pc = "backup", ![g].base = file]
             /\ mu' = mu
    <3> DEFINE c == [call[g] EXCEPT !.pc = "backup", !.base = file]
    <3>1. c \in Calls /\ c.pc = "backup" /\ c.base = file
          /\ c.op = call[g].op /\ c.uuid = call[g].uuid
      BY <1>0 DEF Calls, ClientSets
    <3>2. call' = [call EXCEPT ![g] = c]
      BY <1>0, <2>3 DEF Calls
    <3> HIDE DEF c
    <3>3. call'[g] = c
      BY <1>0, <3>2
    <3>4. Progress(g)'
      BY <2>1, <2>3, <3>1, <3>3 DEF Progress
    <3> QED  BY <1>0, <2>1, <2>3, <3>1, <3>2, <3>4, HolderStep
  <2> QED  BY <1>3, <2>2, <2>3 DEF Read, ManagerInv, FileIsWhole
<1>4. ASSUME NEW g \in Goroutine,
             OpenBackup(g) \/ FillBackup(g) \/ Cleanup(g) \/ Truncate(g)
      PROVE  ManagerInv'
  <2>1. /\ call[g].pc \in {"backup", "copy", "cleanup", "truncate"}
        /\ UNCHANGED <<now, file, mu>>
    BY <1>4 DEF OpenBackup, FillBackup, Cleanup, Truncate, At
  <2>2. now \in Nat /\ Holds(g) /\ Progress(g)
    BY <2>1 DEF Holds, ManagerInv, Types
  <2>3. PICK c \in Calls :
          /\ call' = [call EXCEPT ![g] = c]
          /\ c.pc \in {"copy", "cleanup", "truncate", "fill"}
          /\ c.op = call[g].op /\ c.uuid = call[g].uuid /\ c.base = call[g].base
    <3>1. CASE OpenBackup(g)
      <4> DEFINE c == [call[g] EXCEPT !.pc = "copy", !.name = now]
      <4>1. c \in Calls /\ c.pc = "copy" /\ c.op = call[g].op
            /\ c.uuid = call[g].uuid /\ c.base = call[g].base
        BY <1>0, <2>2 DEF Calls
      <4>2. call' = [call EXCEPT ![g] = c]
        BY <1>0, <3>1 DEF OpenBackup, Calls
      <4> QED  BY <4>1, <4>2
    <3>2. CASE FillBackup(g) \/ Cleanup(g) \/ Truncate(g)
      <4>1. PICK pc \in {"cleanup", "truncate", "fill"} :
              call' = [call EXCEPT ![g].pc = pc]
        BY <3>2 DEF FillBackup, Cleanup, Truncate, Goto
      <4> DEFINE c == [call[g] EXCEPT !.pc = pc]
      <4>2. c \in Calls /\ c.pc = pc /\ c.op = call[g].op
            /\ c.uuid = call[g].uuid /\ c.base = call[g].base
        BY <1>0 DEF Calls
      <4>3. call' = [call EXCEPT ![g] = c]
        BY <1>0, <4>1 DEF Calls
      <4> QED  BY <4>2, <4>3
    <3> QED  BY <1>4, <3>1, <3>2
  <2>4. call'[g] = c
    BY <1>0, <2>3
  <2>5. Progress(g)'
    BY <2>1, <2>2, <2>3, <2>4 DEF Progress
  <2> QED  BY <1>0, <2>1, <2>2, <2>3, <2>5, HolderStep
<1>5. ASSUME NEW g \in Goroutine, Fill(g)
      PROVE  ManagerInv'
  <2> DEFINE c == [call[g] EXCEPT !.pc = "rename"]
  <2>1. c \in Calls /\ c.pc = "rename" /\ c.op = call[g].op
        /\ c.uuid = call[g].uuid /\ c.base = call[g].base
    BY <1>0 DEF Calls
  <2>2. /\ call' = [call EXCEPT ![g] = c]
        /\ call[g].pc = "fill"
        /\ tmp' = Updated(call[g])
        /\ UNCHANGED <<now, file, mu>>
    BY <1>5 DEF Fill, At, Goto
  <2> HIDE DEF c
  <2>3. call'[g] = c /\ Holds(g) /\ Progress(g)
    BY <1>0, <2>2 DEF Holds, ManagerInv
  <2>4. Updated(call[g])' = Updated(call[g])
    BY <2>1, <2>3 DEF Updated
  <2>5. Progress(g)'
    BY <2>1, <2>2, <2>3, <2>4 DEF Progress
  <2> QED  BY <1>0, <2>1, <2>2, <2>3, <2>5, HolderStep
<1>6. ASSUME NEW g \in Goroutine, Rename(g)
      PROVE  ManagerInv'
  <2>1. call[g].pc = "rename" /\ Holds(g) /\ Progress(g)
    BY <1>6 DEF Rename, At, Holds, ManagerInv
  <2>2. tmp = Updated(call[g]) /\ Updated(call[g]) \in ClientSets /\ tmp # Absent
    BY <1>0, <2>1, UpdatedIsWhole DEF Progress
  <2> DEFINE c == [call[g] EXCEPT !.pc = "reload"]
  <2>3. c \in Calls /\ c.pc = "reload" /\ c.op = call[g].op
        /\ c.uuid = call[g].uuid /\ c.base = call[g].base
    BY <1>0 DEF Calls
  <2>4. /\ call' = [call EXCEPT ![g] = c]
        /\ file' = tmp
        /\ UNCHANGED <<now, mu>>
    BY <1>6, <2>2 DEF Rename, Goto
  <2> HIDE DEF c
  <2>5. call'[g] = c
    BY <1>0, <2>4
  <2>6. Updated(call[g])' = Updated(call[g])
    BY <2>3, <2>5 DEF Updated
  <2>7. Progress(g)'
    BY <2>1, <2>2, <2>3, <2>4, <2>5, <2>6 DEF Progress
  <2> QED  BY <2>1, <2>2, <2>3, <2>4, <2>7, HolderStep
<1>7. ASSUME NEW g \in Goroutine, FileError(g) \/ Reload(g)
      PROVE  ManagerInv'
  <2>1. Holds(g) /\ Return(g) /\ UNCHANGED <<now, file>>
    BY <1>7 DEF FileError, Reload, At, Holds
  <2> QED  BY <2>1, ReturnStep
<1>8. ASSUME NEW p \in Process, Crash(p)
      PROVE  ManagerInv'
  <2>1. /\ call' = [h \in Goroutine |-> IF ProcessOf[h] = p THEN Returned ELSE call[h]]
        /\ mu' = [mu EXCEPT ![p] = Nobody] /\ mu[p] # Nobody
        /\ UNCHANGED <<now, file, tmp>>
    BY <1>8 DEF Crash
  <2>2. Types' /\ FileIsWhole'
    BY <1>0, <2>1, CallTypes DEF ManagerInv, Types, FileIsWhole
  <2>3. \A h \in Goroutine : call'[h] = Returned \/ call'[h] = call[h]
    BY <2>1
  <2>4. Exclusive' /\ OwnMutex'
    BY <1>0, <2>1 DEF ManagerInv, Exclusive, OwnMutex, Holds, Returned
  <2>5. ASSUME NEW h \in Goroutine PROVE Progress(h)'
    <3>1. CASE call'[h] = Returned
      BY <3>1 DEF Progress, Returned
    <3>2. CASE call'[h] = call[h]
      BY <2>1, <3>2 DEF ManagerInv, Progress, Updated
    <3> QED  BY <2>3, <3>1, <3>2
  <2> QED  BY <2>2, <2>4, <2>5 DEF ManagerInv
<1>9. ASSUME Tick \/ UNCHANGED vars
      PROVE  ManagerInv'
  <2>1. UNCHANGED <<file, tmp, mu, call>> /\ now' \in Nat
    BY <1>9 DEF Tick, vars, ManagerInv, Types
  <2> QED
    BY <2>1
    DEF ManagerInv, Types, FileIsWhole, Exclusive, OwnMutex, Holds, Progress, Updated
<1> QED
  BY <1>1, <1>2, <1>3, <1>4, <1>5, <1>6, <1>7, <1>8, <1>9 DEF Next, Step, Proceed

(***************************************************************************)
(* With one process, the configuration on disk is whole at every instant.  *)
(***************************************************************************)
THEOREM FileIsAlwaysWhole ==
  ASSUME OneProcessOnly
  PROVE  Spec => []FileIsWhole
<1>1. ManagerInv /\ [Next]_vars => ManagerInv'
  BY ManagerStep
<1>2. ManagerInv => FileIsWhole
  BY DEF ManagerInv
<1> QED  BY <1>1, <1>2, ManagerInitially, PTL DEF Spec

-----------------------------------------------------------------------------
(* The refinement of XrayClients. *)

(* Nobody restarts Xray: what is on disk counts. *)
LEMMA EffectiveOnDisk ==
  ASSUME \A g \in Goroutine : ~At(g, "reload")
  PROVE  Effective = file
  BY DEF Effective

(* The one that restarts Xray: what it found counts. *)
LEMMA EffectiveBefore ==
  ASSUME OneProcessOnly, ManagerInv, NEW g \in Goroutine, At(g, "reload")
  PROVE  Effective = call[g].base
<1>1. \A h \in Goroutine : At(h, "reload") <=> h = g
  BY Alone DEF At, Holds
<1> QED  BY <1>1 DEF Effective

(* A step after which the same goroutine, or none, restarts Xray. *)
LEMMA EffectiveStays ==
  ASSUME file' = file,
         \A g \in Goroutine : /\ At(g, "reload")' <=> At(g, "reload")
                              /\ At(g, "reload") => call'[g] = call[g]
  PROVE  Effective' = Effective
<1>1. CASE \E g \in Goroutine : At(g, "reload")
  <2> DEFINE first == CHOOSE g \in Goroutine : At(g, "reload")
             next  == CHOOSE g \in Goroutine : At(g, "reload")'
  <2>1. first \in Goroutine /\ At(first, "reload")
    BY <1>1
  <2>2. next = first
    OBVIOUS
  <2>3. Effective = call[first].base
    BY <1>1 DEF Effective
  <2>4. Effective' = call'[next].base
    BY <1>1 DEF Effective
  <2> HIDE DEF first, next
  <2> QED  BY <2>1, <2>2, <2>3, <2>4
<1>2. CASE ~\E g \in Goroutine : At(g, "reload")
  BY <1>2 DEF Effective
<1> QED  BY <1>1, <1>2

LEMMA ClientsInitially == Init => Clients!XrayInit
<1> SUFFICES ASSUME Init PROVE Clients!XrayInit
  OBVIOUS
<1>1. \A g \in Goroutine : ~At(g, "reload")
  BY DEF Init, At, Returned
<1> QED  BY <1>1, EffectiveOnDisk DEF Init, Clients!XrayInit

(* The end of g's restart is when the update counts. *)
LEMMA UpdateTakesEffect ==
  ASSUME OneProcessOnly, ManagerInv, NEW g \in Goroutine, At(g, "reload"),
         Effective' = file, ReloadEnds
  PROVE  Clients!XrayNext
<1>1. /\ call[g].op \in {"add", "remove"} /\ call[g].uuid \in Uuid
      /\ call[g].op = "add" => call[g].uuid \notin call[g].base
      /\ file = Updated(call[g])
  BY DEF ManagerInv, Progress, At
<1>2. Effective = call[g].base
  BY EffectiveBefore
<1>3. PICK ok \in BOOLEAN :
        \/ ok /\ running' = file
        \/ ~ok /\ "reload" \in Faults /\ running' \in {running, {}}
  BY DEF ReloadEnds, Served, ManagerInv, FileIsWhole
<1>4. Clients!ReplaceConfig(Updated(call[g]), ok)
  BY <1>1, <1>3 DEF Clients!ReplaceConfig
<1>5. CASE call[g].op = "add"
  <2>1. Clients!AddClient(call[g].uuid, ok)
    BY <1>1, <1>2, <1>4, <1>5 DEF Clients!AddClient, Updated
  <2> QED  BY <1>1, <2>1 DEF Clients!XrayNext
<1>6. CASE call[g].op = "remove"
  <2>1. Clients!RemoveClient(call[g].uuid, ok)
    BY <1>1, <1>2, <1>4, <1>6 DEF Clients!RemoveClient, Updated
  <2> QED  BY <1>1, <2>1 DEF Clients!XrayNext
<1> QED  BY <1>1, <1>5, <1>6

(* A crash during g's restart leaves the file changed. *)
LEMMA UpdateIsCutOff ==
  ASSUME OneProcessOnly, ManagerInv, NEW g \in Goroutine, At(g, "reload"),
         Effective' = file, "crash" \in Faults, running' = running \/ ReloadEnds
  PROVE  Clients!XrayNext
<1>1. /\ call[g].op \in {"add", "remove"} /\ call[g].uuid \in Uuid
      /\ call[g].op = "add" => call[g].uuid \notin call[g].base
      /\ file = Updated(call[g])
  BY DEF ManagerInv, Progress, At
<1>2. Effective = call[g].base
  BY EffectiveBefore
<1>3. \/ running' \in {running, file}
      \/ "reload" \in Faults /\ running' = {}
  BY DEF ReloadEnds, Served, ManagerInv, FileIsWhole
<1>4. Clients!CutOff(Updated(call[g]))
  BY <1>1, <1>3 DEF Clients!CutOff
<1>5. CASE call[g].op = "add"
  <2>1. Clients!AddClientCutOff(call[g].uuid)
    BY <1>1, <1>2, <1>4, <1>5 DEF Clients!AddClientCutOff, Updated
  <2> QED  BY <1>1, <2>1 DEF Clients!XrayNext
<1>6. CASE call[g].op = "remove"
  <2>1. Clients!RemoveClientCutOff(call[g].uuid)
    BY <1>1, <1>2, <1>4, <1>6 DEF Clients!RemoveClientCutOff, Updated
  <2> QED  BY <1>1, <2>1 DEF Clients!XrayNext
<1> QED  BY <1>1, <1>5, <1>6

(* A step of the holder that neither starts nor ends a restart is invisible. *)
LEMMA InvisibleStep ==
  ASSUME OneProcessOnly, ManagerInv, NEW g \in Goroutine, Holds(g),
         ~At(g, "reload"), ~At(g, "reload")',
         \A h \in Goroutine : h # g => call'[h] = call[h],
         UNCHANGED <<file, running>>
  PROVE  UNCHANGED <<Effective, running>>
<1>1. \A h \in Goroutine : ~At(h, "reload") /\ ~At(h, "reload")'
  BY Alone DEF At, Holds
<1> QED  BY <1>1 DEF Effective

LEMMA ClientsStep ==
  ASSUME OneProcessOnly, ManagerInv, [Next]_vars
  PROVE  [Clients!XrayNext]_<<Effective, running>>
<1>0. call \in [Goroutine -> Calls] /\ FileIsWhole
  BY DEF ManagerInv, Types
<1>1. ASSUME NEW g \in Goroutine,
             \/ \E op \in {"add", "remove"}, uuid \in Uuid : Call(g, op, uuid)
             \/ Lock(g)
      PROVE  UNCHANGED <<Effective, running>>
  <2>1. UNCHANGED <<file, running>> /\ ~At(g, "reload")
    BY <1>1 DEF Call, Lock, At
  <2>2. \A h \in Goroutine : h # g => call'[h] = call[h]
    BY <1>0, <1>1 DEF Call, Lock, Goto
  <2>3. call'[g].pc \in {"lock", "read"}
    <3>1. ASSUME NEW op \in {"add", "remove"}, NEW uuid \in Uuid, Call(g, op, uuid)
          PROVE  call'[g].pc = "lock"
      <4> DEFINE c == [call[g] EXCEPT !.pc = "lock", !.op = op, !.uuid = uuid]
      <4>1. c.pc = "lock"
        BY <1>0 DEF Calls
      <4>2. call' = [call EXCEPT ![g] = c]
        BY <3>1 DEF Call
      <4> HIDE DEF c
      <4> QED  BY <1>0, <4>1, <4>2
    <3>2. CASE Lock(g)
      BY <1>0, <3>2 DEF Lock, Goto, Calls
    <3> QED  BY <1>1, <3>1, <3>2
  <2> QED  BY <2>1, <2>2, <2>3, EffectiveStays DEF At
<1>2. ASSUME NEW g \in Goroutine,
             \/ Read(g) \/ OpenBackup(g) \/ FillBackup(g) \/ Cleanup(g)
             \/ Truncate(g) \/ Fill(g) \/ FileError(g)
      PROVE  UNCHANGED <<Effective, running>>
  <2>1. UNCHANGED <<file, running>> /\ Holds(g) /\ ~At(g, "reload")
    BY <1>2 DEF Read, OpenBackup, FillBackup, Cleanup, Truncate, Fill, FileError, At, Holds
  <2>2. \A h \in Goroutine : h # g => call'[h] = call[h]
    BY <1>0, <1>2
    DEF Read, OpenBackup, FillBackup, Cleanup, Truncate, Fill, FileError, Return, Goto
  <2>3. ~At(g, "reload")'
    BY <1>0, <1>2
    DEF Read, OpenBackup, FillBackup, Cleanup, Truncate, Fill, FileError, Return, Goto,
        At, Returned, Calls
  <2> QED  BY <2>1, <2>2, <2>3, InvisibleStep
<1>3. ASSUME NEW g \in Goroutine, Rename(g)
      PROVE  UNCHANGED <<Effective, running>>
  <2>1. At(g, "rename") /\ Holds(g) /\ running' = running /\ call[g].base = file
    BY <1>3 DEF Rename, At, Holds, ManagerInv, Progress
  <2>2. \A h \in Goroutine : ~At(h, "reload")
    BY <2>1, Alone DEF At, Holds
  <2>3. Effective = file
    BY <2>2, EffectiveOnDisk
  <2>4. CASE Return(g) /\ file' = file
    <3>1. \A h \in Goroutine : h # g => call'[h] = call[h]
      BY <1>0, <2>4 DEF Return
    <3>2. ~At(g, "reload")'
      BY <1>0, <2>4 DEF Return, At, Returned
    <3> QED  BY <2>1, <2>2, <2>4, <3>1, <3>2, InvisibleStep
  <2>5. CASE Goto(g, "reload")
    <3>1. \A h \in Goroutine : At(h, "reload")' <=> h = g
      BY <1>0, <2>2, <2>5 DEF Goto, At, Calls
    <3>2. call'[g].base = call[g].base
      BY <1>0, <2>5 DEF Goto, Calls
    <3>3. Effective' = call'[g].base
      BY <3>1 DEF Effective
    <3> QED  BY <2>1, <2>3, <3>2, <3>3
  <2> QED  BY <1>3, <2>4, <2>5 DEF Rename
<1>4. ASSUME NEW g \in Goroutine, Reload(g)
      PROVE  Clients!XrayNext
  <2>1. At(g, "reload") /\ Holds(g) /\ file' = file /\ Return(g) /\ ReloadEnds
    BY <1>4 DEF Reload, At, Holds
  <2>2. \A h \in Goroutine : ~At(h, "reload")'
    BY <1>0, <2>1, Alone DEF Return, At, Holds, Returned
  <2>3. Effective' = file
    BY <2>1, <2>2 DEF Effective
  <2> QED  BY <2>1, <2>3, UpdateTakesEffect
<1>5. ASSUME NEW p \in Process, Crash(p)
      PROVE  Clients!XrayNext \/ UNCHANGED <<Effective, running>>
  <2>1. /\ file' = file
        /\ call' = [h \in Goroutine |-> IF ProcessOf[h] = p THEN Returned ELSE call[h]]
        /\ running' = running \/ (At(mu[p], "reload") /\ ReloadEnds)
        /\ "crash" \in Faults
    BY <1>5 DEF Crash
  <2>2. mu[p] \in Goroutine /\ ProcessOf[mu[p]] = p
    BY <1>5 DEF Crash, ManagerInv, Types, OwnMutex
  <2>3. \A h \in Goroutine : At(h, "reload") => h = mu[p]
    BY <2>2 DEF ManagerInv, Exclusive, OneProcessOnly, At, Holds
  <2>4. \A h \in Goroutine : ~At(h, "reload")'
    BY <2>1, <2>2, <2>3 DEF At, Returned
  <2>5. Effective' = file
    BY <2>1, <2>4 DEF Effective
  <2>6. CASE At(mu[p], "reload")
    BY <2>1, <2>2, <2>5, <2>6, UpdateIsCutOff
  <2>7. CASE ~At(mu[p], "reload")
    <3>1. running' = running
      BY <2>1, <2>7
    <3>2. Effective = file
      BY <2>3, <2>7, EffectiveOnDisk
    <3> QED  BY <2>5, <3>1, <3>2
  <2> QED  BY <2>6, <2>7
<1>6. ASSUME Tick \/ UNCHANGED vars
      PROVE  UNCHANGED <<Effective, running>>
  BY <1>6, EffectiveStays DEF Tick, vars, At
<1>7. ASSUME NEW g \in Goroutine, Step(g)
      PROVE  Clients!XrayNext \/ UNCHANGED <<Effective, running>>
  BY <1>1, <1>2, <1>3, <1>4, <1>7 DEF Step, Proceed
<1>8. CASE \E g \in Goroutine : Step(g)
  BY <1>7, <1>8
<1>9. CASE \E p \in Process : Crash(p)
  BY <1>5, <1>9
<1>10. CASE Tick \/ UNCHANGED vars
  BY <1>6, <1>10
<1> QED  BY <1>8, <1>9, <1>10 DEF Next

(***************************************************************************)
(* With one process, the step-by-step updates are the atomic AddClient and *)
(* RemoveClient that the subscription service is modelled with.            *)
(***************************************************************************)
THEOREM ManagerImplementsClients ==
  ASSUME OneProcessOnly
  PROVE  Spec => ClientsSpec
<1>1. ManagerInv /\ [Next]_vars => ManagerInv'
  BY ManagerStep
<1>2. ManagerInv /\ [Next]_vars => [Clients!XrayNext]_<<Effective, running>>
  BY ClientsStep
<1> QED
  BY <1>1, <1>2, ManagerInitially, ClientsInitially, PTL
  DEF Spec, ClientsSpec, Clients!XraySpec, Clients!xrayVars
-----------------------------------------------------------------------------
(***************************************************************************)
(* Types, for any number of processes.  A call that is not over has one of *)
(* the two operations' arguments, of which the new version is made.        *)
(***************************************************************************)
CallsHaveUuids == \A g \in Goroutine : ~At(g, "idle") => call[g].uuid \in Uuid

BackupTypes ==
  /\ backups \subseteq [at : Nat, clients : Contents]
  /\ \A b, c \in backups : b.at = c.at => b = c

LEMMA CallTyped ==
  ASSUME call \in [Goroutine -> Calls], CallsHaveUuids, NEW g \in Goroutine,
         NEW c \in Calls, c.uuid \in Uuid, call' = [call EXCEPT ![g] = c]
  PROVE  call' \in [Goroutine -> Calls] /\ CallsHaveUuids'
  BY DEF CallsHaveUuids, At

LEMMA GotoTypes ==
  ASSUME call \in [Goroutine -> Calls], CallsHaveUuids, NEW g \in Goroutine,
         ~At(g, "idle"),
         NEW pc \in {"read", "cleanup", "truncate", "fill", "rename", "reload"},
         Goto(g, pc)
  PROVE  call' \in [Goroutine -> Calls] /\ CallsHaveUuids'
<1> DEFINE c == [call[g] EXCEPT !.pc = pc]
<1>1. c \in Calls /\ c.uuid \in Uuid
  BY DEF Calls, CallsHaveUuids
<1>2. call' = [call EXCEPT ![g] = c]
  BY DEF Goto
<1> HIDE DEF c
<1> QED  BY <1>1, <1>2, CallTyped

LEMMA ReturnTypes ==
  ASSUME call \in [Goroutine -> Calls], CallsHaveUuids,
         mu \in [Process -> Goroutine \cup {Nobody}],
         NEW g \in Goroutine, Return(g)
  PROVE  /\ call' \in [Goroutine -> Calls] /\ CallsHaveUuids'
         /\ mu' \in [Process -> Goroutine \cup {Nobody}]
<1>1. Returned \in Calls /\ Returned.pc = "idle"
  BY DEF Returned, Calls
<1> QED  BY <1>1 DEF Return, CallsHaveUuids, At

LEMMA TypedInitially == Init => TypeOK /\ CallsHaveUuids
<1>1. Returned \in Calls
  BY DEF Returned, Calls
<1>2. Init => leftover \in BOOLEAN
  BY DEF Init
<1>3. Init => /\ now \in Nat /\ file \in Contents /\ tmp \in {Absent} \cup Contents
              /\ backups = {} /\ running \subseteq Uuid
              /\ mu \in [Process -> Goroutine \cup {Nobody}]
  BY DEF Init, Contents
<1>4. Init => call \in [Goroutine -> Calls] /\ CallsHaveUuids
  BY <1>1 DEF Init, CallsHaveUuids, At, Returned
<1> QED  BY <1>2, <1>3, <1>4 DEF TypeOK

LEMMA TypedStep ==
  ASSUME TypeOK, CallsHaveUuids, [Next]_vars
  PROVE  TypeOK' /\ CallsHaveUuids'
<1> USE DEF TypeOK
<1>1. ASSUME NEW g \in Goroutine, NEW op \in {"add", "remove"}, NEW uuid \in Uuid,
             Call(g, op, uuid)
      PROVE  TypeOK' /\ CallsHaveUuids'
  <2> DEFINE c == [call[g] EXCEPT !.pc = "lock", !.op = op, !.uuid = uuid]
  <2>1. c \in Calls /\ c.uuid = uuid
    BY DEF Calls
  <2>2. call' = [call EXCEPT ![g] = c]
    BY <1>1 DEF Call
  <2> HIDE DEF c
  <2> QED  BY <1>1, <2>1, <2>2, CallTyped DEF Call
<1>2. ASSUME NEW g \in Goroutine, Lock(g)
      PROVE  TypeOK' /\ CallsHaveUuids'
  <2>1. ~At(g, "idle") /\ Goto(g, "read")
    BY <1>2 DEF Lock, At
  <2> QED  BY <1>2, <2>1, GotoTypes DEF Lock
<1>3. ASSUME NEW g \in Goroutine, Read(g)
      PROVE  TypeOK' /\ CallsHaveUuids'
  <2>1. CASE Return(g)
    BY <1>3, <2>1, ReturnTypes DEF Read
  <2>2. CASE /\ file # Torn
             /\ call' = [call EXCEPT ![g].pc = "backup", ![g].base = file]
             /\ UNCHANGED mu
    <3> DEFINE c == [call[g] EXCEPT !.pc = "backup", !.base = file]
    <3>1. c \in Calls /\ c.uuid \in Uuid
      BY <1>3, <2>2 DEF Calls, Contents, CallsHaveUuids, Read, At
    <3>2. call' = [call EXCEPT ![g] = c]
      BY <2>2
    <3> HIDE DEF c
    <3> QED  BY <1>3, <2>2, <3>1, <3>2, CallTyped DEF Read
  <2> QED  BY <1>3, <2>1, <2>2 DEF Read
<1>4. ASSUME NEW g \in Goroutine, OpenBackup(g)
      PROVE  TypeOK' /\ CallsHaveUuids'
  <2> DEFINE c == [call[g] EXCEPT !.pc = "copy", !.name = now]
  <2>1. c \in Calls /\ c.uuid \in Uuid
    BY <1>4 DEF Calls, CallsHaveUuids, OpenBackup, At
  <2>2. call' = [call EXCEPT ![g] = c]
    BY <1>4 DEF OpenBackup
  <2> HIDE DEF c
  <2>3. BackupTypes'
    BY <1>4 DEF OpenBackup, BackupTypes, Contents
  <2> QED  BY <1>4, <2>1, <2>2, <2>3, CallTyped DEF OpenBackup, BackupTypes
<1>5. ASSUME NEW g \in Goroutine, FillBackup(g)
      PROVE  TypeOK' /\ CallsHaveUuids'
  <2>1. ~At(g, "idle") /\ Goto(g, "cleanup") /\ call[g].name \in Nat
    BY <1>5 DEF FillBackup, At, Calls
  <2>2. BackupTypes'
    BY <1>5, <2>1 DEF FillBackup, BackupTypes
  <2> QED  BY <1>5, <2>1, <2>2, GotoTypes DEF FillBackup, BackupTypes
<1>6. ASSUME NEW g \in Goroutine, Cleanup(g)
      PROVE  TypeOK' /\ CallsHaveUuids'
  <2>1. ~At(g, "idle") /\ Goto(g, "truncate") /\ backups' \subseteq backups
    BY <1>6 DEF Cleanup, At
  <2> QED  BY <1>6, <2>1, GotoTypes DEF Cleanup
<1>7. ASSUME NEW g \in Goroutine, Truncate(g)
      PROVE  TypeOK' /\ CallsHaveUuids'
  <2>1. ~At(g, "idle") /\ Goto(g, "fill") /\ tmp' \in Contents
    BY <1>7 DEF Truncate, At, Contents
  <2> QED  BY <1>7, <2>1, GotoTypes DEF Truncate
<1>8. ASSUME NEW g \in Goroutine, Fill(g)
      PROVE  TypeOK' /\ CallsHaveUuids'
  <2>1. ~At(g, "idle") /\ Goto(g, "rename")
    BY <1>8 DEF Fill, At
  <2>2. Updated(call[g]) \in Contents
    BY <2>1 DEF Updated, Calls, CallsHaveUuids, Contents
  <2> QED  BY <1>8, <2>1, <2>2, GotoTypes DEF Fill
<1>9. ASSUME NEW g \in Goroutine, Rename(g)
      PROVE  TypeOK' /\ CallsHaveUuids'
  <2>1. CASE Return(g) /\ UNCHANGED <<file, tmp>>
    BY <1>9, <2>1, ReturnTypes DEF Rename
  <2>2. CASE /\ tmp # Absent /\ file' = tmp /\ tmp' = Absent
             /\ Goto(g, "reload") /\ UNCHANGED mu
    <3>1. ~At(g, "idle")
      BY <1>9 DEF Rename, At
    <3> QED  BY <1>9, <2>2, <3>1, GotoTypes DEF Rename
  <2> QED  BY <1>9, <2>1, <2>2 DEF Rename
<1>10. ASSUME NEW g \in Goroutine, Reload(g)
       PROVE  TypeOK' /\ CallsHaveUuids'
  <2>1. Return(g) /\ running' \subseteq Uuid
    BY <1>10 DEF Reload, ReloadEnds, Served, Contents
  <2> QED  BY <1>10, <2>1, ReturnTypes DEF Reload
<1>11. ASSUME NEW g \in Goroutine, FileError(g)
       PROVE  TypeOK' /\ CallsHaveUuids'
  BY <1>11, ReturnTypes DEF FileError
<1>12. ASSUME NEW p \in Process, Crash(p)
       PROVE  TypeOK' /\ CallsHaveUuids'
  <2>1. Returned \in Calls /\ Returned.pc = "idle"
    BY DEF Returned, Calls
  <2>2. call' \in [Goroutine -> Calls] /\ CallsHaveUuids'
    BY <1>12, <2>1 DEF Crash, CallsHaveUuids, At
  <2>3. running' \subseteq Uuid
    BY <1>12 DEF Crash, ReloadEnds, Served, Contents
  <2> QED  BY <1>12, <2>2, <2>3 DEF Crash
<1>13. ASSUME Tick \/ UNCHANGED vars
       PROVE  TypeOK' /\ CallsHaveUuids'
  BY <1>13 DEF Tick, vars, CallsHaveUuids, At
<1> QED
  BY <1>1, <1>2, <1>3, <1>4, <1>5, <1>6, <1>7, <1>8, <1>9, <1>10, <1>11, <1>12, <1>13
  DEF Next, Step, Proceed

(***************************************************************************)
(* Every reachable state is well typed, and no two backups share a name,   *)
(* however many processes edit the file.                                   *)
(***************************************************************************)
THEOREM TypeCorrect == Spec => []TypeOK
<1>1. TypeOK /\ CallsHaveUuids /\ [Next]_vars => (TypeOK /\ CallsHaveUuids)'
  BY TypedStep
<1> QED  BY <1>1, TypedInitially, PTL DEF Spec
-----------------------------------------------------------------------------
(***************************************************************************)
(* Backups.  The first two parts are lemmas on what cleanupBackups keeps.  *)
(***************************************************************************)
NewerThan(b) == {other \in backups : other.at > b.at}

LEMMA NewerIsNatural ==
  ASSUME IsFiniteSet(backups), NEW b
  PROVE  IsFiniteSet(NewerThan(b)) /\ Newer(b) = Cardinality(NewerThan(b)) /\ Newer(b) \in Nat
<1>1. NewerThan(b) \in SUBSET backups
  BY DEF NewerThan
<1> QED  BY <1>1, FS_Subset, FS_CardinalityType DEF Newer, NewerThan

(* The newest backup is the one that no other sorts after. *)
LEMMA NewestHasNoneNewer ==
  ASSUME IsFiniteSet(backups), BackupTypes, NEW b \in backups,
         \A c \in backups : c.at <= b.at
  PROVE  Newer(b) = 0
<1>1. NewerThan(b) = {}
  BY DEF NewerThan, BackupTypes
<1> QED  BY <1>1, NewerIsNatural, FS_EmptySet

(* An older backup has strictly more after it. *)
LEMMA OlderHasMoreNewer ==
  ASSUME IsFiniteSet(backups), BackupTypes,
         NEW b \in backups, NEW c \in backups, b.at < c.at
  PROVE  Newer(b) # Newer(c)
<1>1. NewerThan(c) \in SUBSET NewerThan(b) /\ c \in NewerThan(b) /\ c \notin NewerThan(c)
  BY DEF NewerThan, BackupTypes
<1>2. IsFiniteSet(NewerThan(b))
  BY NewerIsNatural
<1>3. Cardinality(NewerThan(b)) # Cardinality(NewerThan(c))
  BY <1>1, <1>2, FS_Subset
<1> QED  BY <1>3, NewerIsNatural

Kept == {b \in backups : Newer(b) < MaxBackups}

(* cleanupBackups leaves at most MaxBackups: the number of newer ones tells *)
(* those it keeps apart, and is below the limit for each of them.           *)
LEMMA AtMostMaxBackupsKept ==
  ASSUME IsFiniteSet(backups), BackupTypes
  PROVE  IsFiniteSet(Kept) /\ Cardinality(Kept) <= MaxBackups
<1> DEFINE place == [b \in Kept |-> Newer(b)]
           places == 0..(MaxBackups - 1)
<1>1. MaxBackups \in Nat \ {0}
  BY ManagerAssumption DEF ManagerAssumption
<1>2. IsFiniteSet(places) /\ Cardinality(places) = MaxBackups
  BY <1>1, FS_Interval
<1>3. place \in [Kept -> places]
  <2>1. ASSUME NEW b \in Kept PROVE Newer(b) \in places
    BY <1>1, NewerIsNatural DEF Kept
  <2> QED  BY <2>1
<1>4. ASSUME NEW b \in Kept, NEW c \in Kept, place[b] = place[c] PROVE b = c
  <2>1. b \in backups /\ c \in backups /\ Newer(b) = Newer(c)
    BY <1>4 DEF Kept
  <2>2. b.at \in Nat /\ c.at \in Nat /\ (b.at = c.at => b = c)
    BY <2>1 DEF BackupTypes
  <2>3. ~(b.at < c.at) /\ ~(c.at < b.at)
    BY <2>1, OlderHasMoreNewer
  <2> QED  BY <2>2, <2>3
<1>5. place \in Injection(Kept, places)
  BY <1>3, <1>4 DEF Injection, IsInjective
<1> HIDE DEF place, places
<1> QED  BY <1>2, <1>5, FS_Injection

(***************************************************************************)
(* What holds of the backups as an update goes on.  None is named after    *)
(* now; the one that the holder of the mutex makes is the newest from the  *)
(* moment it is opened, so that it is among those that are kept.           *)
(***************************************************************************)
Newest(at) == \A b \in backups : b.at <= at

Backed(g) ==
  /\ call[g].pc = "copy" => call[g].name <= now /\ Newest(call[g].name)
  /\ call[g].pc \in {"cleanup", "truncate", "fill", "rename"} =>
       \E b \in backups : b.clients = file /\ Newest(b.at)
  /\ call[g].pc \in {"truncate", "fill", "rename"} =>
       leftover = TRUE \/ Cardinality(backups) <= MaxBackups

BackupInv ==
  /\ IsFiniteSet(backups)
  /\ Newest(now)
  /\ \A g \in Goroutine : Backed(g)

LEMMA BackupInitially == Init => BackupInv
  BY FS_EmptySet DEF Init, BackupInv, Newest, Backed, Returned

LEMMA BackedIsReplaced ==
  ASSUME TypeOK, BackupInv
  PROVE  ReplacedIsBackedUp
<1>1. ASSUME NEW g \in Goroutine, call[g].pc \in {"truncate", "fill", "rename"}
      PROVE  \E b \in backups : Newer(b) = 0 /\ b.clients = file
  <2>1. PICK b \in backups : b.clients = file /\ Newest(b.at)
    BY <1>1 DEF BackupInv, Backed
  <2>2. Newer(b) = 0
    BY <2>1, NewestHasNoneNewer DEF BackupInv, Newest, TypeOK, BackupTypes
  <2> QED  BY <2>1, <2>2
<1> QED  BY <1>1 DEF ReplacedIsBackedUp, BackupInv, Backed

(* One that does not hold the mutex relies on no backup. *)
LEMMA OthersBacked ==
  ASSUME NEW h \in Goroutine, ~Holds(h)'
  PROVE  Backed(h)'
  BY DEF Backed, Holds

(* The holder goes on or returns, and its backups are as they should be. *)
LEMMA BackupHolderStep ==
  ASSUME OneProcessOnly, ManagerInv, NEW g \in Goroutine, Holds(g),
         \A h \in Goroutine : h # g => call'[h] = call[h],
         IsFiniteSet(backups)', Newest(now)', Backed(g)'
  PROVE  BackupInv'
<1>1. ASSUME NEW h \in Goroutine, h # g PROVE Backed(h)'
  <2>1. ~Holds(h)'
    BY <1>1, Alone DEF Holds
  <2> QED  BY <2>1, OthersBacked
<1> QED  BY <1>1 DEF BackupInv

LEMMA BackupReturn ==
  ASSUME OneProcessOnly, ManagerInv, BackupInv, NEW g \in Goroutine, Holds(g),
         Return(g), UNCHANGED <<now, backups, leftover>>
  PROVE  BackupInv'
<1>1. call'[g] = Returned /\ \A h \in Goroutine : h # g => call'[h] = call[h]
  BY DEF Return, ManagerInv, Types
<1>2. IsFiniteSet(backups)' /\ Newest(now)'
  BY DEF BackupInv, Newest
<1>3. Backed(g)'
  BY <1>1 DEF Backed, Returned
<1> QED  BY <1>1, <1>2, <1>3, BackupHolderStep

LEMMA BackupStep ==
  ASSUME OneProcessOnly, ManagerInv, TypeOK, BackupInv, [Next]_vars
  PROVE  BackupInv'
<1>0. call \in [Goroutine -> Calls] /\ now \in Nat /\ BackupTypes
  BY DEF TypeOK, BackupTypes
<1>1. ASSUME NEW g \in Goroutine,
             \/ \E op \in {"add", "remove"}, uuid \in Uuid : Call(g, op, uuid)
             \/ Lock(g)
      PROVE  BackupInv'
  <2>1. UNCHANGED <<now, file, backups, leftover>>
    BY <1>1 DEF Call, Lock
  <2>2. \A h \in Goroutine : h # g => call'[h] = call[h]
    BY <1>0, <1>1 DEF Call, Lock, Goto
  <2>3. call'[g].pc \in {"lock", "read"}
    <3>1. ASSUME NEW op \in {"add", "remove"}, NEW uuid \in Uuid, Call(g, op, uuid)
          PROVE  call'[g].pc = "lock"
      <4> DEFINE c == [call[g] EXCEPT !.pc = "lock", !.op = op, !.uuid = uuid]
      <4>1. c.pc = "lock"
        BY <1>0 DEF Calls
      <4>2. call' = [call EXCEPT ![g] = c]
        BY <3>1 DEF Call
      <4> HIDE DEF c
      <4> QED  BY <1>0, <4>1, <4>2
    <3>2. CASE Lock(g)
      BY <1>0, <3>2 DEF Lock, Goto, Calls
    <3> QED  BY <1>1, <3>1, <3>2
  <2>4. Backed(g)'
    BY <2>3 DEF Backed
  <2>5. ASSUME NEW h \in Goroutine, h # g PROVE Backed(h)'
    BY <2>1, <2>2, <2>5 DEF BackupInv, Backed, Newest
  <2> QED  BY <2>1, <2>4, <2>5 DEF BackupInv, Newest
<1>2. ASSUME NEW g \in Goroutine, Read(g)
      PROVE  BackupInv'
  <2>1. Holds(g) /\ UNCHANGED <<now, backups, leftover>>
    BY <1>2 DEF Read, At, Holds
  <2>2. CASE Return(g)
    BY <2>1, <2>2, BackupReturn
  <2>3. CASE call' = [call EXCEPT ![g].pc = "backup", ![g].base = file]
    <3>1. call'[g].pc = "backup" /\ \A h \in Goroutine : h # g => call'[h] = call[h]
      BY <1>0, <2>3 DEF Calls
    <3>2. IsFiniteSet(backups)' /\ Newest(now)' /\ Backed(g)'
      BY <2>1, <3>1 DEF BackupInv, Newest, Backed
    <3> QED  BY <2>1, <3>1, <3>2, BackupHolderStep
  <2> QED  BY <1>2, <2>2, <2>3 DEF Read
<1>3. ASSUME NEW g \in Goroutine, OpenBackup(g)
      PROVE  BackupInv'
  <2> DEFINE opened == [at |-> now, clients |-> Torn]
             others == {b \in backups : b.at # now}
  <2>1. Holds(g) /\ now' = now /\ backups' = others \cup {opened}
    BY <1>3 DEF OpenBackup, At, Holds
  <2>2. /\ call'[g].pc = "copy" /\ call'[g].name = now
        /\ \A h \in Goroutine : h # g => call'[h] = call[h]
    BY <1>0, <1>3 DEF OpenBackup, Calls
  <2>3. IsFiniteSet(backups)'
    BY <2>1, FS_Subset, FS_AddElement DEF BackupInv
  <2>4. Newest(now)'
    BY <1>0, <2>1 DEF BackupInv, Newest
  <2>5. Backed(g)'
    BY <1>0, <2>1, <2>2, <2>4 DEF Backed, Newest
  <2> QED  BY <2>1, <2>2, <2>3, <2>4, <2>5, BackupHolderStep
<1>4. ASSUME NEW g \in Goroutine, FillBackup(g)
      PROVE  BackupInv'
  <2> DEFINE filled == [at |-> call[g].name, clients |-> file]
             others == {b \in backups : b.at # call[g].name}
  <2>1. /\ Holds(g) /\ UNCHANGED <<now, file>> /\ backups' = others \cup {filled}
        /\ call[g].name \in Nat /\ call[g].name <= now /\ Newest(call[g].name)
    BY <1>0, <1>4 DEF FillBackup, At, Holds, BackupInv, Backed, Calls
  <2>2. call'[g].pc = "cleanup" /\ \A h \in Goroutine : h # g => call'[h] = call[h]
    BY <1>0, <1>4 DEF FillBackup, Goto, Calls
  <2>3. IsFiniteSet(backups)'
    BY <2>1, FS_Subset, FS_AddElement DEF BackupInv
  <2>4. Newest(now)'
    BY <1>0, <2>1 DEF BackupInv, Newest
  <2>5. \A b \in backups' : b.at <= filled.at
    BY <1>0, <2>1 DEF Newest
  <2>6. Backed(g)'
    <3>1. filled \in backups' /\ filled.clients = file'
      BY <2>1
    <3> QED  BY <2>2, <2>5, <3>1 DEF Backed, Newest
  <2> QED  BY <2>1, <2>2, <2>3, <2>4, <2>6, BackupHolderStep
<1>5. ASSUME NEW g \in Goroutine, Cleanup(g)
      PROVE  BackupInv'
  <2>1. /\ Holds(g) /\ UNCHANGED <<now, file>> /\ call[g].pc = "cleanup"
        /\ backups' \in SUBSET backups /\ Kept \subseteq backups'
        /\ leftover' = TRUE \/ backups' = Kept
    BY <1>5 DEF Cleanup, At, Holds, Kept
  <2>2. call'[g].pc = "truncate" /\ \A h \in Goroutine : h # g => call'[h] = call[h]
    BY <1>0, <1>5 DEF Cleanup, Goto, Calls
  <2>3. IsFiniteSet(Kept) /\ Cardinality(Kept) <= MaxBackups /\ Kept \subseteq backups
    BY <1>0, AtMostMaxBackupsKept DEF BackupInv, Kept
  <2>4. PICK b \in backups : b.clients = file /\ Newest(b.at)
    BY <2>1 DEF BackupInv, Backed
  <2>5. b \in Kept
    <3>1. Newer(b) = 0
      BY <1>0, <2>4, NewestHasNoneNewer DEF BackupInv, Newest
    <3> QED  BY <3>1, ManagerAssumption DEF Kept, ManagerAssumption
  <2>6. IsFiniteSet(backups)' /\ Newest(now)'
    BY <2>1, FS_Subset DEF BackupInv, Newest
  <2>7. Backed(g)'
    <3>1. \A c \in backups' : c.at <= b.at
      BY <2>1, <2>4 DEF Newest
    <3>2. leftover' = TRUE \/ Cardinality(backups') <= MaxBackups
      BY <2>1, <2>3
    <3> QED  BY <2>1, <2>2, <2>4, <2>5, <3>1, <3>2 DEF Backed, Newest
  <2> QED  BY <2>1, <2>2, <2>6, <2>7, BackupHolderStep
<1>6. ASSUME NEW g \in Goroutine, Truncate(g) \/ Fill(g)
      PROVE  BackupInv'
  <2>1. /\ Holds(g) /\ UNCHANGED <<now, file, backups, leftover>>
        /\ call[g].pc \in {"truncate", "fill"}
    BY <1>6 DEF Truncate, Fill, At, Holds
  <2>2. call'[g].pc \in {"fill", "rename"} /\ \A h \in Goroutine : h # g => call'[h] = call[h]
    BY <1>0, <1>6 DEF Truncate, Fill, Goto, Calls
  <2>3. IsFiniteSet(backups)' /\ Newest(now)'
    BY <2>1 DEF BackupInv, Newest
  <2>4. Backed(g)'
    BY <2>1, <2>2 DEF BackupInv, Backed, Newest
  <2> QED  BY <2>1, <2>2, <2>3, <2>4, BackupHolderStep
<1>7. ASSUME NEW g \in Goroutine, Rename(g)
      PROVE  BackupInv'
  <2>1. Holds(g) /\ UNCHANGED <<now, backups, leftover>>
    BY <1>7 DEF Rename, At, Holds
  <2>2. CASE Return(g)
    BY <2>1, <2>2, BackupReturn
  <2>3. CASE Goto(g, "reload")
    <3>1. call'[g].pc = "reload" /\ \A h \in Goroutine : h # g => call'[h] = call[h]
      BY <1>0, <2>3 DEF Goto, Calls
    <3>2. IsFiniteSet(backups)' /\ Newest(now)' /\ Backed(g)'
      BY <2>1, <3>1 DEF BackupInv, Newest, Backed
    <3> QED  BY <2>1, <3>1, <3>2, BackupHolderStep
  <2> QED  BY <1>7, <2>2, <2>3 DEF Rename
<1>8. ASSUME NEW g \in Goroutine, FileError(g) \/ Reload(g)
      PROVE  BackupInv'
  <2>1. Holds(g) /\ Return(g) /\ UNCHANGED <<now, backups, leftover>>
    BY <1>8 DEF FileError, Reload, At, Holds
  <2> QED  BY <2>1, BackupReturn
<1>9. ASSUME NEW p \in Process, Crash(p)
      PROVE  BackupInv'
  <2>1. /\ call' = [h \in Goroutine |-> IF ProcessOf[h] = p THEN Returned ELSE call[h]]
        /\ UNCHANGED <<now, file, backups, leftover>>
    BY <1>9 DEF Crash
  <2>2. ASSUME NEW h \in Goroutine PROVE Backed(h)'
    <3>1. CASE call'[h] = Returned
      BY <3>1 DEF Backed, Returned
    <3>2. CASE call'[h] = call[h]
      BY <2>1, <3>2 DEF BackupInv, Backed, Newest
    <3> QED  BY <2>1, <3>1, <3>2
  <2> QED  BY <2>1, <2>2 DEF BackupInv, Newest
<1>10. ASSUME Tick \/ UNCHANGED vars
       PROVE  BackupInv'
  <2>1. UNCHANGED <<file, backups, leftover, call>> /\ now' \in Nat /\ now <= now'
    BY <1>0, <1>10 DEF Tick, vars
  <2>2. Newest(now)'
    BY <1>0, <2>1 DEF BackupInv, Newest, BackupTypes
  <2>3. ASSUME NEW g \in Goroutine PROVE Backed(g)'
    <3>1. call[g].name \in Nat
      BY <1>0 DEF Calls
    <3> QED  BY <1>0, <2>1, <3>1 DEF BackupInv, Backed, Newest
  <2> QED  BY <2>1, <2>2, <2>3 DEF BackupInv
<1> QED
  BY <1>1, <1>2, <1>3, <1>4, <1>5, <1>6, <1>7, <1>8, <1>9, <1>10
  DEF Next, Step, Proceed

(***************************************************************************)
(* With one process, the version that an update replaces is always in the  *)
(* newest backup, whole, and the limit on backups is kept at that moment,  *)
(* unless the cleanup just before has failed to remove some.               *)
(***************************************************************************)
THEOREM ReplacedIsAlwaysBackedUp ==
  ASSUME OneProcessOnly
  PROVE  Spec => []ReplacedIsBackedUp
<1>1. ManagerInv /\ [Next]_vars => ManagerInv'
  BY ManagerStep
<1>2. ManagerInv /\ TypeOK /\ BackupInv /\ [Next]_vars => BackupInv'
  BY BackupStep
<1>3. TypeOK /\ BackupInv => ReplacedIsBackedUp
  BY BackedIsReplaced
<1> QED
  BY <1>1, <1>2, <1>3, ManagerInitially, BackupInitially, TypeCorrect, PTL DEF Spec
=============================================================================
