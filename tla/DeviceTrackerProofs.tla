------------------------ MODULE DeviceTrackerProofs ------------------------
(***************************************************************************)
(* Theorems about DeviceTracker: for any devices, users, limits and        *)
(* windows, under any faults, and with no bound on the clock, the          *)
(* connections or the crashes but being natural numbers.                   *)
(***************************************************************************)
EXTENDS DeviceTracker, FiniteSetTheorems, TLAPS

LEMMA WaitingType == Waiting \in Processors /\ Waiting.pc = "idle" /\ Waiting.at = 0
<1>1. (CHOOSE d \in Device : TRUE) \in Device
  BY TrackerAssumption DEF TrackerAssumption
<1> QED  BY <1>1 DEF Waiting, Processors

LEMMA CountIsNat ==
  ASSUME NEW table, NEW u, NEW since
  PROVE  CountActiveDeviceSessions(table, u, since) \in Nat
<1>1. Active(table, u, since) \subseteq Device
  BY DEF Active
<1>2. IsFiniteSet(Active(table, u, since))
  BY <1>1, TrackerAssumption, FS_Subset DEF TrackerAssumption
<1> QED  BY <1>2, FS_CardinalityType DEF CountActiveDeviceSessions

(* The steps of processEvent that only read. *)
Decide == MatchMobile \/ LookUp \/ CountActive \/ CheckStored \/ FindOldest

(* Where Enforce leads. *)
LEMMA EnforceType ==
  ASSUME proc \in Processors, NEW count, NEW known \in BOOLEAN, Enforce(count, known)
  PROVE  /\ proc' \in Processors
         /\ proc'.pc # "idle"
         /\ proc'.at = proc.at
<1>1. CASE count > Devices
  BY <1>1 DEF Enforce, Processors
<1>2. CASE ~(count > Devices)
  BY <1>2 DEF Enforce, Processors
<1> QED  BY <1>1, <1>2

(* Reading either ends the event or goes on with it, at the same instant. *)
LEMMA DecideStep ==
  ASSUME proc \in Processors, Decide
  PROVE  /\ proc' \in Processors
         /\ \/ proc' = Waiting
            \/ proc.pc # "idle" /\ proc'.pc # "idle" /\ proc'.at = proc.at
         /\ UNCHANGED <<now, db, cacheVars, flushVars, cleanup, bounds>>
<1>1. CASE MatchMobile
  <2>1. UNCHANGED <<now, db, cacheVars, flushVars, cleanup, bounds>> /\ proc.pc = "match"
    BY <1>1 DEF MatchMobile
  <2>2. ASSUME NEW d \in Device, proc' = [proc EXCEPT !.pc = "lookup", !.dev = d]
        PROVE  proc' \in Processors /\ proc'.pc # "idle" /\ proc'.at = proc.at
    BY <2>2 DEF Processors
  <2>3. ASSUME Goto("lookup")
        PROVE  proc' \in Processors /\ proc'.pc # "idle" /\ proc'.at = proc.at
    BY <2>3 DEF Goto, Processors
  <2>4. (\E d \in Device : proc' = [proc EXCEPT !.pc = "lookup", !.dev = d])
          \/ Goto("lookup")
    BY <1>1 DEF MatchMobile, RecentSessionsByPortBucket, Active
  <2> QED  BY <2>1, <2>2, <2>3, <2>4
<1>2. CASE LookUp
  <2> DEFINE pc == IF Reconnects THEN "update" ELSE "count"
             known == proc.dev \in persisted
  <2>1. pc \in {"update", "count"}
    OBVIOUS
  <2>2. known \in BOOLEAN
    <3>1. CASE known
      BY <3>1
    <3>2. CASE ~known
      BY <3>2
    <3> QED  BY <3>1, <3>2
  <2>3. /\ UNCHANGED <<now, db, cacheVars, flushVars, cleanup, bounds>>
        /\ proc.pc = "lookup"
        /\ proc' = [proc EXCEPT !.pc = pc, !.known = known]
    BY <1>2 DEF LookUp
  <2> HIDE DEF pc, known
  <2>4. proc' \in Processors /\ proc'.pc # "idle" /\ proc'.at = proc.at
    BY <2>1, <2>2, <2>3 DEF Processors
  <2> QED  BY <2>3, <2>4
<1>3. CASE CountActive
  <2> DEFINE count == CountActiveDeviceSessions(db, Owner, ActiveSince)
  <2>1. count \in Nat
    BY CountIsNat
  <2> HIDE DEF count
  <2>2. /\ UNCHANGED <<now, db, cacheVars, flushVars, cleanup, bounds>>
        /\ proc.pc = "count"
        /\ \/ Return
           \/ Enforce(count, TRUE)
           \/ proc' = [proc EXCEPT !.pc = "stored", !.count = count]
    BY <1>3 DEF CountActive, count
  <2>3. CASE proc' = [proc EXCEPT !.pc = "stored", !.count = count]
    BY <2>1, <2>2, <2>3 DEF Processors
  <2> QED  BY <2>2, <2>3, EnforceType, WaitingType DEF Return
<1>4. CASE CheckStored
  <2>1. Enforce(proc.count, TRUE) \/ Enforce(proc.count + 1, FALSE)
    BY <1>4 DEF CheckStored
  <2>2. proc' \in Processors /\ proc'.pc # "idle" /\ proc'.at = proc.at
    BY <2>1, EnforceType
  <2> QED  BY <1>4, <2>2 DEF CheckStored
<1>5. CASE FindOldest
  <2>1. /\ UNCHANGED <<now, db, cacheVars, flushVars, cleanup, bounds>>
        /\ proc.pc = "oldest"
        /\ \/ \E d \in Device : proc' = [proc EXCEPT !.pc = "evict", !.victim = d]
           \/ Return
    BY <1>5 DEF FindOldest, OldestActiveDeviceSessions, Active
  <2>2. ASSUME NEW d \in Device, proc' = [proc EXCEPT !.pc = "evict", !.victim = d]
        PROVE  proc' \in Processors /\ proc'.pc # "idle" /\ proc'.at = proc.at
    BY <2>2 DEF Processors
  <2> QED  BY <2>1, <2>2, WaitingType DEF Return
<1> QED  BY <1>1, <1>2, <1>3, <1>4, <1>5 DEF Decide

(* Next, with the reading steps taken together. *)
LEMMA NextSteps ==
  ASSUME Next
  PROVE  \/ \E d \in Device : Receive(d)
         \/ Decide \/ Evict \/ Update
         \/ StartFlush
         \/ \E d \in Device : Save(d) \/ SaveFails(d) \/ MarkSaved(d)
         \/ ListStale \/ (\E d \in Device : Forget(d))
         \/ DeleteStale \/ DeleteStaleFails
         \/ Crash \/ Tick
  BY DEF Next, ProcessStep, Decide, FlushStep, CleanupStep

-----------------------------------------------------------------------------

LEMMA TypeInitially == Init => TypeOK
  BY WaitingType DEF Init, TypeOK, Sessions, None, Cleanups, Resting

LEMMA TypeStep ==
  ASSUME TypeOK, [Next]_vars
  PROVE  TypeOK'
<1> USE DEF TypeOK, cacheVars, flushVars, bounds
<1>1. ASSUME NEW d \in Device, Receive(d)
      PROVE  TypeOK'
  <2>1. proc' \in Processors /\ proc'.at # None
    BY <1>1, WaitingType DEF Receive, Processors, None
  <2> QED  BY <1>1, <2>1 DEF Receive
<1>2. CASE Decide
  <2>1. /\ proc' \in Processors
        /\ proc' = Waiting \/ (proc.pc # "idle" /\ proc'.at = proc.at)
        /\ UNCHANGED <<now, db, cacheVars, flushVars, cleanup, bounds>>
    BY <1>2, DecideStep
  <2>2. proc'.pc # "idle" => proc'.at # None
    BY <2>1, WaitingType
  <2> QED  BY <2>1, <2>2
<1>3. CASE Evict
  <2>1. proc' \in Processors
    BY <1>3, WaitingType DEF Evict, Processors
  <2>2. db' \in Sessions
    BY <1>3 DEF Evict, DeleteDeviceSession, Sessions, None
  <2> QED  BY <1>3, <2>1, <2>2 DEF Evict
<1>4. CASE Update
  <2>1. proc.dev \in Device /\ proc.at \in Nat
    BY DEF Processors
  <2>2. proc.at # None
    BY <1>4 DEF Update
  <2> QED  BY <1>4, <2>1, <2>2, WaitingType DEF Update, Return, Sessions
<1>5. CASE StartFlush
  BY <1>5 DEF StartFlush, Sessions, FlushDone, None
<1>6. ASSUME NEW d \in Device, Save(d)
      PROVE  TypeOK'
  BY <1>6 DEF Save, UpsertDeviceSession, Sessions
<1>7. ASSUME NEW d \in Device, SaveFails(d)
      PROVE  TypeOK'
  BY <1>7 DEF SaveFails, Sessions, None
<1>8. ASSUME NEW d \in Device, MarkSaved(d)
      PROVE  TypeOK'
  BY <1>8 DEF MarkSaved, Sessions, None
<1>9. CASE ListStale
  <2>1. now - DeviceTTL \in Int
    BY TrackerAssumption DEF TrackerAssumption
  <2>2. cleanup' \in Cleanups
    BY <1>9, <2>1 DEF ListStale, Cleanups, ListExpiredDeviceSessions
  <2> QED  BY <1>9, <2>2 DEF ListStale
<1>10. ASSUME NEW d \in Device, Forget(d)
       PROVE  TypeOK'
  <2>1. cleanup' \in Cleanups
    BY <1>10 DEF Forget, Cleanups
  <2> QED  BY <1>10, <2>1 DEF Forget, Sessions, None
<1>11. CASE DeleteStale
  <2>1. db' \in Sessions
    BY <1>11 DEF DeleteStale, DeleteExpiredDeviceSessions, Sessions, None
  <2> QED  BY <1>11, <2>1 DEF DeleteStale, Resting, Cleanups
<1>12. CASE DeleteStaleFails
  BY <1>12 DEF DeleteStaleFails, Resting, Cleanups
<1>13. CASE Crash
  BY <1>13, WaitingType DEF Crash, Sessions, None, Resting, Cleanups
<1>14. CASE Tick
  BY <1>14 DEF Tick
<1>15. CASE UNCHANGED vars
  BY <1>15 DEF vars
<1> QED
  BY <1>1, <1>2, <1>3, <1>4, <1>5, <1>6, <1>7, <1>8, <1>9, <1>10, <1>11,
     <1>12, <1>13, <1>14, <1>15, NextSteps

(***************************************************************************)
(* Every variable keeps its type; in particular, only sessions that are in *)
(* the cache are ever dirty.                                               *)
(***************************************************************************)
THEOREM TypeCorrect == Spec => []TypeOK
<1>1. TypeOK /\ [Next]_vars => TypeOK'
  BY TypeStep
<1> QED  BY TypeInitially, <1>1, PTL DEF Spec

-----------------------------------------------------------------------------

(* No session is newer than the event at work, or than the clock. *)
Horizon == IF proc.pc = "idle" THEN now ELSE proc.at

(* The copies of a session, oldest first: the row, flush's copy, the cache. *)
CopiesInOrder ==
  /\ proc.at <= now
  /\ \A d \in Device :
       /\ db[d] <= Horizon /\ batch[d] <= Horizon /\ cache[d] <= Horizon
       /\ batch[d] # None => db[d] <= batch[d]
       /\ cache[d] # None => db[d] <= cache[d] /\ batch[d] <= cache[d]

LEMMA OrderInitially == Init => CopiesInOrder
  BY WaitingType DEF Init, CopiesInOrder, Horizon, None

(* A step that moves the horizon forward and touches no copy. *)
LEMMA HorizonMoves ==
  ASSUME TypeOK, TypeOK', CopiesInOrder,
         UNCHANGED <<db, batch, cache>>, Horizon' >= Horizon, proc'.at <= now'
  PROVE  CopiesInOrder'
<1>1. /\ Horizon \in Nat /\ Horizon' \in Nat
      /\ \A d \in Device : db[d] \in Nat /\ batch[d] \in Nat /\ cache[d] \in Nat
  BY DEF TypeOK, Processors, Horizon, Sessions
<1> QED  BY <1>1 DEF CopiesInOrder

LEMMA OrderStep ==
  ASSUME TypeOK, TypeOK', CopiesInOrder, [Next]_vars
  PROVE  /\ CopiesInOrder'
         /\ \A d \in Device : Stored(db, d)' => db'[d] >= db[d]
<1> DEFINE Forward == \A d \in Device : Stored(db, d)' => db'[d] >= db[d]
<1> USE DEF cacheVars, flushVars, bounds
<1>a. /\ now \in Nat /\ proc.at \in Nat /\ now' \in Nat /\ proc'.at \in Nat
      /\ \A d \in Device : /\ db[d] \in Nat /\ batch[d] \in Nat /\ cache[d] \in Nat
                          /\ db'[d] \in Nat /\ batch'[d] \in Nat /\ cache'[d] \in Nat
  BY DEF TypeOK, Processors, Sessions
<1>b. UNCHANGED db => Forward
  BY <1>a DEF Stored
<1>c. ASSUME UNCHANGED <<db, batch, cache, now>>,
             proc' = Waiting \/ (proc.pc # "idle" /\ proc'.pc # "idle" /\ proc'.at = proc.at)
      PROVE  CopiesInOrder'
  BY <1>a, <1>c, HorizonMoves, WaitingType DEF CopiesInOrder, Horizon
<1>d. ASSUME UNCHANGED <<db, batch, cache, now, proc>>
      PROVE  CopiesInOrder'
  BY <1>d DEF CopiesInOrder, Horizon
<1>1. ASSUME NEW d \in Device, Receive(d)
      PROVE  CopiesInOrder' /\ Forward
  <2>1. proc'.at = now /\ proc'.pc # "idle" /\ proc.pc = "idle" /\ UNCHANGED now
    BY <1>1, WaitingType DEF Receive, Processors
  <2>2. UNCHANGED <<db, batch, cache>>
    BY <1>1 DEF Receive
  <2> QED  BY <2>1, <2>2, <1>a, <1>b, HorizonMoves DEF Horizon
<1>2. CASE Decide
  <2>1. proc \in Processors
    BY DEF TypeOK
  <2>2. /\ UNCHANGED <<db, batch, cache, now>>
        /\ proc' = Waiting \/ (proc.pc # "idle" /\ proc'.pc # "idle" /\ proc'.at = proc.at)
    BY <1>2, <2>1, DecideStep
  <2> QED  BY <2>2, <1>b, <1>c
<1>3. CASE Evict
  <2>1. /\ proc.pc # "idle" /\ proc'.pc # "idle" /\ proc'.at = proc.at
        /\ UNCHANGED <<now, batch, cache>>
    BY <1>3 DEF Evict, TypeOK, Processors
  <2>2. \A d \in Device : db'[d] \in {db[d], None}
    BY <1>3 DEF Evict, DeleteDeviceSession, TypeOK, Sessions
  <2> QED  BY <2>1, <2>2, <1>a DEF CopiesInOrder, Horizon, Stored, None
<1>4. CASE Update
  <2>1. /\ proc.pc # "idle" /\ proc'.pc = "idle" /\ proc'.at = 0
        /\ UNCHANGED <<now, db, batch>>
    BY <1>4, WaitingType DEF Update, Return
  <2>2. \A d \in Device : cache'[d] \in {cache[d], proc.at}
    BY <1>4 DEF Update, TypeOK, Sessions
  <2>3. \A d \in Device : /\ db[d] <= proc.at /\ batch[d] <= proc.at
                          /\ cache[d] <= proc.at /\ proc.at <= now
    BY <2>1 DEF CopiesInOrder, Horizon
  <2>4. \A d \in Device : cache'[d] # None => db[d] <= cache'[d] /\ batch[d] <= cache'[d]
    BY <2>2, <2>3 DEF CopiesInOrder
  <2> QED  BY <2>1, <2>2, <2>3, <2>4, <1>a, <1>b DEF CopiesInOrder, Horizon
<1>5. CASE StartFlush
  <2>1. UNCHANGED <<now, db, cache, proc>>
    BY <1>5 DEF StartFlush
  <2>2. \A d \in Device : batch'[d] \in {cache[d], None}
    BY <1>5 DEF StartFlush
  <2> QED  BY <2>1, <2>2, <1>a, <1>b DEF CopiesInOrder, Horizon, None
<1>6. ASSUME NEW e \in Device, Save(e)
      PROVE  CopiesInOrder' /\ Forward
  <2>1. UNCHANGED <<now, batch, cache, proc>> /\ batch[e] # None
    BY <1>6 DEF Save
  <2>2. \A d \in Device : db'[d] = IF d = e THEN batch[e] ELSE db[d]
    BY <1>6 DEF Save, UpsertDeviceSession, TypeOK, Sessions
  <2> QED  BY <2>1, <2>2, <1>a DEF CopiesInOrder, Horizon, Stored
<1>7. ASSUME NEW e \in Device, SaveFails(e) \/ MarkSaved(e)
      PROVE  CopiesInOrder' /\ Forward
  <2>1. UNCHANGED <<now, db, cache, proc>>
    BY <1>7 DEF SaveFails, MarkSaved
  <2>2. \A d \in Device : batch'[d] \in {batch[d], None}
    BY <1>7 DEF SaveFails, MarkSaved, TypeOK, Sessions
  <2> QED  BY <2>1, <2>2, <1>a, <1>b DEF CopiesInOrder, Horizon, None
<1>8. CASE ListStale \/ DeleteStaleFails
  BY <1>8, <1>b, <1>d DEF ListStale, DeleteStaleFails
<1>9. ASSUME NEW e \in Device, Forget(e)
      PROVE  CopiesInOrder' /\ Forward
  <2>1. UNCHANGED <<now, db, batch, proc>>
    BY <1>9 DEF Forget
  <2>2. \A d \in Device : cache'[d] \in {cache[d], None}
    BY <1>9 DEF Forget, TypeOK, Sessions
  <2> QED  BY <2>1, <2>2, <1>a, <1>b DEF CopiesInOrder, Horizon, None
<1>10. CASE DeleteStale
  <2>1. UNCHANGED <<now, batch, cache, proc>>
    BY <1>10 DEF DeleteStale
  <2>2. \A d \in Device : db'[d] \in {db[d], None}
    BY <1>10 DEF DeleteStale, DeleteExpiredDeviceSessions
  <2> QED  BY <2>1, <2>2, <1>a DEF CopiesInOrder, Horizon, Stored, None
<1>11. CASE Crash
  <2>1. UNCHANGED <<now, db>> /\ proc'.pc = "idle" /\ proc'.at = 0
    BY <1>11, WaitingType DEF Crash
  <2>2. \A d \in Device : batch'[d] = None /\ cache'[d] = None
    BY <1>11 DEF Crash
  <2> QED  BY <2>1, <2>2, <1>a, <1>b DEF CopiesInOrder, Horizon, None
<1>12. CASE Tick
  <2>1. UNCHANGED <<db, batch, cache, proc>> /\ now' = now + 1
    BY <1>12 DEF Tick
  <2>2. Horizon' >= Horizon /\ proc'.at <= now'
    BY <2>1, <1>a DEF Horizon, CopiesInOrder
  <2> QED  BY <2>1, <2>2, <1>b, HorizonMoves
<1>13. CASE UNCHANGED vars
  BY <1>13, <1>b, <1>d DEF vars
<1> QED
  BY <1>1, <1>2, <1>3, <1>4, <1>5, <1>6, <1>7, <1>8, <1>9, <1>10, <1>11,
     <1>12, <1>13, NextSteps

(***************************************************************************)
(* A stored last_seen never moves back, however processing, flush, cleanup *)
(* and eviction interleave, and across any number of crashes: whatever     *)
(* flush has copied is no older than the row it will overwrite.            *)
(***************************************************************************)
THEOREM StoredTimeNeverGoesBack == Spec => SessionsNeverGoBack
<1>1. Init => TypeOK /\ CopiesInOrder
  BY TypeInitially, OrderInitially
<1>2. TypeOK /\ CopiesInOrder /\ [Next]_vars => (TypeOK /\ CopiesInOrder)'
  BY TypeStep, OrderStep
<1>3. TypeOK /\ CopiesInOrder /\ [Next]_vars
        => [\A d \in Device : Stored(db, d)' => db'[d] >= db[d]]_vars
  BY TypeStep, OrderStep
<1> QED  BY <1>1, <1>2, <1>3, PTL DEF Spec, SessionsNeverGoBack
-----------------------------------------------------------------------------
(***************************************************************************)
(* What flush marks clean.  CleanIsPersisted is false; all that can be in  *)
(* the way is an event that updates a session of which flush holds a copy. *)
(***************************************************************************)
UpdatesMissFlush == [][Update => batch[proc.dev] = None]_vars

(* Flush's copy is the cached session itself, and once saved it is the row, *)
(* unless either has been deleted since.                                    *)
CopyIsCurrent ==
  /\ CleanIsPersisted
  /\ \A d \in Device :
       /\ batch[d] # None /\ cache[d] # None => batch[d] = cache[d]
       /\ d \in saved /\ Stored(db, d) => db[d] >= batch[d]

LEMMA CurrentInitially == Init => CopyIsCurrent
  BY DEF Init, CopyIsCurrent, CleanIsPersisted, None

LEMMA CurrentStep ==
  ASSUME TypeOK, CopyIsCurrent, [Next]_vars, [Update => batch[proc.dev] = None]_vars
  PROVE  CopyIsCurrent'
<1> USE DEF CopyIsCurrent, CleanIsPersisted, cacheVars, flushVars, bounds, Stored
<1>a. /\ proc \in Processors
      /\ \A d \in Device : db[d] \in Nat /\ batch[d] \in Nat /\ cache[d] \in Nat
      /\ saved \subseteq {d \in Device : batch[d] # None}
  BY DEF TypeOK, Sessions
<1>b. ASSUME UNCHANGED <<db, cache, dirty, batch, saved>>
      PROVE  CopyIsCurrent'
  BY <1>b
(* Rows are deleted and nothing else happens to the copies. *)
<1>c. ASSUME UNCHANGED <<cache, dirty, batch, saved>>,
             \A d \in Device : db'[d] \in {db[d], None}
      PROVE  CopyIsCurrent'
  BY <1>c
<1>1. ASSUME NEW d \in Device, Receive(d)
      PROVE  CopyIsCurrent'
  BY <1>1, <1>b DEF Receive
<1>2. CASE Decide
  BY <1>a, <1>2, <1>b, DecideStep
<1>3. CASE Evict
  <2>1. \A d \in Device : db'[d] \in {db[d], None}
    BY <1>3 DEF Evict, DeleteDeviceSession, TypeOK, Sessions
  <2> QED  BY <1>3, <1>c, <2>1 DEF Evict
<1>4. CASE Update
  <2>1. /\ UNCHANGED <<db, batch, saved>> /\ dirty' = dirty \cup {proc.dev}
        /\ \A d \in Device : d # proc.dev => cache'[d] = cache[d]
    BY <1>4 DEF Update, TypeOK, Sessions
  <2>2. batch[proc.dev] = None
    <3>1. proc' # proc
      BY <1>4, WaitingType DEF Update, Return
    <3> QED  BY <1>4, <3>1 DEF vars
  <2>3. ASSUME NEW d \in Device
        PROVE  /\ cache'[d] # None /\ d \notin dirty' /\ db[d] # None => db[d] >= cache'[d]
               /\ batch[d] # None /\ cache'[d] # None => batch[d] = cache'[d]
    BY <2>1, <2>2
  <2> QED  BY <2>1, <2>3
<1>5. CASE StartFlush
  <2>1. UNCHANGED <<db, cache, dirty, saved>> /\ saved = {}
    BY <1>5 DEF StartFlush, FlushDone
  <2>2. \A d \in Device : batch'[d] \in {cache[d], None}
    BY <1>5 DEF StartFlush
  <2> QED  BY <2>1, <2>2
<1>6. ASSUME NEW e \in Device, Save(e)
      PROVE  CopyIsCurrent'
  <2>1. /\ UNCHANGED <<cache, dirty, batch>> /\ batch[e] # None /\ saved' = {e}
        /\ \A d \in Device : db'[d] = IF d = e THEN batch[e] ELSE db[d]
    BY <1>6 DEF Save, UpsertDeviceSession, TypeOK, Sessions
  <2> QED  BY <1>a, <2>1
<1>7. ASSUME NEW e \in Device, SaveFails(e)
      PROVE  CopyIsCurrent'
  <2>1. /\ UNCHANGED <<db, cache, dirty, saved>> /\ saved = {}
        /\ \A d \in Device : batch'[d] \in {batch[d], None}
    BY <1>7 DEF SaveFails, TypeOK, Sessions
  <2> QED  BY <2>1
<1>8. ASSUME NEW e \in Device, MarkSaved(e)
      PROVE  CopyIsCurrent'
  <2>1. /\ UNCHANGED <<db, cache>> /\ dirty' = dirty \ {e} /\ e \in saved /\ saved' = {}
        /\ \A d \in Device : batch'[d] \in {batch[d], None}
    BY <1>8 DEF MarkSaved, TypeOK, Sessions
  <2>2. ASSUME cache[e] # None, db[e] # None
        PROVE  db[e] >= cache[e]
    BY <1>a, <2>1, <2>2
  <2> QED  BY <2>1, <2>2
<1>9. CASE ListStale \/ DeleteStaleFails
  BY <1>9, <1>b DEF ListStale, DeleteStaleFails
<1>10. ASSUME NEW e \in Device, Forget(e)
       PROVE  CopyIsCurrent'
  <2>1. /\ UNCHANGED <<db, batch, saved>> /\ dirty' = dirty \ {e}
        /\ \A d \in Device : cache'[d] = IF d = e THEN None ELSE cache[d]
    BY <1>10 DEF Forget, TypeOK, Sessions
  <2> QED  BY <2>1
<1>11. CASE DeleteStale
  <2>1. \A d \in Device : db'[d] \in {db[d], None}
    BY <1>11 DEF DeleteStale, DeleteExpiredDeviceSessions
  <2> QED  BY <1>11, <1>c, <2>1 DEF DeleteStale
<1>12. CASE Crash
  <2>1. saved' = {} /\ \A d \in Device : batch'[d] = None /\ cache'[d] = None
    BY <1>12 DEF Crash
  <2> QED  BY <2>1
<1>13. CASE Tick \/ UNCHANGED vars
  BY <1>13, <1>b DEF Tick, vars
<1> QED
  BY <1>1, <1>2, <1>3, <1>4, <1>5, <1>6, <1>7, <1>8, <1>9, <1>10, <1>11,
     <1>12, <1>13, NextSteps

(***************************************************************************)
(* If no event updates a session between the copy that flush takes of it   *)
(* and its mark, what is clean has been persisted, for any other           *)
(* interleaving, evictions, failing queries and crashes: what              *)
(* devices_clean shows has no other cause.                                 *)
(***************************************************************************)
THEOREM OnlyUpdatesUnderFlushAreLost ==
  Spec /\ UpdatesMissFlush => []CleanIsPersisted
<1>1. TypeOK /\ CopyIsCurrent /\ [Next]_vars
        /\ [Update => batch[proc.dev] = None]_vars => CopyIsCurrent'
  BY CurrentStep
<1>2. CopyIsCurrent => CleanIsPersisted
  BY DEF CopyIsCurrent
<1> QED
  BY <1>1, <1>2, CurrentInitially, TypeCorrect, PTL DEF Spec, UpdatesMissFlush
=============================================================================
