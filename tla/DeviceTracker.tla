--------------------------- MODULE DeviceTracker ---------------------------
(***************************************************************************)
(* internal/device: the goroutine that processes connections, the one that *)
(* flushes the session cache to the database, and the one that cleans up   *)
(* expired sessions.  A database call, or a stretch of code under the      *)
(* cache's mutex, is one step; between two steps of one goroutine the      *)
(* others may run.                                                         *)
(*                                                                         *)
(* Connections arrive from the channel one at a time and at any moment.    *)
(* The clock is not set back.  MaxTime, MaxConnections and MaxCrashes      *)
(* bound the runs.                                                         *)
(***************************************************************************)
EXTENDS DeviceSessions

CONSTANTS
  TelegramId,       \* the telegram_id of each user, by users.id
  Devices,          \* the device limit, the same in every row of users
  DeviceTTL,
  ReconnectWindow,
  MobileWindow,     \* mobileNetworkWindow
  MaxTime,
  MaxConnections,
  MaxCrashes,
  Faults            \* subset of {"db"}

ASSUME TrackerAssumption ==
  /\ IsFiniteSet(Device) /\ Device # {}
  /\ Devices \in Nat
  /\ DeviceTTL \in Nat
  /\ ReconnectWindow \in Nat
  /\ MobileWindow \in Nat
  /\ MaxTime \in Nat
  /\ MaxConnections \in Nat
  /\ MaxCrashes \in Nat

VARIABLES
  now,        \* the clock
  db,         \* device_sessions
  cache,      \* DeviceCache.sessions: last_seen by hash, None if absent
  persisted,  \* the hashes whose cached session has Persisted set
  dirty,      \* DeviceCache.dirty
  proc,       \* processEvent: where it is, and its local variables
  batch,      \* flush: what is left of changed
  saved,      \* flush: hashes upserted and not yet marked clean, at most one
  cleanup,    \* runCleanup: where it is, and its local variables
  connections, \* how many so far
  crashes     \* how many so far

vars == <<now, db, cache, persisted, dirty, proc, batch, saved, cleanup, connections, crashes>>

cacheVars == <<cache, persisted, dirty>>
flushVars == <<batch, saved>>
bounds == <<connections, crashes>>

(* GetUser expects a Telegram ID and is given the row id of u: it finds a row
   if u happens to be the Telegram ID of somebody. *)
GetUserFinds(u) == \E v \in DOMAIN TelegramId : TelegramId[v] = u

(* The processor between two events.  at is its now, dev its baseHash, known
   the Persisted of its copy of the session, count its activeCount and victim
   the hash it is about to evict. *)
Waiting ==
  LET someDevice == CHOOSE d \in Device : TRUE
  IN  [pc |-> "idle", at |-> 0, dev |-> someDevice, known |-> FALSE,
       count |-> 0, victim |-> someDevice]

(* The cleanup between two ticks. *)
Resting == [pc |-> "idle", before |-> 0, list |-> {}]

Init ==
  /\ now = 1
  /\ db = [d \in Device |-> None]
  /\ cache = [d \in Device |-> None]
  /\ persisted = {}
  /\ dirty = {}
  /\ proc = Waiting
  /\ batch = [d \in Device |-> None]
  /\ saved = {}
  /\ cleanup = Resting
  /\ connections = 0
  /\ crashes = 0

Fails == "db" \in Faults

-----------------------------------------------------------------------------
(* processEvent *)

Owner == UserOf[proc.dev]

ActiveSince == proc.at - DeviceTTL

Goto(pc) == proc' = [proc EXCEPT !.pc = pc]

Return == proc' = Waiting

(* Deliberately wrong: goes by the time that Xray wrote into the log. *)
Receive_LogTime(d) ==
  /\ proc.pc = "idle"
  /\ connections < MaxConnections
  /\ connections' = connections + 1
  /\ \E t \in 1 .. now :
       proc' = [Waiting EXCEPT !.pc = "match", !.at = t, !.dev = d]
  /\ UNCHANGED <<now, db, cacheVars, flushVars, cleanup, crashes>>

(* An event of a known user is taken from the channel; the others, and those
   whose look-up fails, are dropped. *)
Receive(d) ==
  /\ proc.pc = "idle"
  /\ connections < MaxConnections
  /\ connections' = connections + 1
  /\ proc' = [Waiting EXCEPT !.pc = "match", !.at = now, !.dev = d]
  /\ UNCHANGED <<now, db, cacheVars, flushVars, cleanup, crashes>>

(* Mobile network protection: a recent session of the same user and bucket
   takes the place of the device; its error is ignored. *)
MatchMobile ==
  LET recent == RecentSessionsByPortBucket(
                  db, Owner, BucketOf[proc.dev], proc.at - MobileWindow)
  IN /\ proc.pc = "match"
     /\ \/ \E d \in recent : proc' = [proc EXCEPT !.pc = "lookup", !.dev = d]
        \/ (recent = {} \/ Fails) /\ Goto("lookup")
     /\ UNCHANGED <<now, db, cacheVars, flushVars, cleanup, bounds>>

Reconnects ==
  cache[proc.dev] # None /\ proc.at - cache[proc.dev] < ReconnectWindow

(* cache.Get, and reconnect protection. *)
LookUp ==
  /\ proc.pc = "lookup"
  /\ proc' = [proc EXCEPT !.pc = IF Reconnects THEN "update" ELSE "count",
                         !.known = proc.dev \in persisted]
  /\ UNCHANGED <<now, db, cacheVars, flushVars, cleanup, bounds>>

(* activeCount > user.Devices, where activeCount includes a new device. *)
Enforce(count, known) ==
  proc' = [proc EXCEPT !.pc = IF count > Devices THEN "oldest" ELSE "update",
                       !.known = known, !.count = 0]

(* GetUser and CountActiveDeviceSessions. *)
CountActive ==
  LET count == CountActiveDeviceSessions(db, Owner, ActiveSince)
  IN /\ proc.pc = "count"
     /\ \/ (~GetUserFinds(Owner) \/ Fails) /\ Return
        \/ /\ GetUserFinds(Owner)
           /\ IF proc.known
              THEN Enforce(count, TRUE)
              ELSE proc' = [proc EXCEPT !.pc = "stored", !.count = count]
     /\ UNCHANGED <<now, db, cacheVars, flushVars, cleanup, bounds>>

(* GetDeviceSession, for a session that the cache does not say is stored; a
   failure is taken for no row. *)
CheckStored ==
  /\ proc.pc = "stored"
  /\ \/ Stored(db, proc.dev) /\ Enforce(proc.count, TRUE)
     \/ (~Stored(db, proc.dev) \/ Fails) /\ Enforce(proc.count + 1, FALSE)
  /\ UNCHANGED <<now, db, cacheVars, flushVars, cleanup, bounds>>

(* Only a device idle for longer than the reconnect window can be evicted;
   otherwise the event is dropped. *)
FindOldest ==
  LET oldest == OldestActiveDeviceSessions(db, Owner, ActiveSince)
  IN /\ proc.pc = "oldest"
     /\ \/ \E d \in oldest :
             IF proc.at - db[d] > ReconnectWindow
             THEN proc' = [proc EXCEPT !.pc = "evict", !.victim = d]
             ELSE Return
        \/ (oldest = {} \/ Fails) /\ Return
     /\ UNCHANGED <<now, db, cacheVars, flushVars, cleanup, bounds>>

(* DeleteDeviceSession; the cache keeps its copy, and a failure is logged. *)
Evict ==
  /\ proc.pc = "evict"
  /\ \/ db' = DeleteDeviceSession(db, proc.victim)
     \/ Fails /\ UNCHANGED db
  /\ proc' = [proc EXCEPT !.pc = "update", !.victim = Waiting.victim]
  /\ UNCHANGED <<now, cacheVars, flushVars, cleanup, bounds>>

(* cache.Update: the fields of a session that is there are overwritten, all
   but Persisted; one that is not is put there as it was copied. *)
Update ==
  /\ proc.pc = "update"
  /\ cache' = [cache EXCEPT ![proc.dev] = proc.at]
  /\ persisted' = IF cache[proc.dev] = None /\ proc.known
                  THEN persisted \cup {proc.dev} ELSE persisted
  /\ dirty' = dirty \cup {proc.dev}
  /\ Return
  /\ UNCHANGED <<now, db, flushVars, cleanup, bounds>>

ProcessStep ==
  \/ MatchMobile \/ LookUp \/ CountActive \/ CheckStored
  \/ FindOldest \/ Evict \/ Update

-----------------------------------------------------------------------------
(* flush *)

FlushDone == saved = {} /\ \A d \in Device : batch[d] = None

(* Deliberately wrong: only sessions that were never saved are copied. *)
StartFlush_OnlyNew ==
  /\ FlushDone
  /\ dirty # {}
  /\ batch' = [d \in Device |-> IF d \in dirty \ persisted THEN cache[d] ELSE None]
  /\ UNCHANGED <<now, db, cacheVars, proc, saved, cleanup, bounds>>

(* The dirty sessions are copied under the mutex. *)
StartFlush ==
  /\ FlushDone
  /\ dirty # {}
  /\ batch' = [d \in Device |-> IF d \in dirty THEN cache[d] ELSE None]
  /\ UNCHANGED <<now, db, cacheVars, proc, saved, cleanup, bounds>>

(* UpsertDeviceSession of one of the copies, in any order. *)
Save(d) ==
  /\ saved = {}
  /\ batch[d] # None
  /\ db' = UpsertDeviceSession(db, d, batch[d])
  /\ saved' = {d}
  /\ UNCHANGED <<now, cacheVars, proc, batch, cleanup, bounds>>

SaveFails(d) ==
  /\ Fails
  /\ saved = {}
  /\ batch[d] # None
  /\ batch' = [batch EXCEPT ![d] = None]
  /\ UNCHANGED <<now, db, cacheVars, proc, saved, cleanup, bounds>>

(* Deliberately wrong: marks a session that cleanup has dropped, too. *)
MarkSaved_Unchecked(d) ==
  /\ d \in saved
  /\ persisted' = persisted \cup {d}
  /\ dirty' = dirty \ {d}
  /\ batch' = [batch EXCEPT ![d] = None]
  /\ saved' = {}
  /\ UNCHANGED <<now, db, cache, proc, cleanup, bounds>>

(* After the upsert, whatever the cache holds by then is called clean. *)
MarkSaved(d) ==
  /\ d \in saved
  /\ persisted' = IF cache[d] = None THEN persisted ELSE persisted \cup {d}
  /\ dirty' = dirty \ {d}
  /\ batch' = [batch EXCEPT ![d] = None]
  /\ saved' = {}
  /\ UNCHANGED <<now, db, cache, proc, cleanup, bounds>>

FlushStep(d) == Save(d) \/ SaveFails(d) \/ MarkSaved(d)

-----------------------------------------------------------------------------
(* runCleanup *)

(* Deliberately wrong: the cutoff is computed once, before the loop. *)
ListStale_FixedCutoff ==
  LET before == 1 - DeviceTTL
  IN /\ cleanup.pc = "idle"
     /\ cleanup' = [pc |-> "forget", before |-> before,
                    list |-> ListExpiredDeviceSessions(db, before)]
     /\ UNCHANGED <<now, db, cacheVars, proc, flushVars, bounds>>

(* A failure to list ends this round before it has changed anything. *)
ListStale ==
  LET before == now - DeviceTTL
  IN /\ cleanup.pc = "idle"
     /\ cleanup' = [pc |-> "forget", before |-> before,
                    list |-> ListExpiredDeviceSessions(db, before)]
     /\ UNCHANGED <<now, db, cacheVars, proc, flushVars, bounds>>

(* cache.Delete of one of the sessions listed. *)
Forget(d) ==
  /\ d \in cleanup.list
  /\ cache' = [cache EXCEPT ![d] = None]
  /\ persisted' = persisted \ {d}
  /\ dirty' = dirty \ {d}
  /\ cleanup' = [cleanup EXCEPT !.list = @ \ {d}]
  /\ UNCHANGED <<now, db, proc, flushVars, bounds>>

DeleteStale ==
  /\ cleanup.pc = "forget"
  /\ cleanup.list = {}
  /\ db' = DeleteExpiredDeviceSessions(db, cleanup.before)
  /\ cleanup' = Resting
  /\ UNCHANGED <<now, cacheVars, proc, flushVars, bounds>>

DeleteStaleFails ==
  /\ Fails
  /\ cleanup.pc = "forget"
  /\ cleanup.list = {}
  /\ cleanup' = Resting
  /\ UNCHANGED <<now, db, cacheVars, proc, flushVars, bounds>>

CleanupStep ==
  \/ ListStale
  \/ \E d \in Device : Forget(d)
  \/ DeleteStale \/ DeleteStaleFails

-----------------------------------------------------------------------------

(* The context is never cancelled, so an exit never flushes. *)
Crash ==
  /\ crashes < MaxCrashes
  /\ crashes' = crashes + 1
  /\ cache' = [d \in Device |-> None]
  /\ persisted' = {}
  /\ dirty' = {}
  /\ proc' = Waiting
  /\ batch' = [d \in Device |-> None]
  /\ saved' = {}
  /\ cleanup' = Resting
  /\ UNCHANGED <<now, db, connections>>

Tick ==
  /\ now < MaxTime
  /\ now' = now + 1
  /\ UNCHANGED <<db, cacheVars, proc, flushVars, cleanup, bounds>>

Next ==
  \/ \E d \in Device : Receive(d)
  \/ ProcessStep
  \/ StartFlush
  \/ \E d \in Device : FlushStep(d)
  \/ CleanupStep
  \/ Crash
  \/ Tick

Spec == Init /\ [][Next]_vars

(* The tickers of the cache and of the cleanup fire for ever, their calls
   return, and a write that is tried again and again does not fail every
   time.  Nothing is assumed of the processor, or of connections. *)
Fairness ==
  /\ WF_vars(StartFlush)
  /\ \A d \in Device : SF_vars(Save(d)) /\ WF_vars(MarkSaved(d))
  /\ WF_vars(ListStale)
  /\ \A d \in Device : WF_vars(Forget(d))
  /\ SF_vars(DeleteStale)

FairSpec == Spec /\ Fairness

-----------------------------------------------------------------------------

Processors ==
  [pc : {"idle", "match", "lookup", "count", "stored", "oldest", "evict", "update"},
   at : Nat, dev : Device, known : BOOLEAN, count : Nat, victim : Device]

Cleanups == [pc : {"idle", "forget"}, before : Int, list : SUBSET Device]

(* Only sessions in the cache are dirty or persisted, only one that is being
   flushed is marked clean, and an event has a time. *)
TypeOK ==
  /\ now \in Nat \ {0}
  /\ db \in Sessions
  /\ cache \in Sessions
  /\ persisted \subseteq {d \in Device : cache[d] # None}
  /\ dirty \subseteq {d \in Device : cache[d] # None}
  /\ proc \in Processors /\ (proc.pc # "idle" => proc.at # None)
  /\ batch \in Sessions
  /\ saved \subseteq {d \in Device : batch[d] # None}
  /\ cleanup \in Cleanups
  /\ connections \in Nat
  /\ crashes \in Nat

(***************************************************************************)
(* The last_seen of a stored session never moves back: not when flush      *)
(* writes an older copy than the cache holds by then, not when cleanup or  *)
(* an eviction deleted the row under it, not across crashes.               *)
(***************************************************************************)
SessionsNeverGoBack ==
  [][\A d \in Device : Stored(db, d)' => db'[d] >= db[d]]_vars

(***************************************************************************)
(* What flush has marked clean has been persisted, as its comment says:    *)
(* the row, unless it was deleted, is as recent as the cached session.     *)
(***************************************************************************)
CleanIsPersisted ==
  \A d \in Device :
    cache[d] # None /\ d \notin dirty /\ Stored(db, d) => db[d] >= cache[d]

(***************************************************************************)
(* "Sessions are eventually persisted": a time that waits in the cache, to *)
(* be written by the next flush, reaches the database, or a later one does *)
(* for it, whatever upserts fail; or the session is dropped by the cleanup *)
(* or a crash.  An update of a session that a flush is holding a copy of   *)
(* (batch) is not promised as much: see CleanIsPersisted.                  *)
(***************************************************************************)
EventuallySaved ==
  \A d \in Device, t \in 1 .. MaxTime :
    cache[d] = t /\ d \in dirty /\ batch[d] = None
      ~> (Stored(db, d) /\ db[d] >= t) \/ cache[d] = None

(***************************************************************************)
(* A row that has expired is eventually deleted, or refreshed by a new     *)
(* connection, through failed deletes and crashes.                         *)
(***************************************************************************)
ExpiredIsDeleted ==
  \A d \in Device :
    Expired(db, d, now - DeviceTTL) ~> ~Expired(db, d, now - DeviceTTL)
=============================================================================
