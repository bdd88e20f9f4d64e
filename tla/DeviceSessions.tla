--------------------------- MODULE DeviceSessions ---------------------------
(***************************************************************************)
(* The device_sessions table, as the functions its SQL statements compute  *)
(* on it.  A row is identified by user_id and device_hash; the hash covers *)
(* the subscriber's uuid, so it determines the user, and also the port     *)
(* bucket, so a row keeps its bucket.  What is left of a row is last_seen: *)
(* the table maps every hash to an instant, or to None where there is no   *)
(* row.  ip, first_seen, connection_count and priority decide nothing.     *)
(***************************************************************************)
EXTENDS Integers, FiniteSets

CONSTANTS
  Device,    \* device hashes
  UserOf,    \* the user_id a hash belongs to
  BucketOf   \* the port_bucket a hash was made from

(* Instants are positive. *)
None == 0

Sessions == [Device -> Nat]

Stored(db, d) == db[d] # None

(* INSERT ... ON CONFLICT DO UPDATE. *)
UpsertDeviceSession(db, d, lastSeen) == [db EXCEPT ![d] = lastSeen]

DeleteDeviceSession(db, d) == [db EXCEPT ![d] = None]

Active(db, u, since) ==
  {d \in Device : UserOf[d] = u /\ Stored(db, d) /\ db[d] > since}

CountActiveDeviceSessions(db, u, since) == Cardinality(Active(db, u, since))

(* ORDER BY last_seen ASC LIMIT 1: any of the oldest, if there is one. *)
OldestActiveDeviceSessions(db, u, since) ==
  {d \in Active(db, u, since) : \A e \in Active(db, u, since) : db[d] <= db[e]}

(* ORDER BY last_seen DESC LIMIT 1, among those of one port bucket. *)
RecentSessionsByPortBucket(db, u, bucket, since) ==
  LET candidates == {d \in Active(db, u, since) : BucketOf[d] = bucket}
  IN  {d \in candidates : \A e \in candidates : db[d] >= db[e]}

Expired(db, d, before) == Stored(db, d) /\ db[d] < before

ListExpiredDeviceSessions(db, before) == {d \in Device : Expired(db, d, before)}

DeleteExpiredDeviceSessions(db, before) ==
  [d \in Device |-> IF Expired(db, d, before) THEN None ELSE db[d]]
=============================================================================
