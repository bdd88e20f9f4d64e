---------------------------- MODULE XrayClients ----------------------------
(***************************************************************************)
(* What internal/xray promises its callers: AddClient and RemoveClient as  *)
(* atomic operations on the client list of the vless inbound.  The manager *)
(* edits the configuration file and then restarts the Xray service, which  *)
(* is when the running server picks the file up.  XrayManager models the   *)
(* same operations step by step and is checked to implement this module.   *)
(***************************************************************************)
CONSTANTS
  Uuid,    \* client identifiers
  Faults   \* which failures may happen: "xray", "reload" and "crash" concern
           \*   this module

VARIABLES
  config,   \* the clients in the configuration file
  running   \* the clients the running Xray process serves

xrayVars == <<config, running>>

XrayTypeOK ==
  /\ config \subseteq Uuid
  /\ running \subseteq Uuid

(* An operation that fails before the file is replaced changes nothing. *)
FailsUntouched ==
  /\ "xray" \in Faults
  /\ UNCHANGED xrayVars

(* Deliberately wrong: a file that is replaced is taken for a server restarted. *)
ReplaceConfig_NoRestart(clients, ok) ==
  /\ config' = clients
  /\ \/ ok /\ running' \in {running, clients}
     \/ ~ok /\ "reload" \in Faults /\ running' \in {running, {}}

(* The file is replaced; a restart that fails leaves the old server running
   or none at all. *)
ReplaceConfig(clients, ok) ==
  /\ config' = clients
  /\ \/ ok /\ running' = clients
     \/ ~ok /\ "reload" \in Faults /\ running' \in {running, {}}

(* The process dies when the file has been replaced and before the restart is
   over: systemctl may have been started, and then goes on without it. *)
CutOff(clients) ==
  /\ "crash" \in Faults
  /\ config' = clients
  /\ \/ running' \in {running, clients}
     \/ "reload" \in Faults /\ running' = {}

(* AddClient returns nil without touching anything when the uuid is there. *)
AddClient(uuid, ok) ==
  \/ uuid \in config /\ ok /\ UNCHANGED xrayVars
  \/ uuid \notin config /\ ReplaceConfig(config \cup {uuid}, ok)
  \/ ~ok /\ FailsUntouched

(* RemoveClient rewrites the file and restarts even if the uuid is absent. *)
RemoveClient(uuid, ok) ==
  \/ ReplaceConfig(config \ {uuid}, ok)
  \/ ~ok /\ FailsUntouched

AddClientCutOff(uuid) == uuid \notin config /\ CutOff(config \cup {uuid})

RemoveClientCutOff(uuid) == CutOff(config \ {uuid})

XrayInit == config = {} /\ running = {}

XrayNext ==
  \E uuid \in Uuid :
    \/ \E ok \in BOOLEAN : AddClient(uuid, ok) \/ RemoveClient(uuid, ok)
    \/ AddClientCutOff(uuid) \/ RemoveClientCutOff(uuid)

XraySpec == XrayInit /\ [][XrayNext]_xrayVars
=============================================================================
