--------------------------- MODULE WsPushRegistry ---------------------------
(***************************************************************************)
(* lib/vox_net/ws_registry: for each device the sender of the WebSocket    *)
(* session that registered last.  Every call is one critical section;      *)
(* Notify copies the sender out of it and calls the copy afterwards.       *)
(***************************************************************************)
EXTENDS Naturals, FiniteSets

CONSTANTS
  Sessions,   \* WebSocketSession objects
  Devices,    \* device scope keys
  Device      \* [Sessions -> Devices]: the device of the session's token

VARIABLE senders    \* [Devices -> SUBSET Sessions]: at most one each

RegistryInit == senders = [d \in Devices |-> {}]

\* Mutant of Register: an entry that exists is kept (emplace).
RegisterKeeps(s) ==
  senders' = [senders EXCEPT ![Device[s]] = IF @ = {} THEN {s} ELSE @]

Register(s) == senders' = [senders EXCEPT ![Device[s]] = {s}]

\* Erases by key, whichever session the entry belongs to.
Unregister(s) == senders' = [senders EXCEPT ![Device[s]] = {}]
=============================================================================
