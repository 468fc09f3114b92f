------------------------- MODULE EnvelopeRepository -------------------------
(***************************************************************************)
(* lib/vox_store/envelope_repository: the tables encrypted_envelopes and   *)
(* delivery_state.  Ciphertexts are opaque to the server and left out; a   *)
(* row is its id, and server_timestamp gives the column of the same name.  *)
(* A delivery_state row is a pair <<envelope, device>>; acked_at is set    *)
(* for the rows in acked.  delivered_at is only written by MarkDelivered,  *)
(* which nothing in the server calls.                                      *)
(***************************************************************************)
EXTENDS VoxTypes, DeviceRepository

CONSTANT Retention   \* message_retention_seconds, 0: rows never expire

ASSUME RetentionAssumption == Retention \in Nat

VARIABLES
  encrypted_envelopes,  \* SUBSET Envelopes
  server_timestamp,     \* [Envelopes -> Nat], meaningful for stored rows
  delivery_state,       \* SUBSET (Envelopes \X Devices)
  acked                 \* SUBSET (Envelopes \X Devices)

envelope_vars ==
  <<encrypted_envelopes, server_timestamp, delivery_state, acked>>

EnvelopeTypeOK ==
  /\ encrypted_envelopes \subseteq Envelopes
  /\ server_timestamp \in [Envelopes -> Nat]
  /\ delivery_state \subseteq Envelopes \X Devices
  /\ acked \subseteq Envelopes \X Devices

CheckDuplicate(e) == e \in encrypted_envelopes

\* Mutant of StoreAllowed: no primary key, CheckDuplicate alone.
StoreAllowedTwice(e) == devices[EnvSender[e]] # "absent"

\* The primary key and the reference to the sender's device row; a violation
\* of either is reported as kDuplicate.
StoreAllowed(e) ==
  /\ e \notin encrypted_envelopes
  /\ devices[EnvSender[e]] # "absent"

StoreEnvelope(e, ts) ==
  /\ encrypted_envelopes' = encrypted_envelopes \cup {e}
  /\ server_timestamp' = [server_timestamp EXCEPT ![e] = ts]
  /\ UNCHANGED <<delivery_state, acked>>

\* The primary key and the references to the envelope and the device row.
\* The caller only logs a violation.
DeliveryRowAllowed(e, d) ==
  /\ <<e, d>> \notin delivery_state
  /\ e \in encrypted_envelopes
  /\ devices[d] # "absent"

AddDeliveryState(e, d) ==
  /\ delivery_state' = IF DeliveryRowAllowed(e, d)
                         THEN delivery_state \cup {<<e, d>>}
                         ELSE delivery_state
  /\ UNCHANGED <<encrypted_envelopes, server_timestamp, acked>>

\* What GET /v1/sync/pending lists for a device.
GetPendingForDevice(d) ==
  {e \in Envelopes : <<e, d>> \in delivery_state \ acked}

MarkAcked(e, d) ==
  /\ <<e, d>> \in delivery_state
  /\ acked' = acked \cup {<<e, d>>}
  /\ UNCHANGED <<encrypted_envelopes, server_timestamp, delivery_state>>

DropRows(rows) ==
  /\ delivery_state' = delivery_state \ rows
  /\ acked' = acked \ rows

DeletePendingDeliveryForUserInConversation(c, u) ==
  /\ DropRows({row \in delivery_state :
                 EnvConv[row[1]] = c /\ Owner[row[2]] = u})
  /\ UNCHANGED <<encrypted_envelopes, server_timestamp>>

Expired(now) ==
  {e \in encrypted_envelopes :
     Retention > 0 /\ server_timestamp[e] + Retention < now}

\* Mutant of DeleteExpired: the delivery rows are forgotten.
DeleteExpiredKeepsRows(now) ==
  /\ encrypted_envelopes' = encrypted_envelopes \ Expired(now)
  /\ UNCHANGED <<server_timestamp, delivery_state, acked>>

\* One transaction: delivery rows first, then the envelopes they refer to.
DeleteExpired(now) ==
  /\ DropRows({row \in delivery_state : row[1] \in Expired(now)})
  /\ encrypted_envelopes' = encrypted_envelopes \ Expired(now)
  /\ UNCHANGED server_timestamp
=============================================================================
