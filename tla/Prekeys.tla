------------------------------ MODULE Prekeys ------------------------------
(***************************************************************************)
(* One-time prekeys: the table one_time_prekeys of DeviceRepository, their *)
(* upload by a device and their hand-out in prekey bundles, one device at  *)
(* a time or for all devices of an account in one request.                 *)
(*                                                                         *)
(* prekey_id is chosen by the client and is the primary key on its own, so *)
(* ids of different devices can collide.  Public keys and the signed       *)
(* prekey are opaque columns and left out.                                 *)
(***************************************************************************)
EXTENDS DeviceRepository, FiniteSets

CONSTANTS
  Prekeys,       \* prekey ids
  Batches,       \* SUBSET SUBSET Prekeys: what devices upload in one request
  Fetchers,      \* threads that run GET /v1/users/<id>/prekey-bundles
  FirstDevices   \* SUBSET Devices: devices registered at the start

ASSUME PrekeyAssumption ==
  Batches \subseteq SUBSET Prekeys /\ FirstDevices \subseteq Devices

VARIABLES
  one_time_prekeys,   \* SUBSET (Prekeys \X Devices): rows
  consumed,           \* SUBSET (Prekeys \X Devices): rows with consumed_at set
  fetch,              \* [Fetchers -> {"idle", "list", "bundles"}]
  user,               \* [Fetchers -> SUBSET Users]: whose bundles, at most one
  listed,             \* [Fetchers -> SUBSET Devices]: devices still to visit
  handed,             \* [Prekeys \X Devices -> Nat]: history of hand-outs
  accepted            \* SUBSET (Prekeys \X Devices): history of uploads

fetch_vars == <<fetch, user, listed>>
otp_vars == <<one_time_prekeys, consumed>>
prekey_vars == <<device_vars, otp_vars, fetch_vars, handed, accepted>>

OtpInit ==
  /\ one_time_prekeys = {}
  /\ consumed = {}
  /\ fetch = [w \in Fetchers |-> "idle"]
  /\ user = [w \in Fetchers |-> {}]
  /\ listed = [w \in Fetchers |-> {}]
  /\ handed = [row \in Prekeys \X Devices |-> 0]
  /\ accepted = {}

PrekeyInit ==
  /\ users = {Owner[d] : d \in FirstDevices}
  /\ devices = [d \in Devices |-> IF d \in FirstDevices THEN "active" ELSE "absent"]
  /\ OtpInit

----------------------------------------------------------------------------
RowsOf(D) == {row \in one_time_prekeys : row[2] \in D}

Available(d) == RowsOf({d}) \ consumed

\* The insert of a batch fails as a whole: on the primary key, or on the
\* reference to devices.  A revoked device still has its row.
StoreAllowed(d, batch) ==
  /\ \A row \in one_time_prekeys : row[1] \notin batch
  /\ DeviceFound(d)

\* Mutant of StorePrekeys: INSERT OR REPLACE.
StorePrekeysReplace(d, batch) ==
  LET replaced == {row \in one_time_prekeys : row[1] \in batch}
  IN /\ DeviceFound(d)
     /\ one_time_prekeys' = (one_time_prekeys \ replaced) \cup (batch \X {d})
     /\ consumed' = consumed \ replaced
     /\ accepted' = accepted \cup (batch \X {d})
     /\ UNCHANGED <<device_vars, fetch_vars, handed>>

StorePrekeys(d, batch) ==
  /\ StoreAllowed(d, batch)
  /\ one_time_prekeys' = one_time_prekeys \cup (batch \X {d})
  /\ accepted' = accepted \cup (batch \X {d})
  /\ UNCHANGED <<device_vars, consumed, fetch_vars, handed>>

\* SELECT ... LIMIT 1 has no order: any available key.
ConsumeOneAvailableOtpLocked(d) ==
  \/ \E row \in Available(d) :
       /\ consumed' = consumed \cup {row}
       /\ handed' = [handed EXCEPT ![row] = @ + 1]
  \/ /\ Available(d) = {}
     /\ UNCHANGED <<consumed, handed>>

\* Mutant of GetPrekeyBundle: revoked_at is not looked at.
BundleOfRevoked(d) ==
  /\ DeviceFound(d)
  /\ ConsumeOneAvailableOtpLocked(d)
  /\ UNCHANGED <<device_vars, one_time_prekeys, accepted>>

\* One transaction: the row of the device is read, then a key is consumed.
GetPrekeyBundle(d) ==
  /\ devices[d] = "active"
  /\ ConsumeOneAvailableOtpLocked(d)
  /\ UNCHANGED <<device_vars, one_time_prekeys, accepted>>

\* The two GET .../prekey-bundle routes for one device.
PrekeyBundle(d) == GetPrekeyBundle(d) /\ UNCHANGED fetch_vars

\* RevokeDevice also deletes the keys of the device, consumed or not.
Revoke(d) ==
  /\ RevokeDevice(d)
  /\ one_time_prekeys' = one_time_prekeys \ RowsOf({d})
  /\ consumed' = consumed \ RowsOf({d})
  /\ UNCHANGED <<fetch_vars, handed, accepted>>

\* AdminService::DeleteUser.
OwnerDeleted(u) ==
  /\ u \in users
  /\ users' = users \ {u}
  /\ devices' = [d \in Devices |-> IF Owner[d] = u THEN "absent" ELSE devices[d]]
  /\ one_time_prekeys' = one_time_prekeys \ RowsOf(DevicesOf(u))
  /\ consumed' = consumed \ RowsOf(DevicesOf(u))
  /\ UNCHANGED <<fetch_vars, handed, accepted>>

DeviceRegistered(d) ==
  /\ RegisterDevice(d)
  /\ UNCHANGED <<otp_vars, fetch_vars, handed, accepted>>

----------------------------------------------------------------------------
(* GET /v1/users/<id>/prekey-bundles: FindById, GetDevicesForUser, then    *)
(* GetPrekeyBundle for every device that was not revoked when listed.      *)

BundlesBegin(w, u) ==
  /\ fetch[w] = "idle"
  /\ u \in users
  /\ fetch' = [fetch EXCEPT ![w] = "list"]
  /\ user' = [user EXCEPT ![w] = {u}]
  /\ UNCHANGED <<device_vars, otp_vars, listed, handed, accepted>>

BundlesList(w) ==
  /\ fetch[w] = "list"
  /\ fetch' = [fetch EXCEPT ![w] = "bundles"]
  /\ listed' = [listed EXCEPT ![w] =
       UNION {{d \in GetDevicesForUser(u) : devices[d] # "revoked"} : u \in user[w]}]
  /\ UNCHANGED <<device_vars, otp_vars, user, handed, accepted>>

\* A device that was revoked or deleted since is passed over.
BundlesNext(w) ==
  /\ fetch[w] = "bundles"
  /\ \E d \in listed[w] :
       /\ listed' = [listed EXCEPT ![w] = @ \ {d}]
       /\ \/ GetPrekeyBundle(d)
          \/ /\ devices[d] # "active"
             /\ UNCHANGED <<device_vars, otp_vars, handed, accepted>>
  /\ UNCHANGED <<fetch, user>>

BundlesDone(w) ==
  /\ fetch[w] = "bundles"
  /\ listed[w] = {}
  /\ fetch' = [fetch EXCEPT ![w] = "idle"]
  /\ user' = [user EXCEPT ![w] = {}]
  /\ UNCHANGED <<device_vars, otp_vars, listed, handed, accepted>>

\* POST /v1/users/{uid}/devices/{id}/prekeys, by the device's own session.
PublishPrekeys(d) == \E batch \in Batches : StorePrekeys(d, batch)

PrekeyNext ==
  \/ \E d \in Devices :
       \/ PublishPrekeys(d)
       \/ PrekeyBundle(d)
       \/ Revoke(d)
       \/ DeviceRegistered(d)
  \/ \E u \in Users : OwnerDeleted(u)
  \/ \E w \in Fetchers :
       \/ \E u \in Users : BundlesBegin(w, u)
       \/ BundlesList(w)
       \/ BundlesNext(w)
       \/ BundlesDone(w)

PrekeySpec == PrekeyInit /\ [][PrekeyNext]_prekey_vars

----------------------------------------------------------------------------
\* Types of the table, of what handlers remember and of the history.
PrekeyTypeOK ==
  /\ DeviceTypeOK
  /\ one_time_prekeys \subseteq Prekeys \X Devices
  /\ consumed \subseteq one_time_prekeys
  /\ fetch \in [Fetchers -> {"idle", "list", "bundles"}]
  /\ user \in [Fetchers -> SUBSET Users]
  /\ listed \in [Fetchers -> SUBSET Devices]
  /\ handed \in [Prekeys \X Devices -> Nat]
  /\ accepted \subseteq Prekeys \X Devices

\* A one-time prekey is used once: whatever uploads, repeated uploads,
\* concurrent bundle requests, revocations and re-registrations happen, no key
\* of a device is handed out by GetPrekeyBundle a second time.  And none is lost:
\* while a device is active every key it uploaded with a 200 is in the table,
\* consumed exactly if it was handed out, although another device may upload
\* the same prekey_id.
HandedOnce ==
  /\ \A row \in Prekeys \X Devices : handed[row] <= 1
  /\ \A row \in accepted :
       devices[row[2]] = "active" =>
         /\ row \in one_time_prekeys
         /\ row \in consumed <=> handed[row] > 0

\* What a step hands out is no key of a device revoked before it.
SilentStep ==
  \A row \in Prekeys \X Devices :
    devices[row[2]] = "revoked" => handed'[row] = handed[row]

\* From its revocation on a device's keys are handed to nobody, also by a
\* request that had listed the device before, and also keys that a request
\* under way when the device was revoked uploads afterwards.
RevokedSilent == [][SilentStep]_prekey_vars
=============================================================================
