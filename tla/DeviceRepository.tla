-------------------------- MODULE DeviceRepository --------------------------
(***************************************************************************)
(* The tables users and devices, as far as message relay reads them.       *)
(* revoked_at is never cleared: a row goes from absent to active to        *)
(* revoked, and AdminService::DeleteUser removes it.                       *)
(***************************************************************************)
EXTENDS Accounts

VARIABLES
  users,    \* SUBSET Users: rows of users
  devices   \* [Devices -> {"absent", "active", "revoked"}]

device_vars == <<users, devices>>

DeviceTypeOK ==
  /\ users \subseteq Users
  /\ devices \in [Devices -> {"absent", "active", "revoked"}]

\* Revoked rows are listed too; callers look at revoked_at.
GetDevicesForUser(u) == {d \in DevicesOf(u) : devices[d] # "absent"}

\* FindByUserAndDevice finds a row whether or not it is revoked.
DeviceFound(d) == devices[d] # "absent"

\* The insert fails on the primary key and on the reference to users.
RegisterAllowed(d) == devices[d] = "absent" /\ Owner[d] \in users

RegisterDevice(d) ==
  /\ RegisterAllowed(d)
  /\ devices' = [devices EXCEPT ![d] = "active"]
  /\ UNCHANGED users

RevokeDevice(d) ==
  /\ devices[d] = "active"
  /\ devices' = [devices EXCEPT ![d] = "revoked"]
  /\ UNCHANGED users
=============================================================================
