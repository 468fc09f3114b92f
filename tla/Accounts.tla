------------------------------ MODULE Accounts ------------------------------
(***************************************************************************)
(* Account and device identifiers (lib/vox_common/types).  A device row is *)
(* keyed by (user_id, device_id), so one element of Devices stands for one *)
(* DeviceScopeKey and Owner gives its user_id.                             *)
(***************************************************************************)
EXTENDS Naturals

CONSTANTS
  Users,     \* account ids
  Devices,   \* device scope keys
  Owner      \* [Devices -> Users]

ASSUME OwnerAssumption == Owner \in [Devices -> Users]

DevicesOf(u) == {d \in Devices : Owner[d] = u}
=============================================================================
