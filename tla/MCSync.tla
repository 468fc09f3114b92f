------------------------------- MODULE MCSync -------------------------------
(* Instances of SyncRecords for TLC: two devices and two records.            *)
EXTENDS SyncRecords

CONSTANTS ca, cb, ra, rb
=============================================================================
