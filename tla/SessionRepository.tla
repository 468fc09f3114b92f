------------------------- MODULE SessionRepository -------------------------
(***************************************************************************)
(* The table sessions.  A session_id and its two tokens are fresh random   *)
(* values that only that session's device holds, so one element of         *)
(* SessionIds stands for the row and both tokens, and SessionDevice gives  *)
(* the (user_id, device_id) it is stored with.                             *)
(***************************************************************************)
EXTENDS DeviceRepository

CONSTANTS
  SessionIds,
  SessionDevice,     \* [SessionIds -> Devices]
  AccessLifetime,    \* access_lifetime_seconds_
  RefreshLifetime    \* refresh_lifetime_seconds_

ASSUME SessionAssumption ==
  /\ SessionDevice \in [SessionIds -> Devices]
  /\ AccessLifetime \in Nat
  /\ RefreshLifetime \in Nat

VARIABLES
  sessions,     \* [SessionIds -> SessionState]
  created_at    \* [SessionIds -> Nat]

\* Ids are random and never reused: a deleted row does not come back.
SessionState == {"absent", "live", "revoked", "deleted"}

session_vars == <<sessions, created_at>>

SessionsOf(D) == {s \in SessionIds : SessionDevice[s] \in D}

\* The row references a user and a device.
CreateAllowed(s) ==
  /\ devices[SessionDevice[s]] # "absent"
  /\ Owner[SessionDevice[s]] \in users

CreateSession(s, now) ==
  /\ sessions[s] = "absent"
  /\ CreateAllowed(s)
  /\ sessions' = [sessions EXCEPT ![s] = "live"]
  /\ created_at' = [created_at EXCEPT ![s] = now]

\* revoked_at IS NULL; expiry is the caller's business.
FindByToken(s) == sessions[s] = "live"

\* Mutant of RevokeSessions: the rows are marked as expired.
ExpireSessions(S) ==
  /\ sessions' = [s \in SessionIds |->
                    IF s \in S /\ sessions[s] = "live" THEN "expired"
                    ELSE sessions[s]]
  /\ UNCHANGED created_at

RevokeSessions(S) ==
  /\ sessions' = [s \in SessionIds |->
                    IF s \in S /\ sessions[s] = "live" THEN "revoked"
                    ELSE sessions[s]]
  /\ UNCHANGED created_at

\* Mutant of RevokeSession: no test of revoked_at, always succeeds.
RevokeSessionAgain(s) == RevokeSessions({s})

RevokeSession(s) ==
  /\ sessions[s] = "live"
  /\ RevokeSessions({s})

RevokeAllForDevice(d) == RevokeSessions(SessionsOf({d}))

\* DELETE FROM sessions WHERE user_id = ?
DeleteSessions(u) ==
  /\ sessions' = [s \in SessionIds |->
                    IF Owner[SessionDevice[s]] = u /\ sessions[s] # "absent"
                    THEN "deleted"
                    ELSE sessions[s]]
  /\ UNCHANGED created_at
=============================================================================
