------------------------------ MODULE Sessions ------------------------------
(***************************************************************************)
(* Sessions and the handlers that issue, rotate and revoke them:           *)
(* AuthService::Register, Login, Refresh and Logout over TokenManager,     *)
(* DELETE /v1/me/devices/{id}, and AdminService::DeleteUser.               *)
(*                                                                         *)
(* A handler runs on a storage_pool thread and interleaves with the others *)
(* between two store calls.  The session of an authenticated request was   *)
(* validated earlier, on a network thread.  A crash loses the handlers in  *)
(* progress and keeps the tables.                                          *)
(***************************************************************************)
EXTENDS SessionRepository, UserRepository, FiniteSets

CONSTANTS
  Workers,         \* threads of storage_pool
  LoginDevices,    \* devices that log in
  InitUsers,       \* accounts registered at the start
  InitDevices,     \* devices registered at the start
  InitSessions,    \* sessions live at the start, each from its own login
  Deletable,       \* users the administrator may delete
  MaxClock,        \* bound on the clock, in seconds
  MaxCrashes       \* bound on crashes

ASSUME SessionsAssumption ==
  /\ LoginDevices \subseteq Devices
  /\ InitUsers \subseteq Users
  /\ \A u, v \in InitUsers : Username[u] = Username[v] => u = v
  /\ InitDevices \subseteq {d \in Devices : Owner[d] \in InitUsers}
  /\ InitSessions \subseteq SessionsOf(InitDevices)
  /\ Deletable \subseteq Users
  /\ MaxClock \in Nat
  /\ MaxCrashes \in Nat

VARIABLES
  pc,        \* [Workers -> label of the next store call]
  job,       \* [Workers -> what the handler was asked and has looked up]
  clock,     \* wall clock
  crashes,   \* crashes so far
  root,      \* history: [SessionIds -> the session of the login it stems from]
  struck,    \* history: devices whose row has been revoked
  used_ids   \* user ids given out; GenerateUuid never repeats one

vars == <<device_vars, session_vars, pc, job, clock, crashes, root, struck, used_ids>>

Labels == {"idle", "create", "find", "register", "issue", "rotate", "revoke_device",
           "revoke_sessions", "logout"}

NoJob == [op |-> "none"]

\* from is the session being refreshed; a login has none.
LoginJob == [op : {"login"}, device : Devices, now : Nat]
RegisterJob == [op : {"register"}, device : Devices, now : Nat]
RefreshJob == [op : {"refresh"}, device : Devices, from : SessionIds, now : Nat]
RevokeJob == [op : {"revoke"}, device : Devices]
LogoutJob == [op : {"logout"}, from : SessionIds]

Job == LoginJob \cup RegisterJob \cup RefreshJob \cup RevokeJob \cup LogoutJob
         \cup {NoJob}

HandlersInit ==
  /\ sessions = [s \in SessionIds |-> IF s \in InitSessions THEN "live" ELSE "absent"]
  /\ created_at = [s \in SessionIds |-> 0]
  /\ pc = [w \in Workers |-> "idle"]
  /\ job = [w \in Workers |-> NoJob]
  /\ clock = 0
  /\ crashes = 0
  /\ root = [s \in SessionIds |-> s]
  /\ struck = {}

Init ==
  /\ users = InitUsers
  /\ devices = [d \in Devices |-> IF d \in InitDevices THEN "active" ELSE "absent"]
  /\ used_ids = InitUsers
  /\ HandlersInit

----------------------------------------------------------------------------
Goto(w, label) == pc' = [pc EXCEPT ![w] = label]

Begin(w, j, label) ==
  /\ pc[w] = "idle"
  /\ job' = [job EXCEPT ![w] = j]
  /\ Goto(w, label)
  /\ UNCHANGED <<device_vars, session_vars, clock, crashes, root, struck>>

Return(w) ==
  /\ Goto(w, "idle")
  /\ job' = [job EXCEPT ![w] = NoJob]
  /\ UNCHANGED <<clock, crashes, used_ids>>

Proceed(w, label) ==
  /\ Goto(w, label)
  /\ UNCHANGED <<job, clock, crashes, used_ids>>

\* Bound: handlers start only while ids are left for the sessions they issue.
IdLeft(d) ==
  Cardinality({w \in Workers : pc[w] \in {"create", "find", "register", "rotate", "issue"}
                                /\ job[w].device = d})
    < Cardinality({s \in SessionsOf({d}) : sessions[s] = "absent"})

ValidateAccessToken(s) ==
  /\ FindByToken(s)
  /\ created_at[s] + AccessLifetime > clock

----------------------------------------------------------------------------
(* AuthService::Register: the name is free, then the password is hashed on *)
(* cpu_pool, then user, device and session are created.                    *)

RegisterBegin(w, d) ==
  /\ FindByUsername(Username[Owner[d]]) = {}
  /\ Owner[d] \notin used_ids
  /\ used_ids' = used_ids \cup {Owner[d]}
  /\ IdLeft(d)
  /\ Begin(w, [op |-> "register", device |-> d, now |-> clock], "create")

RegisterCreate(w) ==
  /\ pc[w] = "create"
  /\ CreateUser(Owner[job[w].device])
  /\ job' = [job EXCEPT ![w] = [op |-> "register", device |-> job[w].device, now |-> clock]]
  /\ Goto(w, "register")
  /\ UNCHANGED <<session_vars, clock, crashes, root, struck, used_ids>>

\* Another registration of the name came first.
RegisterCreateFails(w) ==
  /\ pc[w] = "create"
  /\ FindByUsername(Username[Owner[job[w].device]]) # {}
  /\ Return(w)
  /\ UNCHANGED <<device_vars, session_vars, root, struck>>

----------------------------------------------------------------------------
(* AuthService::Login: the account is found, not disabled, the password    *)
(* verified on cpu_pool.                                                   *)

LoginBegin(w, d) ==
  /\ Owner[d] \in users
  /\ IdLeft(d)
  /\ Begin(w, [op |-> "login", device |-> d, now |-> 0], "find")
  /\ UNCHANGED used_ids

\* The password is verified: Now(), and FindByUserAndDevice, which does not look
\* at revoked_at.
LoginFind(w) ==
  /\ pc[w] = "find"
  /\ job' = [job EXCEPT ![w] = [op |-> "login", device |-> job[w].device, now |-> clock]]
  /\ Goto(w, IF DeviceFound(job[w].device) THEN "issue" ELSE "register")
  /\ UNCHANGED <<device_vars, session_vars, clock, crashes, root, struck, used_ids>>

\* A request for a new device that leaves out one of its keys.
LoginIncomplete(w) ==
  /\ pc[w] = "find"
  /\ ~ DeviceFound(job[w].device)
  /\ Return(w)
  /\ UNCHANGED <<device_vars, session_vars, root, struck>>

\* RegisterDevice, for Login and for Register.
LoginRegister(w) ==
  /\ pc[w] = "register"
  /\ RegisterDevice(job[w].device)
  /\ Proceed(w, "issue")
  /\ UNCHANGED <<session_vars, root, struck>>

LoginRegisterFails(w) ==
  /\ pc[w] = "register"
  /\ ~ RegisterAllowed(job[w].device)
  /\ Return(w)
  /\ UNCHANGED <<device_vars, session_vars, root, struck>>

\* TokenManager::IssueTokens, the last step of Register, Login and RefreshTokens;
\* UpdateLastSeen changes nothing that is modelled.
IssueTokens(w) ==
  /\ pc[w] = "issue"
  /\ \E s \in SessionIds :
       /\ SessionDevice[s] = job[w].device
       /\ CreateSession(s, job[w].now)
       /\ root' = [root EXCEPT ![s] =
                     IF job[w].op = "refresh" THEN root[job[w].from] ELSE s]
  /\ Return(w)
  /\ UNCHANGED <<device_vars, struck>>

IssueTokensFails(w) ==
  /\ pc[w] = "issue"
  /\ devices[job[w].device] = "absent" \/ Owner[job[w].device] \notin users
  /\ Return(w)
  /\ UNCHANGED <<device_vars, session_vars, root, struck>>

----------------------------------------------------------------------------
(* TokenManager::RefreshTokens: look up, check expiry, revoke, issue. *)

RefreshBegin(w, s) ==
  /\ FindByToken(s)
  /\ created_at[s] + RefreshLifetime > clock
  /\ IdLeft(SessionDevice[s])
  /\ Begin(w, [op |-> "refresh", device |-> SessionDevice[s], from |-> s,
               now |-> clock], "rotate")
  /\ UNCHANGED used_ids

RefreshRotate(w) ==
  /\ pc[w] = "rotate"
  /\ RevokeSession(job[w].from)
  /\ Proceed(w, "issue")
  /\ UNCHANGED <<device_vars, root, struck>>

\* Another refresh, a logout or a revocation came first.
RefreshRotateFails(w) ==
  /\ pc[w] = "rotate"
  /\ sessions[job[w].from] # "live"
  /\ Return(w)
  /\ UNCHANGED <<device_vars, session_vars, root, struck>>

----------------------------------------------------------------------------
(* DELETE /v1/me/devices/{id}: never the device of the caller's session.   *)
(* The handler looks the row up and then calls RevokeDevice, which fails   *)
(* on every row the look-up fails on: one step stands for both.            *)

RevokeDeviceBegin(w, s, d) ==
  /\ ValidateAccessToken(s)
  /\ Owner[SessionDevice[s]] = Owner[d]
  /\ SessionDevice[s] # d
  /\ Begin(w, [op |-> "revoke", device |-> d], "revoke_device")
  /\ UNCHANGED used_ids

RevokeDeviceRow(w) ==
  /\ pc[w] = "revoke_device"
  /\ RevokeDevice(job[w].device)
  /\ struck' = struck \cup {job[w].device}
  /\ Proceed(w, "revoke_sessions")
  /\ UNCHANGED <<session_vars, root>>

RevokeDeviceRowFails(w) ==
  /\ pc[w] = "revoke_device"
  /\ devices[job[w].device] # "active"
  /\ Return(w)
  /\ UNCHANGED <<device_vars, session_vars, root, struck>>

RevokeDeviceSessions(w) ==
  /\ pc[w] = "revoke_sessions"
  /\ RevokeAllForDevice(job[w].device)
  /\ Return(w)
  /\ UNCHANGED <<device_vars, root, struck>>

(* POST /v1/logout *)

LogoutBegin(w, s) ==
  /\ ValidateAccessToken(s)
  /\ Begin(w, [op |-> "logout", from |-> s], "logout")
  /\ UNCHANGED used_ids

LogoutRevoke(w) ==
  /\ pc[w] = "logout"
  /\ IF sessions[job[w].from] = "live" THEN RevokeSession(job[w].from)
     ELSE UNCHANGED session_vars
  /\ Return(w)
  /\ UNCHANGED <<device_vars, root, struck>>

----------------------------------------------------------------------------
(* AdminService::DeleteUser, one transaction. *)
DeleteUser(u) ==
  /\ u \in users
  /\ users' = users \ {u}
  /\ devices' = [d \in Devices |-> IF Owner[d] = u THEN "absent" ELSE devices[d]]
  /\ DeleteSessions(u)
  /\ UNCHANGED <<pc, job, clock, crashes, root, struck, used_ids>>

Tick ==
  /\ clock < MaxClock
  /\ clock' = clock + 1
  /\ UNCHANGED <<device_vars, session_vars, pc, job, crashes, root, struck, used_ids>>

Crash ==
  /\ crashes < MaxCrashes
  /\ crashes' = crashes + 1
  /\ pc' = [w \in Workers |-> "idle"]
  /\ job' = [w \in Workers |-> NoJob]
  /\ UNCHANGED <<device_vars, session_vars, clock, root, struck, used_ids>>

----------------------------------------------------------------------------
Register(w) ==
  \/ \E d \in LoginDevices : RegisterBegin(w, d)
  \/ RegisterCreate(w) \/ RegisterCreateFails(w)

Login(w) ==
  \/ \E d \in LoginDevices : LoginBegin(w, d)
  \/ LoginFind(w) \/ LoginIncomplete(w) \/ LoginRegister(w) \/ LoginRegisterFails(w)

Refresh(w) ==
  \/ \E s \in SessionIds : RefreshBegin(w, s)
  \/ RefreshRotate(w) \/ RefreshRotateFails(w)

Issue(w) == IssueTokens(w) \/ IssueTokensFails(w)

RevokeDeviceHandler(w) ==
  \/ \E s \in SessionIds, d \in Devices : RevokeDeviceBegin(w, s, d)
  \/ RevokeDeviceRow(w) \/ RevokeDeviceRowFails(w) \/ RevokeDeviceSessions(w)

Logout(w) == (\E s \in SessionIds : LogoutBegin(w, s)) \/ LogoutRevoke(w)

Next ==
  \/ \E w \in Workers :
       \/ Register(w) \/ Login(w) \/ Refresh(w)
       \/ Issue(w) \/ RevokeDeviceHandler(w) \/ Logout(w)
  \/ \E u \in Deletable : DeleteUser(u)
  \/ Tick
  \/ Crash

Spec == Init /\ [][Next]_vars

----------------------------------------------------------------------------
\* Types of the session table, the handlers and the history.
TypeOK ==
  /\ DeviceTypeOK
  /\ sessions \in [SessionIds -> SessionState]
  /\ created_at \in [SessionIds -> Nat]
  /\ pc \in [Workers -> Labels]
  /\ job \in [Workers -> Job]
  /\ clock \in Nat
  /\ crashes \in Nat
  /\ root \in [SessionIds -> SessionIds]
  /\ struck \subseteq Devices
  /\ used_ids \subseteq Users

Live(s) == sessions[s] = "live"

\* Rotation: of all the sessions that stem from one login by way of refresh,
\* at most one is live.  Two refreshes of the same token may both pass the
\* look-up in RefreshTokens; only one gets past RevokeSession.
OneLivePerLogin ==
  \A s, t \in SessionIds : Live(s) /\ Live(t) /\ root[s] = root[t] => s = t

\* The tables reference each other: a session, live or revoked, has its device
\* and its user, also while DeleteUser races with a login or a refresh.
SessionsRefer ==
  \A s \in SessionIds : sessions[s] \in {"live", "revoked"} =>
    devices[SessionDevice[s]] # "absent" /\ Owner[SessionDevice[s]] \in users

\* Names are unique up to case, although Register looks the name up long before
\* it inserts the row.
UsernameUnique == \A u, v \in users : Username[u] = Username[v] => u = v

\* A revoked device is never active again, although Login registers a device
\* that its look-up did not find.
RevokedForever == \A d \in struck : devices[d] # "active"

\* What Register, Login, Refresh, RevokeDevice and DeleteUser leave in the tables
\* fits together, although each is several store calls and may crash between
\* two: references, unique names, and revocations that stay.
TablesConsistent == SessionsRefer /\ UsernameUnique /\ RevokedForever
=============================================================================
