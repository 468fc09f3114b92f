--------------------------- MODULE AccountProofs ---------------------------
(***************************************************************************)
(* What belongs to an account.                                             *)
(*                                                                         *)
(* Sessions: rotation of tokens and the tables they refer to, for any      *)
(* number of accounts, devices, threads and crashes.  One-time prekeys:    *)
(* handed out once, for any keys, devices and batches.  The key bundle: it *)
(* fits the password, for any number of changes and uploads at once.       *)
(***************************************************************************)
EXTENDS Sessions, Prekeys, KeyBundle, TLAPS

\* The prover of every leaf that names none.
USE Zenon

\* A handler's job fits the call it is about to make.
JobFits(w) ==
  /\ pc[w] = "create" => job[w] \in RegisterJob
  /\ pc[w] = "find" => job[w] \in LoginJob
  /\ pc[w] = "register" => job[w] \in LoginJob \cup RegisterJob
  /\ pc[w] = "issue" => job[w] \in LoginJob \cup RegisterJob \cup RefreshJob
  /\ pc[w] = "rotate" => job[w] \in RefreshJob
  /\ pc[w] \in {"revoke_device", "revoke_sessions"} => job[w] \in RevokeJob
  /\ pc[w] = "logout" => job[w] \in LogoutJob

TypeInv == TypeOK /\ \A w \in Workers : JobFits(w)

\* A handler that has revoked a session and not yet issued its successor.
Rotating(w) == pc[w] = "issue" /\ job[w].op = "refresh"

Refreshing(w) == pc[w] \in {"rotate", "issue"} /\ job[w].op = "refresh"

\* A session that was not issued yet is nobody's origin.
RootInv ==
  \A t \in SessionIds : root[t] = t \/ (sessions[t] # "absent" /\ sessions[root[t]] # "absent")

FromInv == \A w \in Workers : Refreshing(w) => sessions[job[w].from] # "absent"

\* While its successor is being issued a login has no live session, and no
\* other handler issues one.
RotatingInv ==
  /\ \A w \in Workers, s \in SessionIds :
       Rotating(w) /\ Live(s) => root[s] # root[job[w].from]
  /\ \A v, w \in Workers :
       Rotating(v) /\ Rotating(w) /\ root[job[v].from] = root[job[w].from] => v = w

RotationInv == RootInv /\ FromInv /\ RotatingInv /\ OneLivePerLogin

\* A revoked row stays revoked until DeleteUser removes it with its user.
StruckInv ==
  \A d \in struck : devices[d] = "revoked" \/ (devices[d] = "absent" /\ Owner[d] \notin users)

\* The user id of a registration that has not inserted its row yet.
NewId(w) == Owner[job[w].device]

\* Such an id is in no row and belongs to one registration only.
FreshInv ==
  /\ users \subseteq used_ids
  /\ \A d \in Devices : devices[d] # "absent" => Owner[d] \in users
  /\ \A d \in struck : Owner[d] \in used_ids
  /\ \A w \in Workers : pc[w] = "create" =>
       /\ NewId(w) \in used_ids \ users
       /\ \A d \in struck : Owner[d] # NewId(w)
  /\ \A v, w \in Workers :
       pc[v] = "create" /\ pc[w] = "create" /\ NewId(v) = NewId(w) => v = w

TableInv == SessionsRefer /\ StruckInv /\ FreshInv /\ UsernameUnique

SessionInv == TypeInv /\ RotationInv /\ TableInv

(* The first step of a handler. *)
LEMMA BeginType ==
  ASSUME TypeInv, NEW w \in Workers, NEW j \in Job, NEW l \in Labels, Begin(w, j, l),
         used_ids' \subseteq Users,
         \/ l = "create" /\ j \in RegisterJob
         \/ l = "find" /\ j \in LoginJob
         \/ l = "rotate" /\ j \in RefreshJob
         \/ l = "revoke_device" /\ j \in RevokeJob
         \/ l = "logout" /\ j \in LogoutJob
  PROVE  TypeInv'
<1>1. TypeOK'
  BY DEF Begin, Goto, TypeInv, TypeOK, device_vars, session_vars, DeviceTypeOK
<1>2. ASSUME NEW v \in Workers PROVE JobFits(v)'
  BY DEF Begin, Goto, TypeInv, TypeOK, JobFits
<1> QED BY <1>1, <1>2 DEF TypeInv

(* The last step of a handler. *)
LEMMA ReturnType ==
  ASSUME TypeInv, NEW w \in Workers, Return(w)
  PROVE  /\ pc' \in [Workers -> Labels] /\ job' \in [Workers -> Job]
         /\ \A v \in Workers : JobFits(v)'
BY DEF Return, Goto, TypeInv, TypeOK, JobFits, Labels, Job

(* A step from one store call to the next. *)
LEMMA ProceedType ==
  ASSUME TypeInv, NEW w \in Workers, NEW l \in Labels, Proceed(w, l),
         \/ pc[w] = "find" /\ l \in {"issue", "register"}
         \/ pc[w] = "register" /\ l = "issue"
         \/ pc[w] = "rotate" /\ l = "issue"
         \/ pc[w] = "revoke_device" /\ l = "revoke_sessions"
  PROVE  /\ pc' \in [Workers -> Labels] /\ job' \in [Workers -> Job]
         /\ \A v \in Workers : JobFits(v)'
<1>1. pc' \in [Workers -> Labels] /\ job' = job
  BY DEF Proceed, Goto, TypeInv, TypeOK
<1>2. ASSUME NEW v \in Workers PROVE JobFits(v)'
  BY <1>1 DEF Proceed, Goto, TypeInv, TypeOK, JobFits
<1> QED BY <1>1, <1>2 DEF TypeInv, TypeOK

(* Revoking sessions keeps the type of the table. *)
LEMMA RevokeType ==
  ASSUME TypeInv, NEW S, RevokeSessions(S)
  PROVE  sessions' \in [SessionIds -> SessionState] /\ created_at' = created_at
BY DEF RevokeSessions, TypeInv, TypeOK, SessionState

(* Every step keeps the types. *)
LEMMA TypeStep ==
  ASSUME TypeInv, [Next]_vars
  PROVE  TypeInv'
<1> USE SessionsAssumption, SessionAssumption, OwnerAssumption
<1>1. ASSUME NEW w \in Workers, Login(w) PROVE TypeInv'
  <2>1. CASE \E d \in LoginDevices : LoginBegin(w, d)
    <3>1. PICK d \in Devices : LoginBegin(w, d)
      BY <2>1
    <3>2. [op |-> "login", device |-> d, now |-> 0] \in LoginJob
      BY SMT DEF LoginJob
    <3>3. used_ids' \subseteq Users
      BY <3>1 DEF LoginBegin, TypeInv, TypeOK
    <3> QED BY <3>1, <3>2, <3>3, BeginType DEF LoginBegin, Job, Labels
  <2>2. CASE LoginFind(w)
    <3>1. job[w].device \in Devices
      BY <2>2 DEF LoginFind, TypeInv, JobFits, LoginJob
    <3>2. [op |-> "login", device |-> job[w].device, now |-> clock] \in LoginJob
      BY <3>1 DEF LoginJob, TypeInv, TypeOK
    <3>3. /\ job' = [job EXCEPT ![w] = [op |-> "login", device |-> job[w].device, now |-> clock]]
          /\ pc' = [pc EXCEPT ![w] = IF DeviceFound(job[w].device) THEN "issue" ELSE "register"]
      BY <2>2 DEF LoginFind, Goto
    <3>4. pc' \in [Workers -> Labels] /\ job' \in [Workers -> Job]
      BY <3>2, <3>3 DEF TypeInv, TypeOK, Labels, Job
    <3>5. ASSUME NEW v \in Workers PROVE JobFits(v)'
      BY <3>2, <3>3 DEF TypeInv, TypeOK, JobFits
    <3> QED BY <2>2, <3>4, <3>5 DEF LoginFind, TypeInv, TypeOK, device_vars, session_vars,
         DeviceTypeOK
  <2>3. CASE LoginRegister(w)
    <3>1. job[w].device \in Devices
      BY <2>3 DEF LoginRegister, TypeInv, JobFits, LoginJob, RegisterJob
    <3> QED BY <2>3, <3>1, ProceedType DEF LoginRegister, RegisterDevice, TypeInv, TypeOK,
       session_vars, DeviceTypeOK, Proceed, Labels
  <2>4. CASE LoginRegisterFails(w) \/ LoginIncomplete(w)
    BY <2>4, ReturnType DEF LoginRegisterFails, LoginIncomplete, TypeInv, TypeOK, device_vars,
       session_vars,
       DeviceTypeOK, Return
  <2> QED BY <1>1, <2>1, <2>2, <2>3, <2>4 DEF Login
<1>2. ASSUME NEW w \in Workers, Refresh(w) PROVE TypeInv'
  <2>1. CASE \E s \in SessionIds : RefreshBegin(w, s)
    <3>1. PICK s \in SessionIds : RefreshBegin(w, s)
      BY <2>1
    <3>2. [op |-> "refresh", device |-> SessionDevice[s], from |-> s, now |-> clock]
            \in RefreshJob
      BY DEF RefreshJob, TypeInv, TypeOK
    <3>3. used_ids' \subseteq Users
      BY <3>1 DEF RefreshBegin, TypeInv, TypeOK
    <3> QED BY <3>1, <3>2, <3>3, BeginType DEF RefreshBegin, Job, Labels
  <2>2. CASE RefreshRotate(w)
    BY <2>2, ProceedType, RevokeType DEF RefreshRotate, RevokeSession, TypeInv, TypeOK,
       device_vars, DeviceTypeOK, Proceed, Labels
  <2>3. CASE RefreshRotateFails(w)
    BY <2>3, ReturnType DEF RefreshRotateFails, TypeInv, TypeOK, device_vars, session_vars,
       DeviceTypeOK, Return
  <2> QED BY <1>2, <2>1, <2>2, <2>3 DEF Refresh
<1>3. ASSUME NEW w \in Workers, Issue(w) PROVE TypeInv'
  <2>1. CASE IssueTokens(w)
    <3>1. PICK s \in SessionIds :
            /\ CreateSession(s, job[w].now)
            /\ root' = [root EXCEPT ![s] =
                          IF job[w].op = "refresh" THEN root[job[w].from] ELSE s]
      BY <2>1 DEF IssueTokens
    <3>2. job[w].now \in Nat /\ (job[w].op = "refresh" => job[w].from \in SessionIds)
      BY <2>1 DEF IssueTokens, TypeInv, JobFits, LoginJob, RefreshJob, RegisterJob
    <3>3. sessions' \in [SessionIds -> SessionState] /\ created_at' \in [SessionIds -> Nat]
      BY <3>1, <3>2 DEF CreateSession, TypeInv, TypeOK, SessionState
    <3>4. root' \in [SessionIds -> SessionIds]
      BY <3>1, <3>2 DEF TypeInv, TypeOK
    <3> QED BY <2>1, <3>3, <3>4, ReturnType DEF IssueTokens, TypeInv, TypeOK, device_vars,
       DeviceTypeOK, Return
  <2>2. CASE IssueTokensFails(w)
    BY <2>2, ReturnType DEF IssueTokensFails, TypeInv, TypeOK, device_vars, session_vars,
       DeviceTypeOK, Return
  <2> QED BY <1>3, <2>1, <2>2 DEF Issue
<1>4. ASSUME NEW w \in Workers, RevokeDeviceHandler(w) PROVE TypeInv'
  <2>1. CASE \E s \in SessionIds, d \in Devices : RevokeDeviceBegin(w, s, d)
    <3>1. PICK s \in SessionIds, d \in Devices : RevokeDeviceBegin(w, s, d)
      BY <2>1
    <3>2. [op |-> "revoke", device |-> d] \in RevokeJob
      BY DEF RevokeJob
    <3>3. used_ids' \subseteq Users
      BY <3>1 DEF RevokeDeviceBegin, TypeInv, TypeOK
    <3> QED BY <3>1, <3>2, <3>3, BeginType DEF RevokeDeviceBegin, Job, Labels
  <2>2. CASE RevokeDeviceRow(w)
    <3>1. job[w].device \in Devices
      BY <2>2 DEF RevokeDeviceRow, TypeInv, JobFits, RevokeJob
    <3> QED BY <2>2, <3>1, ProceedType DEF RevokeDeviceRow, RevokeDevice, TypeInv, TypeOK,
       session_vars, DeviceTypeOK, Proceed, Labels
  <2>3. CASE RevokeDeviceRowFails(w)
    BY <2>3, ReturnType DEF RevokeDeviceRowFails, TypeInv, TypeOK, device_vars,
       session_vars, DeviceTypeOK, Return
  <2>4. CASE RevokeDeviceSessions(w)
    <3>1. job[w].device \in Devices
      BY <2>4 DEF RevokeDeviceSessions, TypeInv, JobFits, RevokeJob
    <3> QED BY <2>4, <3>1, ReturnType, RevokeType DEF RevokeDeviceSessions,
       RevokeAllForDevice, TypeInv, TypeOK, device_vars, DeviceTypeOK, Return
  <2> QED BY <1>4, <2>1, <2>2, <2>3, <2>4 DEF RevokeDeviceHandler
<1>5. ASSUME NEW w \in Workers, Logout(w) PROVE TypeInv'
  <2>1. CASE \E s \in SessionIds : LogoutBegin(w, s)
    <3>1. PICK s \in SessionIds : LogoutBegin(w, s)
      BY <2>1
    <3>2. [op |-> "logout", from |-> s] \in LogoutJob
      BY DEF LogoutJob
    <3>3. used_ids' \subseteq Users
      BY <3>1 DEF LogoutBegin, TypeInv, TypeOK
    <3> QED BY <3>1, <3>2, <3>3, BeginType DEF LogoutBegin, Job, Labels
  <2>2. CASE LogoutRevoke(w)
    <3>1. sessions' \in [SessionIds -> SessionState] /\ created_at' = created_at
      BY <2>2, RevokeType DEF LogoutRevoke, RevokeSession, session_vars, TypeInv, TypeOK
    <3> QED BY <2>2, <3>1, ReturnType DEF LogoutRevoke, TypeInv, TypeOK, device_vars,
       DeviceTypeOK, Return
  <2> QED BY <1>5, <2>1, <2>2 DEF Logout
<1>6. ASSUME NEW u \in Users, DeleteUser(u) PROVE TypeInv'
  BY <1>6 DEF DeleteUser, DeleteSessions, TypeInv, TypeOK, DeviceTypeOK, SessionState, JobFits
<1>7. ASSUME Tick \/ Crash \/ UNCHANGED vars PROVE TypeInv'
  BY <1>7, SMT DEF Tick, Crash, vars, TypeInv, TypeOK, device_vars, session_vars, DeviceTypeOK,
     JobFits, Labels, Job
<1>8. ASSUME NEW w \in Workers, Register(w) PROVE TypeInv'
  <2>1. CASE \E d \in LoginDevices : RegisterBegin(w, d)
    <3>1. PICK d \in Devices : RegisterBegin(w, d)
      BY <2>1
    <3>2. [op |-> "register", device |-> d, now |-> clock] \in RegisterJob
      BY DEF RegisterJob, TypeInv, TypeOK
    <3>3. used_ids' \subseteq Users
      BY <3>1 DEF RegisterBegin, TypeInv, TypeOK
    <3> QED BY <3>1, <3>2, <3>3, BeginType DEF RegisterBegin, Job, Labels
  <2>2. CASE RegisterCreate(w)
    <3>1. job[w] \in RegisterJob
      BY <2>2 DEF RegisterCreate, TypeInv, JobFits
    <3>2. [op |-> "register", device |-> job[w].device, now |-> clock] \in RegisterJob
      BY <3>1 DEF RegisterJob, TypeInv, TypeOK
    <3>3. job' = [job EXCEPT ![w] =
                    [op |-> "register", device |-> job[w].device, now |-> clock]]
      BY <2>2 DEF RegisterCreate
    <3>4. job' \in [Workers -> Job] /\ job'[w] \in RegisterJob
          /\ \A v \in Workers : v # w => job'[v] = job[v]
      BY <3>2, <3>3 DEF TypeInv, TypeOK, Job
    <3>5. pc' \in [Workers -> Labels] /\ pc'[w] = "register"
          /\ \A v \in Workers : v # w => pc'[v] = pc[v]
      BY <2>2 DEF RegisterCreate, Goto, TypeInv, TypeOK, Labels
    <3>6. \A v \in Workers : JobFits(v)'
      BY <3>4, <3>5 DEF JobFits, TypeInv
    <3>7. DeviceTypeOK'
      BY <2>2, <3>1, SMT DEF RegisterCreate, CreateUser, TypeInv, TypeOK, DeviceTypeOK, RegisterJob
    <3> QED BY <2>2, <3>4, <3>5, <3>6, <3>7 DEF RegisterCreate, TypeInv, TypeOK, session_vars
  <2>3. CASE RegisterCreateFails(w)
    BY <2>3, ReturnType DEF RegisterCreateFails, TypeInv, TypeOK, device_vars, session_vars,
       DeviceTypeOK, Return
  <2> QED BY <1>8, <2>1, <2>2, <2>3 DEF Register
<1> QED BY <1>1, <1>2, <1>3, <1>4, <1>5, <1>6, <1>7, <1>8 DEF Next

(* Steps that issue no session and rotate none: sessions only retire. *)
LEMMA RetireKeeps ==
  ASSUME RotationInv, root' = root,
         \A s \in SessionIds : /\ Live(s)' => Live(s)
                               /\ sessions'[s] = "absent" <=> sessions[s] = "absent",
         \A w \in Workers : Rotating(w)' => Rotating(w) /\ job'[w] = job[w],
         \A w \in Workers : Refreshing(w)' =>
           \/ Refreshing(w) /\ job'[w] = job[w]
           \/ job'[w].from \in SessionIds /\ sessions[job'[w].from] # "absent",
         TypeInv
  PROVE  RotationInv'
<1>0. root \in [SessionIds -> SessionIds]
      /\ \A w \in Workers : Refreshing(w) => job[w].from \in SessionIds
  BY DEF TypeInv, TypeOK, JobFits, Refreshing, RefreshJob, LoginJob, RegisterJob
<1>1. RootInv'
  BY <1>0 DEF RotationInv, RootInv
<1>2. FromInv'
  BY <1>0 DEF RotationInv, FromInv
<1>3. RotatingInv'
  BY SMT DEF RotationInv, RotatingInv
<1>4. OneLivePerLogin'
  BY DEF RotationInv, OneLivePerLogin
<1> QED BY <1>1, <1>2, <1>3, <1>4 DEF RotationInv

(* RevokeSession lets one refresh through: it finds its session live, so no *)
(* other session or handler of the same login exists.                       *)
LEMMA RotateKeeps ==
  ASSUME TypeInv, RotationInv, NEW w \in Workers, RefreshRotate(w)
  PROVE  RotationInv'
<1> DEFINE f == job[w].from
<1>1. /\ f \in SessionIds /\ Live(f) /\ job[w].op = "refresh" /\ pc[w] = "rotate"
      /\ root' = root /\ job' = job /\ pc' = [pc EXCEPT ![w] = "issue"]
      /\ sessions' = [s \in SessionIds |-> IF s \in {f} /\ sessions[s] = "live"
                                           THEN "revoked" ELSE sessions[s]]
  BY DEF RefreshRotate, RevokeSession, RevokeSessions, Proceed, Goto, TypeInv, JobFits,
     RefreshJob, Live
<1>2. /\ \A s \in SessionIds : /\ Live(s)' => Live(s) /\ s # f
                               /\ sessions'[s] = "absent" => sessions[s] = "absent"
      /\ root \in [SessionIds -> SessionIds]
      /\ \A v \in Workers : Refreshing(v) => job[v].from \in SessionIds
  BY <1>1 DEF Live, TypeInv, TypeOK, JobFits, Refreshing, RefreshJob, LoginJob, RegisterJob
<1>3. \A v \in Workers : /\ Rotating(v)' => Rotating(v) \/ v = w
                         /\ Refreshing(v)' => Refreshing(v)
                         /\ Rotating(v) => v # w
  BY <1>1 DEF Rotating, Refreshing, TypeInv, TypeOK
<1>a. root' = root /\ job' = job /\ f \in SessionIds /\ Live(f) /\ job[w].from = f
  BY <1>1
<1>4. RootInv' /\ FromInv'
  BY <1>a, <1>2, <1>3 DEF RotationInv, RootInv, FromInv
<1>5. \A s \in SessionIds : Live(s)' => root[s] # root[f]
  BY <1>a, <1>2 DEF RotationInv, OneLivePerLogin
<1>6. \A v \in Workers : Rotating(v) => root[job[v].from] # root[f]
  BY <1>a DEF RotationInv, RotatingInv
<1>7. RotatingInv'
  BY <1>a, <1>2, <1>3, <1>5, <1>6 DEF RotationInv, RotatingInv
<1>8. OneLivePerLogin'
  BY <1>a, <1>2 DEF RotationInv, OneLivePerLogin
<1> QED BY <1>4, <1>7, <1>8 DEF RotationInv

(* A new session is the only live one of its login. *)
LEMMA IssueKeeps ==
  ASSUME TypeInv, RotationInv, NEW w \in Workers, IssueTokens(w)
  PROVE  RotationInv'
<1> DEFINE f == job[w].from
           R == job[w].op = "refresh"
<1>0. PICK s \in SessionIds :
        /\ sessions[s] = "absent"
        /\ sessions' = [sessions EXCEPT ![s] = "live"]
        /\ root' = [root EXCEPT ![s] = IF R THEN root[f] ELSE s]
  BY DEF IssueTokens, CreateSession
<1>1. /\ pc[w] = "issue" /\ (R => f \in SessionIds)
      /\ pc' = [pc EXCEPT ![w] = "idle"] /\ job' = [job EXCEPT ![w] = NoJob]
      /\ sessions \in [SessionIds -> SessionState]
      /\ root \in [SessionIds -> SessionIds]
      /\ \A v \in Workers : Refreshing(v) => job[v].from \in SessionIds
  BY DEF IssueTokens, Return, Goto, TypeInv, TypeOK, JobFits, Refreshing, RefreshJob, LoginJob,
     RegisterJob
<1>2. \A v \in Workers :
        /\ Rotating(v)' => Rotating(v) /\ v # w /\ job'[v] = job[v]
        /\ Refreshing(v)' => Refreshing(v) /\ v # w /\ job'[v] = job[v]
        /\ Rotating(v) => Refreshing(v)
  BY <1>1 DEF Rotating, Refreshing, TypeInv, TypeOK
<1>3. \A v \in Workers : Refreshing(v) => job[v].from # s /\ sessions[job[v].from] # "absent"
  BY <1>0 DEF RotationInv, FromInv
<1>4. /\ root[s] = s
      /\ \A t \in SessionIds : root[t] = s => t = s
      /\ \A t \in SessionIds : sessions[t] # "absent" => sessions[root[t]] # "absent"
  BY <1>0 DEF RotationInv, RootInv
<1>5. R => Rotating(w) /\ f # s /\ sessions[f] # "absent" /\ sessions[root[f]] # "absent"
           /\ root[f] # s
  BY <1>0, <1>1, <1>2, <1>3, <1>4 DEF Rotating
<1>6. \A t \in SessionIds : /\ t # s => root'[t] = root[t] /\ sessions'[t] = sessions[t]
                            /\ sessions'[s] = "live"
                            /\ root'[s] = IF R THEN root[f] ELSE s
  BY <1>0, <1>1
<1>7. RootInv'
  <2>1. ASSUME NEW t \in SessionIds
        PROVE  root'[t] = t \/ (sessions'[t] # "absent" /\ sessions'[root'[t]] # "absent")
    <3>1. CASE t # s
      <4>1. root[t] = t \/ (sessions[t] # "absent" /\ sessions[root[t]] # "absent")
        BY DEF RotationInv, RootInv
      <4>2. root[t] # s
        BY <3>1, <1>4
      <4> QED BY <3>1, <4>1, <4>2, <1>1, <1>6
    <3>2. CASE t = s
      BY <3>2, <1>1, <1>5, <1>6
    <3> QED BY <3>1, <3>2
  <2> QED BY <2>1 DEF RootInv
<1>8. FromInv'
  BY <1>2, <1>3, <1>1, <1>6 DEF FromInv
<1>9. \A v \in Workers : Rotating(v)' => /\ root'[job'[v].from] = root[job[v].from]
                                         /\ root[job[v].from] # root'[s]
  <2>1. ASSUME NEW v \in Workers, Rotating(v)'
        PROVE  root[job[v].from] # s /\ (R => root[job[v].from] # root[f])
    BY <2>1, <1>1, <1>2, <1>3, <1>4, <1>5 DEF RotationInv, RotatingInv
  <2> QED BY <2>1, <1>1, <1>2, <1>3, <1>6
<1>10. \A t \in SessionIds : Live(t)' /\ t # s => Live(t) /\ root'[t] = root[t] /\ root[t] # root'[s]
  <2>1. \A t \in SessionIds : Live(t) /\ R => root[t] # root[f]
    BY <1>5 DEF RotationInv, RotatingInv
  <2> QED BY <2>1, <1>4, <1>6 DEF Live
<1>11. RotatingInv'
  <2>1. ASSUME NEW v \in Workers, NEW t \in SessionIds, Rotating(v)', Live(t)'
        PROVE  root'[t] # root'[job'[v].from]
    <3>1. CASE t = s
      BY <2>1, <3>1, <1>9
    <3>2. CASE t # s
      BY <2>1, <3>2, <1>2, <1>9, <1>10, SMT DEF RotationInv, RotatingInv
    <3> QED BY <3>1, <3>2
  <2>2. ASSUME NEW u \in Workers, NEW v \in Workers, Rotating(u)', Rotating(v)',
               root'[job'[u].from] = root'[job'[v].from]
        PROVE  u = v
    BY <2>2, <1>2, <1>9, SMT DEF RotationInv, RotatingInv
  <2> QED BY <2>1, <2>2 DEF RotatingInv
<1>12. OneLivePerLogin'
  BY <1>10 DEF RotationInv, OneLivePerLogin
<1> QED BY <1>7, <1>8, <1>11, <1>12 DEF RotationInv

(* All the steps but these two retire sessions at most. *)
LEMMA RotationStep ==
  ASSUME TypeInv, RotationInv, [Next]_vars
  PROVE  RotationInv'
<1>1. ASSUME NEW w \in Workers, RefreshRotate(w) PROVE RotationInv'
  BY <1>1, RotateKeeps
<1>2. ASSUME NEW w \in Workers, IssueTokens(w) PROVE RotationInv'
  BY <1>2, IssueKeeps
<1>3. ASSUME NEW w \in Workers,
             \/ \E d \in LoginDevices : LoginBegin(w, d) \/ RegisterBegin(w, d)
             \/ \E s \in SessionIds, d \in Devices : RevokeDeviceBegin(w, s, d)
             \/ \E s \in SessionIds : LogoutBegin(w, s)
      PROVE  RotationInv'
  <2>1. UNCHANGED <<root, sessions>>
    BY <1>3 DEF LoginBegin, RegisterBegin, RevokeDeviceBegin, LogoutBegin, Begin, session_vars
  <2>2. \A v \in Workers : v # w => pc'[v] = pc[v] /\ job'[v] = job[v]
    BY <1>3 DEF LoginBegin, RegisterBegin, RevokeDeviceBegin, LogoutBegin, Begin, Goto,
       TypeInv, TypeOK
  <2>3. pc'[w] \notin {"rotate", "issue"}
    BY <1>3 DEF LoginBegin, RegisterBegin, RevokeDeviceBegin, LogoutBegin, Begin, Goto,
       TypeInv, TypeOK
  <2> QED BY <2>1, <2>2, <2>3, RetireKeeps DEF Live, Rotating, Refreshing
<1>4. ASSUME NEW w \in Workers, NEW s \in SessionIds, RefreshBegin(w, s) PROVE RotationInv'
  <2>1. UNCHANGED <<root, sessions>> /\ Live(s)
    BY <1>4 DEF RefreshBegin, FindByToken, Begin, session_vars, Live
  <2>2. \A v \in Workers : v # w => pc'[v] = pc[v] /\ job'[v] = job[v]
    BY <1>4 DEF RefreshBegin, Begin, Goto, TypeInv, TypeOK
  <2>3. pc'[w] = "rotate" /\ job'[w].from = s
    BY <1>4 DEF RefreshBegin, Begin, Goto, TypeInv, TypeOK
  <2> QED BY <2>1, <2>2, <2>3, RetireKeeps DEF Live, Rotating, Refreshing
<1>5. ASSUME NEW w \in Workers,
             LoginFind(w) \/ LoginRegister(w) \/ RevokeDeviceRow(w)
      PROVE  RotationInv'
  <2>1. UNCHANGED <<root, sessions>>
    BY <1>5 DEF LoginFind, LoginRegister, RevokeDeviceRow, session_vars
  <2>2. \A v \in Workers : v # w => pc'[v] = pc[v] /\ job'[v] = job[v]
    BY <1>5 DEF LoginFind, LoginRegister, RevokeDeviceRow, Proceed, Goto, TypeInv, TypeOK
  <2>3. pc'[w] \in {"rotate", "issue"} => job'[w].op # "refresh"
    <3>1. LoginFind(w) => job'[w] = [op |-> "login", device |-> job[w].device, now |-> clock]
      BY DEF LoginFind, TypeInv, TypeOK
    <3>2. LoginFind(w) => job'[w].op # "refresh"
      BY <3>1, SMT
    <3>3. CASE LoginRegister(w) \/ RevokeDeviceRow(w)
      BY <3>3 DEF LoginRegister, RevokeDeviceRow, Proceed, Goto, TypeInv, TypeOK,
         JobFits, LoginJob, RegisterJob
    <3> QED BY <1>5, <3>2, <3>3
  <2> QED BY <2>1, <2>2, <2>3, RetireKeeps DEF Live, Rotating, Refreshing
<1>6. ASSUME NEW w \in Workers,
             \/ LoginRegisterFails(w) \/ LoginIncomplete(w) \/ IssueTokensFails(w) \/ RefreshRotateFails(w)
             \/ RegisterCreateFails(w) \/ RevokeDeviceRowFails(w) \/ RevokeDeviceSessions(w) \/ LogoutRevoke(w)
      PROVE  RotationInv'
  <2>1. root' = root /\ Return(w)
    BY <1>6 DEF RegisterCreateFails, LoginRegisterFails, LoginIncomplete, IssueTokensFails,
       RefreshRotateFails,
       RevokeDeviceRowFails, RevokeDeviceSessions, LogoutRevoke
  <2>2. sessions' = sessions \/ \E S \in SUBSET SessionIds : RevokeSessions(S)
    <3>1. CASE RevokeDeviceSessions(w)
      BY <3>1 DEF RevokeDeviceSessions, RevokeAllForDevice, SessionsOf
    <3>2. CASE LogoutRevoke(w)
      <4>1. job[w].from \in SessionIds
        BY <3>2 DEF LogoutRevoke, TypeInv, JobFits, LogoutJob
      <4> QED BY <3>2, <4>1 DEF LogoutRevoke, RevokeSession, session_vars
    <3> QED BY <1>6, <3>1, <3>2 DEF RegisterCreateFails, LoginRegisterFails, LoginIncomplete,
       IssueTokensFails,
       RefreshRotateFails, RevokeDeviceRowFails, session_vars
  <2>3. \A s \in SessionIds : /\ Live(s)' => Live(s)
                              /\ sessions'[s] = "absent" <=> sessions[s] = "absent"
    BY <2>2 DEF RevokeSessions, Live, TypeInv, TypeOK
  <2>4. \A v \in Workers : v # w => pc'[v] = pc[v] /\ job'[v] = job[v]
    BY <2>1 DEF Return, Goto, TypeInv, TypeOK
  <2>5. pc'[w] = "idle"
    BY <2>1 DEF Return, Goto, TypeInv, TypeOK
  <2> QED BY <2>1, <2>3, <2>4, <2>5, RetireKeeps DEF Rotating, Refreshing
<1>7. ASSUME NEW u \in Users, DeleteUser(u) PROVE RotationInv'
  <2>1. \A s \in SessionIds : /\ Live(s)' => Live(s)
                              /\ sessions'[s] = "absent" <=> sessions[s] = "absent"
    BY <1>7 DEF DeleteUser, DeleteSessions, Live, TypeInv, TypeOK
  <2>2. UNCHANGED <<pc, job, root>>
    BY <1>7 DEF DeleteUser
  <2> QED BY <2>1, <2>2, RetireKeeps DEF Rotating, Refreshing
<1>8. ASSUME Tick \/ Crash \/ UNCHANGED vars PROVE RotationInv'
  <2>1. UNCHANGED <<root, sessions>>
    BY <1>8 DEF Tick, Crash, vars, session_vars
  <2>2. \A v \in Workers : pc'[v] = "idle" \/ (pc'[v] = pc[v] /\ job'[v] = job[v])
    BY <1>8 DEF Tick, Crash, vars
  <2> QED BY <2>1, <2>2, RetireKeeps DEF Live, Rotating, Refreshing
<1>9. ASSUME NEW w \in Workers, RegisterCreate(w) PROVE RotationInv'
  <2>1. UNCHANGED <<root, sessions>>
    BY <1>9 DEF RegisterCreate, session_vars
  <2>2. \A v \in Workers : v # w => pc'[v] = pc[v] /\ job'[v] = job[v]
    BY <1>9 DEF RegisterCreate, Goto, TypeInv, TypeOK
  <2>3. pc'[w] = "register"
    BY <1>9 DEF RegisterCreate, Goto, TypeInv, TypeOK
  <2> QED BY <2>1, <2>2, <2>3, RetireKeeps DEF Live, Rotating, Refreshing
<1> QED BY SessionsAssumption, <1>1, <1>2, <1>3, <1>4, <1>5, <1>6, <1>7, <1>8, <1>9
     DEF Next, Register, Login, Refresh, Issue, RevokeDeviceHandler, Logout

(* Which rows of devices and users a step can change. *)
LEMMA TableStep ==
  ASSUME TypeInv, SessionsRefer, StruckInv, FreshInv, [Next]_vars
  PROVE  SessionsRefer' /\ StruckInv'
<1> USE OwnerAssumption, SessionAssumption, SessionsAssumption
<1> USE DEF TypeInv, TypeOK, DeviceTypeOK
<1>1. ASSUME NEW w \in Workers, LoginRegister(w) PROVE SessionsRefer' /\ StruckInv'
  <2>1. PICK d \in Devices : /\ devices[d] = "absent" /\ Owner[d] \in users
                             /\ devices' = [devices EXCEPT ![d] = "active"]
                             /\ UNCHANGED <<users, sessions, struck>>
    BY <1>1 DEF LoginRegister, RegisterDevice, RegisterAllowed, JobFits, LoginJob,
       RegisterJob, session_vars
  <2>2. SessionsRefer'
    BY <2>1 DEF SessionsRefer
  <2>3. StruckInv'
    BY <2>1 DEF StruckInv
  <2> QED BY <2>2, <2>3
<1>2. ASSUME NEW w \in Workers, RevokeDeviceRow(w) PROVE SessionsRefer' /\ StruckInv'
  <2>1. PICK d \in Devices : /\ devices' = [devices EXCEPT ![d] = "revoked"]
                             /\ struck' = struck \cup {d}
                             /\ UNCHANGED <<users, sessions>>
    BY <1>2 DEF RevokeDeviceRow, RevokeDevice, JobFits, RevokeJob, session_vars
  <2>2. SessionsRefer'
    BY <2>1 DEF SessionsRefer
  <2>3. StruckInv'
    BY <2>1 DEF StruckInv
  <2> QED BY <2>2, <2>3
<1>3. ASSUME NEW u \in Users, DeleteUser(u) PROVE SessionsRefer' /\ StruckInv'
  <2>1. /\ users' = users \ {u} /\ struck' = struck
        /\ devices' = [d \in Devices |-> IF Owner[d] = u THEN "absent" ELSE devices[d]]
        /\ sessions' = [s \in SessionIds |->
                          IF Owner[SessionDevice[s]] = u /\ sessions[s] # "absent"
                          THEN "deleted" ELSE sessions[s]]
    BY <1>3 DEF DeleteUser, DeleteSessions
  <2>2. SessionsRefer'
    BY <2>1 DEF SessionsRefer
  <2>3. StruckInv'
    BY <2>1 DEF StruckInv
  <2> QED BY <2>2, <2>3
<1>4. ASSUME NEW w \in Workers, IssueTokens(w) PROVE SessionsRefer' /\ StruckInv'
  <2>1. PICK s \in SessionIds : /\ CreateAllowed(s)
                                /\ sessions' = [sessions EXCEPT ![s] = "live"]
    BY <1>4 DEF IssueTokens, CreateSession
  <2>2. UNCHANGED <<users, devices, struck>>
    BY <1>4 DEF IssueTokens, device_vars
  <2>3. SessionsRefer'
    BY <2>1, <2>2 DEF SessionsRefer, CreateAllowed
  <2>4. StruckInv'
    BY <2>2 DEF StruckInv
  <2> QED BY <2>3, <2>4
<1>5. ASSUME NEW S, RevokeSessions(S), UNCHANGED <<users, devices, struck>>
      PROVE  SessionsRefer' /\ StruckInv'
  BY <1>5 DEF RevokeSessions, SessionsRefer, StruckInv
<1>6. ASSUME UNCHANGED <<users, devices, sessions, struck>>
      PROVE  SessionsRefer' /\ StruckInv'
  BY <1>6 DEF SessionsRefer, StruckInv
<1>7. ASSUME NEW w \in Workers,
             RefreshRotate(w) \/ RevokeDeviceSessions(w) \/ LogoutRevoke(w)
      PROVE  SessionsRefer' /\ StruckInv'
  BY <1>5, <1>6, <1>7 DEF RefreshRotate, RevokeDeviceSessions, LogoutRevoke, RevokeSession,
     RevokeAllForDevice, device_vars, session_vars
<1>8. ASSUME \/ Tick \/ Crash \/ UNCHANGED vars
             \/ \E w \in Workers :
                  \/ \E d \in LoginDevices : LoginBegin(w, d) \/ RegisterBegin(w, d)
                  \/ RegisterCreateFails(w)
                  \/ \E s \in SessionIds : RefreshBegin(w, s) \/ LogoutBegin(w, s)
                  \/ \E s \in SessionIds, d \in Devices : RevokeDeviceBegin(w, s, d)
                  \/ LoginFind(w) \/ LoginRegisterFails(w) \/ LoginIncomplete(w) \/ IssueTokensFails(w)
                  \/ RefreshRotateFails(w) \/ RevokeDeviceRowFails(w)
      PROVE  UNCHANGED <<users, devices, sessions, struck>>
  BY <1>8 DEF Tick, Crash, vars, RegisterBegin, RegisterCreateFails, LoginBegin, RefreshBegin,
     LogoutBegin, RevokeDeviceBegin,
     Begin, LoginFind, LoginRegisterFails, LoginIncomplete, IssueTokensFails, RefreshRotateFails,
     RevokeDeviceRowFails, device_vars, session_vars
<1>9. ASSUME NEW w \in Workers, RegisterCreate(w) PROVE SessionsRefer' /\ StruckInv'
  <2>1. /\ users' = users \cup {NewId(w)} /\ pc[w] = "create"
        /\ UNCHANGED <<devices, sessions, struck>>
    BY <1>9 DEF RegisterCreate, CreateUser, NewId, session_vars
  <2>2. SessionsRefer'
    BY <2>1 DEF SessionsRefer
  <2>3. \A d \in struck : Owner[d] # NewId(w)
    BY <2>1 DEF FreshInv
  <2>4. StruckInv'
    BY <2>1, <2>3 DEF StruckInv
  <2> QED BY <2>2, <2>4
<1> QED BY <1>1, <1>2, <1>3, <1>4, <1>6, <1>7, <1>8, <1>9
     DEF Next, Register, Login, Refresh, Issue, RevokeDeviceHandler, Logout

(* Only a registration makes an id fresh or uses it up. *)
LEMMA FreshKeeps ==
  ASSUME FreshInv, UsernameUnique, users' \subseteq users, used_ids' = used_ids,
         \A d \in Devices : devices'[d] # "absent" => Owner[d] \in users',
         \A d \in struck' : d \in struck \/ Owner[d] \in users,
         \A w \in Workers : pc'[w] = "create" => pc[w] = "create" /\ job'[w] = job[w]
  PROVE  FreshInv' /\ UsernameUnique'
<1>1. \A w \in Workers : pc'[w] = "create" => pc[w] = "create" /\ NewId(w)' = NewId(w)
  BY DEF NewId
<1>2. FreshInv'
  BY <1>1, SMT DEF FreshInv
<1>3. UsernameUnique'
  BY DEF UsernameUnique
<1> QED BY <1>2, <1>3

(* The ids of accounts and of registrations stay apart. *)
LEMMA FreshStep ==
  ASSUME TypeInv, FreshInv, UsernameUnique, [Next]_vars
  PROVE  FreshInv' /\ UsernameUnique'
<1> USE OwnerAssumption, SessionsAssumption
<1> USE DEF TypeInv, TypeOK, DeviceTypeOK
<1>1. ASSUME NEW w \in Workers, NEW d \in Devices, RegisterBegin(w, d)
      PROVE  FreshInv' /\ UsernameUnique'
  <2>1. /\ UNCHANGED <<users, devices, struck>> /\ Owner[d] \notin used_ids
        /\ used_ids' = used_ids \cup {Owner[d]}
    BY <1>1 DEF RegisterBegin, Begin, device_vars
  <2>2. \A v \in Workers : v # w => pc'[v] = pc[v] /\ NewId(v)' = NewId(v)
    BY <1>1 DEF RegisterBegin, Begin, Goto, NewId
  <2>3. NewId(w)' = Owner[d]
    BY <1>1 DEF RegisterBegin, Begin, NewId
  <2>4. FreshInv'
    BY <2>1, <2>2, <2>3, SMT DEF FreshInv
  <2> QED BY <2>1, <2>4 DEF UsernameUnique
<1>2. ASSUME NEW w \in Workers, RegisterCreate(w) PROVE FreshInv' /\ UsernameUnique'
  <2>1. /\ users' = users \cup {NewId(w)} /\ pc[w] = "create"
        /\ UNCHANGED <<devices, struck, used_ids>>
        /\ FindByUsername(Username[NewId(w)]) = {}
    BY <1>2 DEF RegisterCreate, CreateUser, NewId
  <2>2. \A v \in Workers : pc'[v] = "create" =>
          v # w /\ pc[v] = "create" /\ NewId(v)' = NewId(v)
    BY <1>2 DEF RegisterCreate, Goto, NewId
  <2>3. FreshInv'
    <3>1. NewId(w) \in used_ids
      BY <2>1 DEF FreshInv
    <3>2. \A v \in Workers : pc'[v] = "create" => NewId(v) # NewId(w)
      BY <2>1, <2>2 DEF FreshInv
    <3>3. \A v \in Workers : pc'[v] = "create" =>
            /\ NewId(v)' \in used_ids \ users'
            /\ \A d \in struck : Owner[d] # NewId(v)'
      BY <2>1, <2>2, <3>2, SMT DEF FreshInv
    <3>4. \A v, x \in Workers :
            pc'[v] = "create" /\ pc'[x] = "create" /\ NewId(v)' = NewId(x)' => v = x
      BY <2>2, SMT DEF FreshInv
    <3>5. /\ users' \subseteq used_ids
          /\ \A d \in Devices : devices[d] # "absent" => Owner[d] \in users'
          /\ \A d \in struck : Owner[d] \in used_ids
      BY <2>1, <3>1 DEF FreshInv
    <3> QED BY <2>1, <3>3, <3>4, <3>5 DEF FreshInv
  <2>4. \A u \in users : Username[u] # Username[NewId(w)]
    BY <2>1 DEF FindByUsername
  <2>5. UsernameUnique'
    BY <2>1, <2>4 DEF UsernameUnique
  <2> QED BY <2>3, <2>5
<1>3. ASSUME NEW w \in Workers, LoginRegister(w) PROVE FreshInv' /\ UsernameUnique'
  <2>1. PICK d \in Devices : /\ Owner[d] \in users
                             /\ devices' = [devices EXCEPT ![d] = "active"]
                             /\ UNCHANGED <<users, struck, used_ids, job>>
    BY <1>3 DEF LoginRegister, RegisterDevice, RegisterAllowed, JobFits, LoginJob,
       RegisterJob, Proceed
  <2>2. \A v \in Workers : pc'[v] = "create" => pc[v] = "create"
    BY <1>3 DEF LoginRegister, Proceed, Goto
  <2>3. \A e \in Devices : devices'[e] # "absent" => Owner[e] \in users
    BY <2>1 DEF FreshInv
  <2> QED BY <2>1, <2>2, <2>3, FreshKeeps
<1>4. ASSUME NEW w \in Workers, RevokeDeviceRow(w) PROVE FreshInv' /\ UsernameUnique'
  <2>1. PICK d \in Devices : /\ devices[d] = "active"
                             /\ devices' = [devices EXCEPT ![d] = "revoked"]
                             /\ struck' = struck \cup {d}
                             /\ UNCHANGED <<users, used_ids, job>>
    BY <1>4 DEF RevokeDeviceRow, RevokeDevice, JobFits, RevokeJob, Proceed
  <2>2. \A v \in Workers : pc'[v] = "create" => pc[v] = "create"
    BY <1>4 DEF RevokeDeviceRow, Proceed, Goto
  <2>3. Owner[d] \in users /\ \A e \in Devices : devices'[e] # "absent" => Owner[e] \in users
    BY <2>1 DEF FreshInv
  <2> QED BY <2>1, <2>2, <2>3, FreshKeeps
<1>5. ASSUME NEW u \in Users, DeleteUser(u) PROVE FreshInv' /\ UsernameUnique'
  <2>1. /\ users' = users \ {u} /\ UNCHANGED <<struck, used_ids, pc, job>>
        /\ devices' = [d \in Devices |-> IF Owner[d] = u THEN "absent" ELSE devices[d]]
    BY <1>5 DEF DeleteUser
  <2>2. \A d \in Devices : devices'[d] # "absent" => Owner[d] \in users'
    BY <2>1 DEF FreshInv
  <2> QED BY <2>1, <2>2, FreshKeeps
<1>6. ASSUME UNCHANGED <<users, devices, struck, used_ids>>,
             \A v \in Workers : pc'[v] = "create" => pc[v] = "create" /\ job'[v] = job[v]
      PROVE  FreshInv' /\ UsernameUnique'
  <2>1. \A d \in Devices : devices'[d] # "absent" => Owner[d] \in users'
    BY <1>6 DEF FreshInv
  <2> QED BY <1>6, <2>1, FreshKeeps
<1>7. ASSUME NEW w \in Workers,
             \/ \E d \in LoginDevices : LoginBegin(w, d)
             \/ \E s \in SessionIds : RefreshBegin(w, s) \/ LogoutBegin(w, s)
             \/ \E s \in SessionIds, d \in Devices : RevokeDeviceBegin(w, s, d)
      PROVE  FreshInv' /\ UsernameUnique'
  BY <1>6, <1>7 DEF LoginBegin, RefreshBegin, LogoutBegin, RevokeDeviceBegin, Begin, Goto,
     device_vars
<1>8. ASSUME NEW w \in Workers,
             LoginFind(w) \/ RefreshRotate(w)
      PROVE  FreshInv' /\ UsernameUnique'
  BY <1>6, <1>8 DEF LoginFind, RefreshRotate, Proceed, Goto, device_vars
<1>9. ASSUME NEW w \in Workers,
             \/ RegisterCreateFails(w) \/ LoginRegisterFails(w) \/ LoginIncomplete(w) \/ IssueTokens(w)
             \/ IssueTokensFails(w) \/ RefreshRotateFails(w) \/ RevokeDeviceRowFails(w)
             \/ RevokeDeviceSessions(w) \/ LogoutRevoke(w)
      PROVE  FreshInv' /\ UsernameUnique'
  <2>1. Return(w) /\ UNCHANGED <<users, devices, struck>>
    BY <1>9 DEF RegisterCreateFails, LoginRegisterFails, LoginIncomplete, IssueTokens,
       IssueTokensFails,
       RefreshRotateFails, RevokeDeviceRowFails, RevokeDeviceSessions, LogoutRevoke, device_vars
  <2> QED BY <2>1, <1>6 DEF Return, Goto
<1>10. ASSUME Tick \/ Crash \/ UNCHANGED vars PROVE FreshInv' /\ UsernameUnique'
  BY <1>6, <1>10 DEF Tick, Crash, vars, device_vars
<1> QED BY <1>1, <1>2, <1>3, <1>4, <1>5, <1>7, <1>8, <1>9, <1>10
     DEF Next, Register, Login, Refresh, Issue, RevokeDeviceHandler, Logout

(* The initial state. *)
LEMMA SessionStart ==
  ASSUME Init
  PROVE  SessionInv
<1> USE OwnerAssumption, SessionAssumption, SessionsAssumption DEF Init, HandlersInit
<1>1. TypeOK
  BY DEF TypeOK, DeviceTypeOK, SessionState, Labels, Job
<1>2. \A w \in Workers : JobFits(w) /\ ~ Refreshing(w) /\ ~ Rotating(w)
  BY DEF JobFits, Refreshing, Rotating
<1>3. RootInv /\ OneLivePerLogin
  BY DEF RootInv, OneLivePerLogin
<1>4. SessionsRefer
  BY DEF SessionsRefer, SessionsOf
<1>5. StruckInv
  BY DEF StruckInv
<1>6. FreshInv /\ UsernameUnique
  BY DEF FreshInv, UsernameUnique
<1> QED BY <1>1, <1>2, <1>3, <1>4, <1>5, <1>6
     DEF SessionInv, TableInv, TypeInv, RotationInv, FromInv, RotatingInv

(* SessionInv holds in every reachable state. *)
THEOREM SessionInvariant == Spec => []SessionInv
<1>1. Init => SessionInv
  BY SessionStart
<1>2. SessionInv /\ [Next]_vars => SessionInv'
  BY TypeStep, RotationStep, TableStep, FreshStep DEF SessionInv, TableInv
<1> QED BY <1>1, <1>2, PTL DEF Spec

(* RefreshTokens rotates: of the sessions that stem from one login at most  *)
(* one is live, however many refreshes of the same token run at once and    *)
(* wherever the process crashes.                                            *)
THEOREM RotationHolds == Spec => []OneLivePerLogin
BY SessionInvariant, PTL DEF SessionInv, RotationInv

(* The rows of sessions always refer to rows of devices and users, although *)
(* Login, RefreshTokens and DeleteUser interleave.                          *)
THEOREM SessionsReferHolds == Spec => []SessionsRefer
BY SessionInvariant, PTL DEF SessionInv, TableInv

(* Two accounts never share a name, however many registrations of it run at *)
(* once: CreateUser looks the name up again under the lock of its insert.   *)
THEOREM NamesStayUnique == Spec => []UsernameUnique
BY SessionInvariant, PTL DEF SessionInv, TableInv

(* RevokeDevice is final: no login makes the row active again.              *)
THEOREM RevocationFinalForDevice == Spec => []RevokedForever
<1>1. SessionInv => RevokedForever
  BY DEF SessionInv, TableInv, StruckInv, RevokedForever
<1> QED BY <1>1, SessionInvariant, PTL

(* The three together: what the handlers leave in the tables fits together  *)
(* at every moment, for any number of threads, accounts and crashes.        *)
THEOREM TablesStayConsistent == Spec => []TablesConsistent
<1>1. SessionsRefer /\ UsernameUnique /\ RevokedForever => TablesConsistent
  BY DEF TablesConsistent
<1> QED
  BY <1>1, SessionsReferHolds, NamesStayUnique, RevocationFinalForDevice, PTL

----------------------------------------------------------------------------
(* One-time prekeys.  A key may be handed out again only if its row could  *)
(* come back unconsumed while its device is active.  Rows go with the      *)
(* revocation or deletion of the device, and neither is ever taken back: a *)
(* device that has no row while its account exists never uploaded a key.   *)

\* What the table and the history say of a key, whatever its device does.
OtpInv ==
  /\ one_time_prekeys \subseteq accepted
  /\ \A r \in Prekeys \X Devices : handed[r] > 0 => r \in accepted
  /\ \A d \in Devices :
       RegisterAllowed(d) => \A r \in accepted : r[2] # d

PrekeyInv == PrekeyTypeOK /\ OtpInv /\ HandedOnce

(* ConsumeOneAvailableOtpLocked: a key that is handed out was uploaded and  *)
(* unconsumed, so it had not been handed out before.                        *)
LEMMA ConsumeOnce ==
  ASSUME PrekeyInv, NEW d \in Devices, GetPrekeyBundle(d)
  PROVE  /\ OtpInv' /\ HandedOnce'
         /\ consumed' \subseteq one_time_prekeys'
         /\ handed' \in [Prekeys \X Devices -> Nat]
<1> USE DEF PrekeyInv, PrekeyTypeOK, GetPrekeyBundle, device_vars
<1>1. CASE UNCHANGED <<consumed, handed>>
  BY <1>1 DEF OtpInv, HandedOnce, RegisterAllowed
<1>2. ASSUME NEW r \in Available(d), consumed' = consumed \cup {r},
             handed' = [handed EXCEPT ![r] = @ + 1]
      PROVE  /\ OtpInv' /\ HandedOnce'
             /\ consumed' \subseteq one_time_prekeys'
             /\ handed' \in [Prekeys \X Devices -> Nat]
  <2>1. r \in one_time_prekeys /\ r \notin consumed /\ r[2] = d /\ r \in Prekeys \X Devices
    BY <1>2 DEF Available, RowsOf
  <2>2. handed[r] = 0 /\ r \in accepted
    BY <2>1, SMT DEF OtpInv, HandedOnce
  <2> QED BY <1>2, <2>1, <2>2, SMT DEF OtpInv, HandedOnce, RegisterAllowed
<1> QED BY <1>1, <1>2 DEF ConsumeOneAvailableOtpLocked

(* StorePrekeys, RevokeDevice and RegisterDevice.                           *)
LEMMA DeviceKeepsKeys ==
  ASSUME PrekeyInv, NEW d \in Devices,
         PublishPrekeys(d) \/ Revoke(d) \/ DeviceRegistered(d)
  PROVE  PrekeyTypeOK' /\ OtpInv' /\ HandedOnce'
<1> USE DEF PrekeyInv, PrekeyTypeOK, DeviceTypeOK, device_vars, otp_vars, fetch_vars
<1>1. ASSUME NEW batch \in Batches, StorePrekeys(d, batch)
      PROVE  PrekeyTypeOK' /\ OtpInv' /\ HandedOnce'
  <2>1. batch \subseteq Prekeys
    BY PrekeyAssumption
  <2>2. \A r \in batch \X {d} : r \in Prekeys \X Devices /\ r[2] = d /\ r \notin one_time_prekeys
    BY <1>1, <2>1 DEF StorePrekeys, StoreAllowed
  <2>3. PrekeyTypeOK'
    BY <1>1, <2>2 DEF StorePrekeys
  <2>4. OtpInv'
    BY <1>1, <2>2 DEF StorePrekeys, StoreAllowed, OtpInv, DeviceFound, RegisterAllowed
  <2>5. ASSUME NEW r \in batch \X {d}, devices[d] = "active"
        PROVE  r \notin accepted /\ handed[r] = 0 /\ r \notin consumed
    BY <2>2, <2>5, SMT DEF OtpInv, HandedOnce
  <2>6. HandedOnce'
    BY <1>1, <2>2, <2>5, SMT DEF StorePrekeys, HandedOnce
  <2> QED BY <2>3, <2>4, <2>6
<1>2. CASE Revoke(d)
  BY <1>2 DEF Revoke, RevokeDevice, RowsOf, OtpInv, HandedOnce, RegisterAllowed
<1>3. CASE DeviceRegistered(d)
  BY <1>3 DEF DeviceRegistered, RegisterDevice, RegisterAllowed, OtpInv, HandedOnce
<1> QED BY <1>1, <1>2, <1>3 DEF PublishPrekeys

(* AdminService::DeleteUser: the devices of the account have no row, and    *)
(* cannot be registered again.                                              *)
LEMMA DeletedKeepsKeys ==
  ASSUME PrekeyInv, NEW u \in Users, OwnerDeleted(u)
  PROVE  PrekeyTypeOK' /\ OtpInv' /\ HandedOnce'
BY OwnerAssumption
   DEF PrekeyInv, PrekeyTypeOK, DeviceTypeOK, fetch_vars, OwnerDeleted, RowsOf, DevicesOf,
       OtpInv, HandedOnce, RegisterAllowed

(* Every step keeps PrekeyInv. *)
LEMMA PrekeyStep ==
  ASSUME PrekeyInv, [PrekeyNext]_prekey_vars
  PROVE  PrekeyInv'
<1> USE DEF PrekeyInv
<1>1. ASSUME UNCHANGED <<device_vars, otp_vars, handed, accepted>>
      PROVE  OtpInv' /\ HandedOnce'
  BY <1>1 DEF OtpInv, HandedOnce, RegisterAllowed, device_vars, otp_vars
<1>2. ASSUME NEW d \in Devices, PrekeyBundle(d) PROVE PrekeyInv'
  BY <1>2, ConsumeOnce
     DEF PrekeyBundle, GetPrekeyBundle, PrekeyTypeOK, DeviceTypeOK, device_vars, fetch_vars
<1>3. ASSUME NEW w \in Fetchers, NEW u \in Users, BundlesBegin(w, u) PROVE PrekeyInv'
  BY <1>1, <1>3 DEF BundlesBegin, PrekeyTypeOK, DeviceTypeOK, device_vars, otp_vars
<1>4. ASSUME NEW w \in Fetchers, BundlesList(w) PROVE PrekeyInv'
  <2>1. \A u \in user[w] : {d \in GetDevicesForUser(u) : devices[d] # "revoked"} \subseteq Devices
    BY DEF GetDevicesForUser, DevicesOf
  <2> QED BY <1>1, <1>4, <2>1, SMT DEF BundlesList, PrekeyTypeOK, DeviceTypeOK, device_vars,
     otp_vars
<1>5. ASSUME NEW w \in Fetchers, BundlesNext(w) PROVE PrekeyInv'
  <2>1. PICK d \in listed[w] :
          /\ listed' = [listed EXCEPT ![w] = @ \ {d}]
          /\ \/ GetPrekeyBundle(d)
             \/ UNCHANGED <<device_vars, otp_vars, handed, accepted>>
    BY <1>5 DEF BundlesNext
  <2>2. d \in Devices
    BY DEF PrekeyTypeOK
  <2>3. CASE GetPrekeyBundle(d)
    BY <1>5, <2>1, <2>2, <2>3, ConsumeOnce
       DEF BundlesNext, GetPrekeyBundle, PrekeyTypeOK, DeviceTypeOK, device_vars
  <2>4. CASE UNCHANGED <<device_vars, otp_vars, handed, accepted>>
    BY <1>1, <1>5, <2>1, <2>4 DEF BundlesNext, PrekeyTypeOK, DeviceTypeOK, device_vars, otp_vars
  <2> QED BY <2>1, <2>3, <2>4
<1>6. ASSUME NEW w \in Fetchers, BundlesDone(w) PROVE PrekeyInv'
  BY <1>1, <1>6 DEF BundlesDone, PrekeyTypeOK, DeviceTypeOK, device_vars, otp_vars
<1>7. CASE UNCHANGED prekey_vars
  BY <1>1, <1>7 DEF prekey_vars, fetch_vars, PrekeyTypeOK, DeviceTypeOK, device_vars, otp_vars
<1> QED BY <1>2, <1>3, <1>4, <1>5, <1>6, <1>7, DeviceKeepsKeys, DeletedKeepsKeys DEF PrekeyNext

(* PrekeyInv holds in every reachable state. *)
THEOREM PrekeyInvariant == PrekeySpec => []PrekeyInv
<1>1. PrekeyInit => PrekeyInv
  BY PrekeyAssumption, OwnerAssumption, SMT DEF PrekeyInit, OtpInit, PrekeyInv, PrekeyTypeOK,
     DeviceTypeOK, OtpInv, HandedOnce
<1>2. PrekeyInv /\ [PrekeyNext]_prekey_vars => PrekeyInv'
  BY PrekeyStep
<1> QED BY <1>1, <1>2, PTL DEF PrekeySpec

(* GetPrekeyBundle hands a one-time prekey out once and loses none, for any *)
(* number of devices, keys and concurrent bundle requests.                  *)
THEOREM PrekeysHandedOnce == PrekeySpec => []HandedOnce
BY PrekeyInvariant, PTL DEF PrekeyInv

(* GetPrekeyBundle gives out nothing of a revoked device: it reads the row  *)
(* of the device in the transaction that consumes the key.                  *)
THEOREM RevokedStaysSilent == PrekeySpec => RevokedSilent
<1>1. ASSUME PrekeyInv, PrekeyNext \/ UNCHANGED prekey_vars PROVE SilentStep
  <2>1. ASSUME NEW d \in Devices, GetPrekeyBundle(d) PROVE SilentStep
    <3>1. \A r \in Available(d) : r \in Prekeys \X Devices /\ devices[r[2]] = "active"
      BY <1>1, <2>1 DEF GetPrekeyBundle, Available, RowsOf, PrekeyInv, PrekeyTypeOK
    <3> QED BY <1>1, <2>1, <3>1
         DEF SilentStep, GetPrekeyBundle, ConsumeOneAvailableOtpLocked, PrekeyInv, PrekeyTypeOK
  <2>2. ASSUME handed' = handed PROVE SilentStep
    BY <2>2 DEF SilentStep
  <2>3. ASSUME NEW w \in Fetchers, BundlesNext(w) PROVE SilentStep
    <3>1. listed[w] \subseteq Devices
      BY <1>1 DEF PrekeyInv, PrekeyTypeOK
    <3> QED BY <2>1, <2>2, <2>3, <3>1 DEF BundlesNext
  <2> QED BY <1>1, <2>1, <2>2, <2>3
       DEF PrekeyNext, PublishPrekeys, StorePrekeys, PrekeyBundle, Revoke, DeviceRegistered,
           OwnerDeleted, BundlesBegin, BundlesList, BundlesDone, prekey_vars
<1>2. PrekeyInv /\ [PrekeyNext]_prekey_vars => [SilentStep]_prekey_vars
  BY <1>1
<1> QED BY <1>2, PrekeyInvariant, PTL DEF PrekeySpec, RevokedSilent

----------------------------------------------------------------------------
(* The password and the wrapped sync key.  A request that was not          *)
(* overtaken still knows the row as it is; and if bundle and verifier      *)
(* disagree although no overtaken request and no crash has parted them, a  *)
(* change that will write the bundle next is under way.  Whoever is about  *)
(* to write a bundle has one for a password that was accepted.             *)

\* A request that no other has overtaken: the version it read is current, and
\* so is the password it read or has written.
KnowsRow(w) ==
  /\ row[w].version = sync_key_version
  /\ point[w] = "bundle" => req[w].new = verifier

\* A change between its two writes, about to write the bundle.
Mending(w) == point[w] = "bundle" /\ req[w].op = "change" /\ w \notin overtaken

KeyInv ==
  /\ KeyTypeOK
  /\ sync_key_version <= stored + 1
  /\ \A w \in Handlers : row[w].version <= stored + 1
  /\ \A w \in Handlers : point[w] \in {"verify", "credentials"} => req[w].op = "change"
  /\ \A w \in Handlers : point[w] # "idle" /\ w \notin overtaken => KnowsRow(w)
  /\ bundle \in past /\ verifier \in past
  /\ \A w \in Handlers : point[w] = "bundle" => req[w].new \in past
  /\ miscounted \/ sync_key_version = stored + 1
  /\ clashed \/ ~ exists \/ bundle = verifier \/ \E w \in Handlers : Mending(w)

(* FindById: the request reads the row as it is, and disturbs no other.     *)
LEMMA FindKeepsKey ==
  ASSUME KeyInv, NEW w \in Handlers, ChangeFind(w) \/ PutFind(w)
  PROVE  KeyInv'
<1> USE DEF KeyInv, KeyTypeOK, account_vars, key_history
<1>1. PICK r \in [op : {"none", "change", "put"}, old : Passwords, new : Passwords],
           next \in {"verify", "bundle"} :
        /\ FindById(w, r, next)
        /\ next = "verify" => r.op = "change"
        /\ next = "bundle" => r.new = verifier
  <2>1. CASE ChangeFind(w)
    <3>1. PICK old, new \in Passwords :
            FindById(w, [op |-> "change", old |-> old, new |-> new], "verify")
      BY <2>1 DEF ChangeFind
    <3> QED BY <3>1
  <2>2. CASE PutFind(w)
    BY <2>2, SMT DEF PutFind
  <2> QED BY <2>1, <2>2
<1> USE <1>1 DEF FindById
<1>2. KeyTypeOK'
  BY SMT
<1>3. \A v \in Handlers : v # w =>
        /\ point'[v] = point[v] /\ req'[v] = req[v] /\ row'[v] = row[v]
        /\ v \in overtaken' <=> v \in overtaken
  OBVIOUS
<1>4. /\ point'[w] = next /\ req'[w] = r /\ w \notin overtaken'
      /\ row'[w].version = sync_key_version
  OBVIOUS
<1>5. /\ \A v \in Handlers : row'[v].version <= stored' + 1
      /\ \A v \in Handlers : point'[v] \in {"verify", "credentials"} => req'[v].op = "change"
  BY <1>3, <1>4
<1>6. \A v \in Handlers : point'[v] # "idle" /\ v \notin overtaken' => KnowsRow(v)'
  BY <1>3, <1>4 DEF KnowsRow
<1>7. \A v \in Handlers : Mending(v) => Mending(v)'
  BY <1>3 DEF Mending
<1>8. \A v \in Handlers : point'[v] = "bundle" => req'[v].new \in past'
  BY <1>3, <1>4
<1> QED BY <1>2, <1>5, <1>6, <1>7, <1>8

(* Verify, and the two store calls: a write leaves every other request      *)
(* overtaken, so only the writer's own knowledge of the row matters.        *)
LEMMA WriteKeepsKey ==
  ASSUME KeyInv, NEW w \in Handlers,
         ChangeVerify(w) \/ ChangeCredentials(w) \/ StoreBundle(w)
  PROVE  KeyInv'
<1> USE DEF KeyInv, KeyTypeOK, account_vars, key_history
<1>1. NoRow.version = 0 /\ NoRow \in [verifier : Passwords, version : Nat]
      /\ NoRequest \in [op : {"none", "change", "put"}, old : Passwords, new : Passwords]
  BY KeyAssumption DEF NoRow, NoRequest
<1>2. CASE Returns(w) /\ UNCHANGED <<account_vars, requests, kills, key_history>>
           /\ (~ exists \/ point[w] = "verify")
  BY <1>1, <1>2, SMT DEF Returns, KnowsRow, Mending
<1>3. CASE ChangeVerify(w) /\ ~ Returns(w)
  BY <1>3 DEF ChangeVerify, KnowsRow, Mending
<1>4. CASE ChangeCredentials(w) /\ exists
  <2>1. KeyTypeOK'
    BY <1>4, SMT DEF ChangeCredentials, RecordVerifier, Overtake
  <2>2. Mending(w)' \/ clashed'
    BY <1>4 DEF ChangeCredentials, RecordVerifier, Overtake, Mending
  <2> QED BY <1>4, <2>1, <2>2, SMT DEF ChangeCredentials, RecordVerifier, Overtake, KnowsRow
<1>5. CASE StoreBundle(w) /\ exists
  <2>1. KeyTypeOK'
    BY <1>1, <1>5, SMT DEF StoreBundle, SetSyncKeyBundle, RecordBundle, Overtake, Returns
  <2>2. ASSUME w \in overtaken PROVE clashed' /\ miscounted'
    BY <1>5, <2>2 DEF StoreBundle, RecordBundle
  <2>3. ASSUME miscounted PROVE miscounted'
    BY <1>5, <2>3 DEF StoreBundle, RecordBundle
  <2>4. ASSUME w \notin overtaken
        PROVE  bundle' = verifier' /\ sync_key_version' = sync_key_version + 1
    BY <1>5, <2>4 DEF StoreBundle, SetSyncKeyBundle, KnowsRow
  <2>5. stored' = stored + 1 /\ bundle' \in past' /\ verifier' \in past'
    BY <1>5 DEF StoreBundle, SetSyncKeyBundle, RecordBundle
  <2>6. miscounted' \/ sync_key_version' = stored' + 1
    BY <2>2, <2>3, <2>4, <2>5, SMT
  <2>7. clashed' \/ bundle' = verifier'
    BY <2>2, <2>4
  <2> QED BY <1>1, <1>5, <2>1, <2>5, <2>6, <2>7, SMT DEF StoreBundle, SetSyncKeyBundle,
     RecordBundle, Overtake, Returns, KnowsRow
<1> QED BY <1>2, <1>3, <1>4, <1>5 DEF ChangeVerify, ChangeCredentials, StoreBundle

(* KeyInv holds in every reachable state. *)
THEOREM KeyInvariant == KeySpec => []KeyInv
<1>1. ASSUME KeyInit PROVE KeyInv
  <2>1. NoRow.version = 0 /\ NoRow \in [verifier : Passwords, version : Nat]
        /\ NoRequest \in [op : {"none", "change", "put"}, old : Passwords, new : Passwords]
    BY KeyAssumption DEF NoRow, NoRequest
  <2>2. KeyTypeOK
    BY <1>1, <2>1, KeyAssumption DEF KeyInit, KeyTypeOK
  <2> QED BY <1>1, <2>1, <2>2, SMT DEF KeyInit, KeyInv
<1>2. ASSUME KeyInv, KeyCrash PROVE KeyInv'
  <2>1. NoRow.version = 0 /\ NoRow \in [verifier : Passwords, version : Nat]
        /\ NoRequest \in [op : {"none", "change", "put"}, old : Passwords, new : Passwords]
    BY KeyAssumption DEF NoRow, NoRequest
  <2>2. clashed' \/ \A w \in Handlers : ~ Mending(w)
    BY <1>2 DEF KeyCrash, Mending
  <2> QED BY <1>2, <2>1, <2>2, SMT DEF KeyCrash, KeyInv, KeyTypeOK, account_vars, key_history
<1>3. ASSUME KeyInv, RowDeleted \/ UNCHANGED key_vars PROVE KeyInv'
  <2>1. exists' = exists \/ exists' = FALSE
    BY <1>3 DEF RowDeleted, key_vars, account_vars
  <2>2. /\ UNCHANGED <<verifier, bundle, sync_key_version, point, req, row, requests>>
        /\ UNCHANGED <<kills, stored, overtaken, clashed, miscounted, past>>
    BY <1>3 DEF RowDeleted, key_vars, account_vars, key_history
  <2>3. KeyTypeOK'
    BY <1>3, <2>1, <2>2 DEF KeyInv, KeyTypeOK
  <2> QED BY <1>3, <2>1, <2>2, <2>3, SMT DEF KeyInv, KnowsRow, Mending
<1>4. KeyInv /\ [KeyNext]_key_vars => KeyInv'
  BY <1>2, <1>3, FindKeepsKey, WriteKeepsKey DEF KeyNext
<1> QED BY <1>1, <1>4, PTL DEF KeySpec

(* ChangePassword and PUT /v1/sync/key-bundle: at rest the stored bundle is *)
(* wrapped under the password the account accepts and its version counts    *)
(* the bundles, for any number of threads and requests.  A write over an    *)
(* unseen write and a change cut off between its writes part them until the *)
(* next bundle is stored undisturbed, under a password once accepted.       *)
THEOREM KeyStaysRecoverable == KeySpec => []KeyRecoverable
<1>1. KeyInv => KeyRecoverable
  BY DEF KeyInv, KeyRecoverable, Mending
<1> QED BY <1>1, KeyInvariant, PTL
=============================================================================
