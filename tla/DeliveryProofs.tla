--------------------------- MODULE DeliveryProofs ---------------------------
(***************************************************************************)
(* Who may be given an envelope, what a device keeps, and how often and in *)
(* which order it gets it, in Relay for any constants.  OnlyParticipants,  *)
(* RevokedGetsNothingNew and NoSelfDelivery are not inductive: an envelope *)
(* is on its way through the locals of a sending thread, read at different *)
(* moments from tables others keep changing.  DeliveryInv says what is     *)
(* true of those locals.  HoldingInv adds which devices a fan-out or a     *)
(* purge has still to visit; StillHeld, RemovalPurges and RowsRefer follow *)
(* from it, and from OnceInv and OrderInv GivenOnce and SequentialOrder.   *)
(***************************************************************************)
EXTENDS RelayProofs

\* The prover of every leaf that names none.
USE Zenon

\* What the three properties say of an envelope given to a device.
MayReceive(e, d) ==
  /\ Owner[d] \in reached[e]
  /\ d \notin barred[e]
  /\ d # EnvSender[e]

GivenInv ==
  \A e \in Envelopes, d \in Devices : Given(e, d) => MayReceive(e, d)

\* The targets and devices a thread has still to visit.
FanOutInv ==
  \A w \in Workers : pc[w] = "fanout" =>
    /\ targets[w] \subseteq reached[Env(w)]
    /\ \A d \in devs[w] \cup offline[w] : MayReceive(Env(w), d)

\* A list of targets read now holds only users that are recorded.
LiveInv ==
  \A e \in Envelopes : Live(e) => Participants(EnvConv[e]) \subseteq reached[e]

\* Revocation is final: a revoked device is not listed as active later, since
\* the only way out of "revoked" is the deletion of the account.
BarredInv ==
  /\ \A d \in Devices : devices[d] = "active" => Owner[d] \in users
  /\ \A e \in Envelopes : \A d \in barred[e] :
       devices[d] = "revoked" \/ Owner[d] \notin users

\* Lists of devices are empty outside the loops that fill them.
LocalsInv ==
  \A w \in Workers :
    /\ pc[w] \notin {"fanout", "purge_queue"} => devs[w] = {}
    /\ pc[w] # "fanout" => offline[w] = {}

DeliveryInv == GivenInv /\ FanOutInv /\ LiveInv /\ BarredInv /\ LocalsInv

\* Thread w is not the one that moves.
SameLocals(w) ==
  /\ pc'[w] = pc[w] /\ req'[w] = req[w] /\ targets'[w] = targets[w]
  /\ devs'[w] = devs[w] /\ offline'[w] = offline[w]

----------------------------------------------------------------------------
(* What a step can change. *)

\* Nobody who was a participant is forgotten.
LEMMA ReachedGrows ==
  ASSUME TypeInv, [Next]_vars, NEW e \in Envelopes
  PROVE  reached[e] \subseteq reached'[e]
<1> USE DEF TypeInv, TypeOK, GhostTypeOK
<1>1. CASE UNCHANGED reached
  BY <1>1
<1>2. ASSUME NEW w \in Workers, RecordStore(w), Env(w) \in Envelopes
      PROVE  reached[e] \subseteq reached'[e]
  BY <1>2, SMT DEF RecordStore, ghost_vars
<1>3. ASSUME NEW c, NEW joined, RecordJoin(c, joined)
      PROVE  reached[e] \subseteq reached'[e]
  BY <1>3 DEF RecordJoin
<1>4. ASSUME NEW w \in Workers, WorkerStep(w)
      PROVE  \/ UNCHANGED reached
             \/ SendStore(w) /\ RecordStore(w)
             \/ \E c, joined : RecordJoin(c, joined)
  BY <1>4 DEF WorkerStep, SendStep, JoinStep, LeaveStep, RecordDone,
              RecordLeave, RecordPurge, ghost_vars
<1>5. ASSUME NEW w \in Workers, SendStore(w)
      PROVE  Env(w) \in Envelopes
  BY <1>5, EnvType DEF SendStore, SendLabels
<1>6. ASSUME Next
      PROVE  \/ UNCHANGED reached
             \/ \E w \in Workers : WorkerStep(w)
  BY <1>6 DEF Next, BeginRequest, Acknowledge, DeviceJoins, DeviceRevoked,
              DeleteUser, MaintenancePurge, WsConnect, WsDisconnect, Tick,
              Crash, RecordLeave, RecordCrash, ghost_vars
<1>7. CASE UNCHANGED vars
  BY <1>7, <1>1 DEF vars, ghost_vars
<1> QED
  BY <1>1, <1>2, <1>3, <1>4, <1>5, <1>6, <1>7

\* A device is barred when it is revoked, from what it does not have and what
\* no fan-out is about to give it.
LEMMA BarredCases ==
  ASSUME TypeInv, [Next]_vars, NEW e \in Envelopes, NEW d \in barred'[e]
  PROVE  \/ d \in barred[e]
         \/ /\ d \in Devices /\ DeviceRevoked(d) /\ ~ Given(e, d)
            /\ \A w \in Workers : ~ Listed(w, e, d)
<1>1. ASSUME NEW w \in Workers, WorkerStep(w) PROVE UNCHANGED barred
  BY <1>1 DEF WorkerStep, SendStep, JoinStep, LeaveStep, RecordStore, RecordDone,
              RecordJoin, RecordPurge, ghost_vars
<1>2. ASSUME NEW x \in Devices, DeviceRevoked(x)
      PROVE  \/ d \in barred[e]
             \/ d = x /\ ~ Given(e, x) /\ \A w \in Workers : ~ Listed(w, e, x)
  BY <1>2 DEF DeviceRevoked, RecordRevoke
<1>3. \/ UNCHANGED barred
      \/ \E x \in Devices : DeviceRevoked(x)
  BY <1>1 DEF Next, BeginRequest, Acknowledge, DeviceJoins, DeleteUser, MaintenancePurge,
              WsConnect, WsDisconnect, Tick, Crash, RecordCrash, vars, ghost_vars
<1> QED
  BY <1>2, <1>3

(* A device that has an envelope, or that a fan-out has on its list, may still
   receive it after any step. *)
LEMMA MayReceiveStable ==
  ASSUME TypeInv, [Next]_vars, NEW e \in Envelopes, NEW d, MayReceive(e, d),
         Given(e, d) \/ \E w \in Workers : Listed(w, e, d)
  PROVE  MayReceive(e, d)'
BY ReachedGrows, BarredCases DEF MayReceive

\* Enqueue adds the envelope to what the queue holds.
LEMMA RangeAppend ==
  ASSUME NEW s \in Seq(Envelopes), NEW e \in Envelopes
  PROVE  Range(Append(s, e)) = Range(s) \cup {e}
<1>1. PICK t : t = <<e>>
  BY Zenon
<1>2. Append(s, e) = s \o t
  BY <1>1, AppendIsConcat, SMT
<1>3. t \in Seq(Envelopes) /\ Range(t) = {e}
  BY <1>1, SMT DEF Range
<1>4. Range(s \o t) = Range(s) \cup Range(t)
  BY <1>3, RangeConcatenation, SMT
<1> QED
  BY <1>2, <1>3, <1>4

\* A step leaves the queues, rows and pushes alone or removes from them, or it
\* is the fan-out step of a thread that has the device on its list.
LEMMA NewlyGiven ==
  ASSUME TypeInv, [Next]_vars, NEW e \in Envelopes, NEW d \in Devices,
         Given(e, d)'
  PROVE  \/ Given(e, d)
         \/ \E w \in Workers : Listed(w, e, d)
<1> USE DEF TypeInv, TypeOK, Listed
<1>1. CASE UNCHANGED <<pending, pushed>> /\ delivery_state' \subseteq delivery_state
  BY <1>1 DEF Given, Held, Queued
<1>2. ASSUME NEW w \in Workers, FanOutEnqueue(w)
      PROVE  Given(e, d) \/ (pc[w] = "fanout" /\ Env(w) = e /\ d \in devs[w])
  <2>1. PICK x \in devs[w] : Enqueue(Env(w), x) \/ UNCHANGED delivery_vars
    BY <1>2 DEF FanOutEnqueue
  <2>2. delivery_state' = delivery_state /\ pc[w] = "fanout"
    BY <1>2 DEF FanOutEnqueue, envelope_vars
  <2>3. CASE UNCHANGED delivery_vars
    BY <2>2, <2>3 DEF delivery_vars, Given, Held, Queued
  <2>4. CASE Enqueue(Env(w), x)
    <3>1. x \in Devices /\ Env(w) \in Envelopes /\ pending[x] \in Seq(Envelopes)
      BY <2>2, EnvType DEF WorkerTypeOK, DeliveryTypeOK, SendLabels
    <3>2. Range(Append(pending[x], Env(w))) = Range(pending[x]) \cup {Env(w)}
      BY <3>1, RangeAppend
    <3>3. \/ Queued(e, d)
          \/ <<e, d>> \in delivery_state
          \/ <<e, d>> \in pushed
          \/ e = Env(w) /\ d = x
      BY <2>2, <2>4, <3>1, <3>2 DEF Enqueue, Notify, Given, Held, Queued, DeliveryTypeOK
    <3> QED
      BY <2>2, <3>3 DEF Given, Held
  <2> QED
    BY <2>1, <2>3, <2>4
<1>3. ASSUME NEW w \in Workers, FanOutOffline(w)
      PROVE  Given(e, d) \/ (pc[w] = "fanout" /\ Env(w) = e /\ d \in offline[w])
  BY <1>3 DEF FanOutOffline, AddDeliveryState, delivery_vars, Given, Held,
              Queued
<1>4. ASSUME NEW w \in Workers, PurgeQueue(w)
      PROVE  Given(e, d)
  <2>1. PICK x \in devs[w] : PurgeConversationFromDeviceQueue(req[w].conv, x)
    BY <1>4 DEF PurgeQueue
  <2>2. PICK q : /\ q \in Selections(pending[x],
                           {y \in Envelopes : EnvConv[y] # req[w].conv})
                 /\ pending' = [pending EXCEPT ![x] = q]
                 /\ pushed' = pushed
    BY <2>1 DEF PurgeConversationFromDeviceQueue
  <2>3. Range(q) \subseteq Range(pending[x])
    BY <2>2, SelectionFacts DEF WorkerTypeOK, DeliveryTypeOK
  <2>4. Range(pending'[d]) \subseteq Range(pending[d])
    BY <2>2, <2>3 DEF DeliveryTypeOK
  <2> QED
    BY <1>4, <2>2, <2>4 DEF PurgeQueue, envelope_vars, Given, Held, Queued
<1>5. CASE Crash
  <2>1. Range(pending'[d]) = {}
    BY <1>5, SMT DEF Crash, Range
  <2> QED
    BY <1>5, <2>1 DEF Crash, store_vars, envelope_vars, Given, Held, Queued
<1>6. ASSUME NEW w \in Workers, WorkerStep(w)
      PROVE  \/ FanOutEnqueue(w) \/ FanOutOffline(w) \/ PurgeQueue(w)
             \/ /\ UNCHANGED <<pending, pushed>>
                /\ delivery_state' \subseteq delivery_state
  <2>1. CASE SendStep(w)
    BY <2>1 DEF SendStep, SendPolicy, SendDuplicate, SendStore, StoreEnvelope,
       SendTargets, FanOutUser, SendDone, delivery_vars, envelope_vars
  <2>2. CASE JoinStep(w)
    BY <2>2 DEF JoinStep, AddMemberCount, AddMemberStore,
       SubscribeChannelStore, delivery_vars, envelope_vars
  <2>3. CASE LeaveStep(w)
    BY <2>3 DEF LeaveStep, RemoveMemberStore, UnsubscribeChannelStore,
       PurgeRows, DeletePendingDeliveryForUserInConversation, DropRows,
       PurgeDevices, PurgeDone, delivery_vars, envelope_vars
  <2> QED
    BY <1>6, <2>1, <2>2, <2>3 DEF WorkerStep
<1>7. ASSUME Next
      PROVE  \/ Crash
             \/ \E w \in Workers : WorkerStep(w)
             \/ /\ UNCHANGED <<pending, pushed>>
                /\ delivery_state' \subseteq delivery_state
  BY <1>7 DEF Next, BeginRequest, SendBegin, AddMemberBegin,
     RemoveMemberBegin, ManageBegin, SubscribeChannelBegin,
     UnsubscribeChannelBegin, Acknowledge, MarkAcked, DeviceJoins,
     DeviceRevoked, DeleteUser, DropRows, MaintenancePurge, DeleteExpired,
     WsConnect, WsDisconnect, Tick, store_vars, delivery_vars, envelope_vars
<1>8. CASE UNCHANGED vars
  BY <1>8, <1>1 DEF vars, store_vars, delivery_vars, envelope_vars
<1> QED
  BY <1>1, <1>2, <1>3, <1>4, <1>5, <1>6, <1>7, <1>8

\* A thread in the fan-out got there by reading the targets, by visiting one
\* of them, or did not move.
LEMMA FanOutCases ==
  ASSUME TypeInv, [Next]_vars, NEW w \in Workers, pc'[w] = "fanout"
  PROVE  \/ SameLocals(w)
         \/ SendTargets(w) \/ FanOutUser(w)
         \/ FanOutEnqueue(w) \/ FanOutOffline(w)
<1> USE DEF TypeInv, TypeOK, WorkerTypeOK, SameLocals
<1>1. CASE UNCHANGED worker_vars
  BY <1>1 DEF worker_vars
<1>2. CASE Crash
  BY <1>2 DEF Crash
<1>3. ASSUME NEW v \in Workers, BeginRequest(v)
      PROVE  SameLocals(w)
  BY <1>3 DEF BeginRequest, SendBegin, AddMemberBegin, RemoveMemberBegin,
     ManageBegin, SubscribeChannelBegin, UnsubscribeChannelBegin, Begin, Goto
<1>4. ASSUME NEW v \in Workers, SendStep(v)
      PROVE  \/ SameLocals(w)
             \/ SendTargets(w) \/ FanOutUser(w)
             \/ FanOutEnqueue(w) \/ FanOutOffline(w)
  BY <1>4 DEF SendStep, SendPolicy, SendDuplicate, SendStore, SendTargets,
     FanOutUser, FanOutEnqueue, FanOutOffline, SendDone, Continue, Finish, Goto
<1>5. ASSUME NEW v \in Workers, JoinStep(v) \/ LeaveStep(v)
      PROVE  SameLocals(w)
  BY <1>5 DEF JoinStep, LeaveStep, AddMemberCount, AddMemberStore,
     SubscribeChannelStore, RemoveMemberStore, UnsubscribeChannelStore,
     PurgeRows, PurgeDevices, PurgeQueue, PurgeDone, Continue, Finish, Goto
<1>6. CASE Next
  BY <1>1, <1>2, <1>3, <1>4, <1>5, <1>6 DEF Next, WorkerStep, Acknowledge,
     DeviceJoins, DeviceRevoked, DeleteUser, MaintenancePurge, WsConnect,
     WsDisconnect, Tick
<1> QED
  BY <1>1, <1>6 DEF vars

----------------------------------------------------------------------------
(* The invariant. *)

(* An envelope is given only to devices that a fan-out held already. *)
LEMMA GivenPreserved ==
  ASSUME TypeInv, DeliveryInv, [Next]_vars
  PROVE  GivenInv'
<1> SUFFICES ASSUME NEW e \in Envelopes, NEW d \in Devices, Given(e, d)'
             PROVE  MayReceive(e, d)'
  BY DEF GivenInv
<1>1. MayReceive(e, d)
  BY NewlyGiven, SMT DEF DeliveryInv, GivenInv, FanOutInv, Listed
<1> QED
  BY <1>1, NewlyGiven, MayReceiveStable

(* What a fan-out holds stays within participants and unrevoked devices. *)
LEMMA FanOutPreserved ==
  ASSUME TypeInv, DeliveryInv, [Next]_vars
  PROVE  FanOutInv'
<1> SUFFICES ASSUME NEW w \in Workers, pc'[w] = "fanout"
             PROVE  /\ targets'[w] \subseteq (reached[Env(w)])'
                    /\ \A d \in devs'[w] \cup offline'[w] :
                         MayReceive(Env(w), d)'
  BY DEF FanOutInv
<1> USE DEF DeliveryInv, TypeInv, TypeOK, WorkerTypeOK
<1>e. req'[w] = req[w] /\ pc[w] \in {"targets", "fanout"}
  BY FanOutCases DEF SameLocals, SendTargets, FanOutUser, FanOutEnqueue,
     FanOutOffline
<1>f. Env(w) \in Envelopes /\ Conv(w) \in Conversations /\ Env(w)' = Env(w)
  BY <1>e, EnvType DEF SendLabels, Env
<1>m. /\ reached[Env(w)] \subseteq reached'[Env(w)]
      /\ pc[w] = "fanout" => \A d \in devs[w] \cup offline[w] : MayReceive(Env(w), d)'
  <2>1. ASSUME NEW e \in Envelopes, Env(w) = e, pc[w] = "fanout", NEW d \in devs[w] \cup offline[w]
        PROVE  MayReceive(e, d)'
    <3>1. MayReceive(e, d) /\ Listed(w, e, d)
      BY <2>1 DEF FanOutInv, Listed
    <3> QED
      BY <3>1, MayReceiveStable
  <2>2. ASSUME pc[w] = "fanout", NEW d \in devs[w] \cup offline[w]
        PROVE  MayReceive(Env(w), d)'
    BY <2>1, <2>2, <1>f DEF MayReceive
  <2> QED
    BY <2>2, <1>f, ReachedGrows
<1>1. CASE SameLocals(w)
  BY <1>1, <1>e, <1>f, <1>m DEF SameLocals, FanOutInv
<1>2. CASE SendTargets(w)
  <2>1. targets'[w] = Participants(Conv(w)) /\ UNCHANGED <<devs, offline>>
    BY <1>2 DEF SendTargets
  <2>2. Live(Env(w)) /\ Conv(w) = EnvConv[Env(w)]
    BY <1>2 DEF SendTargets, Live, InFanOut, Conv
  <2>3. targets'[w] \subseteq reached[Env(w)]
    BY <2>1, <2>2, <1>f DEF LiveInv
  <2>4. devs[w] = {} /\ offline[w] = {}
    BY <1>2 DEF SendTargets, LocalsInv
  <2> QED
    BY <2>1, <2>3, <2>4, <1>f, <1>m
<1>3. CASE FanOutUser(w)
  <2>1. PICK u \in targets[w] :
          /\ targets' = [targets EXCEPT ![w] = @ \ {u}]
          /\ devs' = [devs EXCEPT ![w] = FanOutDevices(w, u)]
    BY <1>3 DEF FanOutUser
  <2>2. offline'[w] = {} /\ pc[w] = "fanout"
    BY <1>3 DEF FanOutUser
  <2>3. u \in reached[Env(w)] /\ targets'[w] \subseteq reached[Env(w)]
    BY <2>1, <2>2 DEF FanOutInv
  <2>4. ASSUME NEW d \in devs'[w]
        PROVE  MayReceive(Env(w), d)'
    <3>1. /\ d \in Devices /\ Owner[d] = u
          /\ devices[d] = "active" /\ d # EnvSender[Env(w)]
      BY <2>1, <2>4 DEF FanOutDevices, GetDevicesForUser, DevicesOf,
                        DeviceTypeOK
    <3>2. d \notin barred[Env(w)]
      BY <1>f, <3>1 DEF BarredInv
    <3>3. targets' # targets
      BY <2>1
    <3>4. d \notin barred'[Env(w)]
      BY <1>f, <3>2, <3>3, BarredCases DEF DeviceRevoked, worker_vars
    <3> QED
      BY <1>f, <1>m, <2>3, <3>1, <3>4 DEF MayReceive
  <2> QED
    BY <2>2, <2>3, <2>4, <1>f, <1>m
<1>4. CASE FanOutEnqueue(w)
  BY <1>4, <1>e, <1>f, <1>m, SMTT(30) DEF FanOutEnqueue, FanOutInv
<1>5. CASE FanOutOffline(w)
  BY <1>5, <1>e, <1>f, <1>m, ZenonT(30) DEF FanOutOffline, FanOutInv
<1> QED
  BY <1>1, <1>2, <1>3, <1>4, <1>5, FanOutCases

(* Lists of devices stay empty outside the loops that fill them. *)
LEMMA LocalsPreserved ==
  ASSUME TypeInv, LocalsInv, [Next]_vars
  PROVE  LocalsInv'
<1> USE DEF TypeInv, TypeOK, WorkerTypeOK, LocalsInv
<1>1. CASE UNCHANGED worker_vars
  BY <1>1 DEF worker_vars
<1>2. CASE Crash
  BY <1>2 DEF Crash
<1>3. ASSUME NEW v \in Workers, BeginRequest(v)
      PROVE  LocalsInv'
  BY <1>3 DEF BeginRequest, SendBegin, AddMemberBegin, RemoveMemberBegin,
     ManageBegin, SubscribeChannelBegin, UnsubscribeChannelBegin, Begin, Goto
<1>4. ASSUME NEW v \in Workers, SendStep(v)
      PROVE  LocalsInv'
  BY <1>4 DEF SendStep, SendPolicy, SendDuplicate, SendStore, SendTargets,
     FanOutUser, FanOutEnqueue, FanOutOffline, SendDone, Continue, Finish, Goto
<1>5. ASSUME NEW v \in Workers, JoinStep(v) \/ LeaveStep(v)
      PROVE  LocalsInv'
  BY <1>5 DEF JoinStep, LeaveStep, AddMemberCount, AddMemberStore,
     SubscribeChannelStore, RemoveMemberStore, UnsubscribeChannelStore,
     PurgeRows, PurgeDevices, PurgeQueue, PurgeDone, Continue, Finish, Goto
<1>6. CASE Next
  BY <1>1, <1>2, <1>3, <1>4, <1>5, <1>6 DEF Next, WorkerStep, Acknowledge,
     DeviceJoins, DeviceRevoked, DeleteUser, MaintenancePurge, WsConnect,
     WsDisconnect, Tick
<1> QED
  BY <1>1, <1>6 DEF vars

(* The steps that register, revoke or delete devices; all others keep the table. *)
LEMMA DeviceCases ==
  ASSUME [Next]_vars
  PROVE  \/ UNCHANGED device_vars
         \/ \E d \in Devices : DeviceJoins(d) \/ DeviceRevoked(d)
         \/ \E u \in Users : DeleteUser(u)
<1>1. ASSUME NEW w \in Workers, BeginRequest(w)
      PROVE  UNCHANGED device_vars
  BY <1>1 DEF BeginRequest, SendBegin, AddMemberBegin, RemoveMemberBegin,
     ManageBegin, SubscribeChannelBegin, UnsubscribeChannelBegin
<1>2. ASSUME NEW w \in Workers, WorkerStep(w)
      PROVE  UNCHANGED device_vars
  BY <1>2 DEF WorkerStep, SendStep, SendPolicy, SendDuplicate, SendStore,
     SendTargets, FanOutUser, FanOutEnqueue, FanOutOffline, SendDone,
     JoinStep, AddMemberCount, AddMemberStore, SubscribeChannelStore,
     LeaveStep, RemoveMemberStore, UnsubscribeChannelStore, PurgeRows,
     PurgeDevices, PurgeQueue, PurgeDone
<1> QED
  BY <1>1, <1>2 DEF Next, vars, store_vars, Acknowledge, MaintenancePurge,
     WsConnect, WsDisconnect, Tick, Crash

\* A revoked device stays revoked unless its account is deleted, and accounts
\* do not come back.
LEMMA RevocationFinal ==
  ASSUME TypeInv, [Next]_vars, NEW d \in Devices
  PROVE  /\ users' \subseteq users
         /\ devices[d] = "revoked" =>
              devices'[d] = "revoked" \/ Owner[d] \notin users'
         /\ (devices[d] = "active" => Owner[d] \in users) =>
              (devices'[d] = "active" => Owner[d] \in users')
BY DeviceCases DEF device_vars, DeviceJoins, RegisterDevice, RegisterAllowed, DeviceRevoked,
   RevokeDevice, DeleteUser, TypeInv, TypeOK, DeviceTypeOK

\* Where a thread that is to fan out an envelope comes from.
LEMMA StoredCases ==
  ASSUME TypeInv, [Next]_vars, NEW w \in Workers,
         pc'[w] \in {"targets", "fanout"}
  PROVE  /\ req'[w] = req[w]
         /\ \/ pc[w] \in {"targets", "fanout"}
            \/ pc[w] = "store" /\ SendStore(w) /\ RecordStore(w)
               /\ StoreAllowed(Env(w))
<1> USE DEF TypeInv, TypeOK, WorkerTypeOK
<1>1. CASE UNCHANGED worker_vars
  BY <1>1 DEF worker_vars
<1>2. CASE Crash
  BY <1>2 DEF Crash
<1>3. ASSUME NEW v \in Workers, BeginRequest(v)
      PROVE  req'[w] = req[w] /\ pc'[w] = pc[w]
  BY <1>3 DEF BeginRequest, SendBegin, AddMemberBegin, RemoveMemberBegin,
     ManageBegin, SubscribeChannelBegin, UnsubscribeChannelBegin, Begin, Goto
<1>4. ASSUME NEW v \in Workers, SendStep(v)
      PROVE  /\ req'[w] = req[w]
             /\ \/ pc[w] \in {"targets", "fanout"}
                \/ pc[w] = "store" /\ SendStore(w) /\ RecordStore(w)
                   /\ StoreAllowed(Env(w))
  BY <1>4 DEF SendStep, SendPolicy, SendDuplicate, SendStore, SendTargets,
     FanOutUser, FanOutEnqueue, FanOutOffline, SendDone, Continue, Finish, Goto
<1>5. ASSUME NEW v \in Workers, JoinStep(v) \/ LeaveStep(v)
      PROVE  req'[w] = req[w] /\ pc'[w] = pc[w]
  BY <1>5 DEF JoinStep, LeaveStep, AddMemberCount, AddMemberStore,
     SubscribeChannelStore, RemoveMemberStore, UnsubscribeChannelStore,
     PurgeRows, PurgeDevices, PurgeQueue, PurgeDone, Continue, Finish, Goto
<1>6. CASE Next
  BY <1>1, <1>2, <1>3, <1>4, <1>5, <1>6 DEF Next, WorkerStep, Acknowledge,
     DeviceJoins, DeviceRevoked, DeleteUser, MaintenancePurge, WsConnect,
     WsDisconnect, Tick
<1> QED
  BY <1>1, <1>6 DEF vars

(* A revoked device is never active again. *)
LEMMA BarredPreserved ==
  ASSUME TypeInv, BarredInv, [Next]_vars
  PROVE  BarredInv'
<1> USE DEF TypeInv, TypeOK
<1>1. \A d \in Devices : devices'[d] = "active" => Owner[d] \in users'
  BY RevocationFinal DEF BarredInv
<1>2. ASSUME NEW e \in Envelopes, NEW d \in barred'[e]
      PROVE  devices'[d] = "revoked" \/ Owner[d] \notin users'
  <2>1. CASE d \in barred[e]
    <3>1. d \in Devices
      BY <2>1 DEF GhostTypeOK
    <3> QED
      BY <2>1, <3>1, RevocationFinal DEF BarredInv
  <2>2. CASE d \in Devices /\ DeviceRevoked(d)
    BY <2>2 DEF DeviceRevoked, RevokeDevice, DeviceTypeOK
  <2> QED
    BY <2>1, <2>2, BarredCases
<1> QED
  BY <1>1, <1>2 DEF BarredInv

\* A step that adds a participant to a conversation records it in the
\* envelopes that may still be fanned out there.
LEMMA ParticipantsCases ==
  ASSUME TypeInv, [Next]_vars, NEW c \in Conversations,
         NEW u \in Participants(c)'
  PROVE  \/ u \in Participants(c)
         \/ \E joined : u \in joined /\ RecordJoin(c, joined)
<1> USE DEF TypeInv, TypeOK
<1>1. CASE UNCHANGED conversation_vars
  BY <1>1 DEF conversation_vars, Participants, GetMembers, GetSubscribers
<1>2. ASSUME NEW w \in Workers, AddMemberStore(w) \/ SubscribeChannelStore(w),
             RecordJoin(req[w].conv, {req[w].user} \cap users)
      PROVE  \/ u \in Participants(c)
             \/ \E joined : u \in joined /\ RecordJoin(c, joined)
  <2>1. req[w].conv \in Conversations /\ req[w].user \in Users
    BY <1>2 DEF AddMemberStore, SubscribeChannelStore, RequestMatches, Fits,
                AddRequest, SubscriptionRequest
  <2>2. \/ u \in Participants(c)
        \/ u = req[w].user /\ u \in users /\ c = req[w].conv
    <3>1. CASE AddMemberStore(w)
      <4>1. CASE UNCHANGED conversation_vars
        BY <4>1 DEF conversation_vars, Participants, GetMembers, GetSubscribers
      <4>2. CASE /\ req[w].user \in users
                 /\ AddMember(req[w].conv, req[w].user, req[w].role)
        <5>1. /\ channel_subscriptions' = channel_subscriptions
              /\ conversation_members' = [conversation_members EXCEPT
                   ![req[w].conv][req[w].user] = req[w].role]
          BY <4>2 DEF AddMember
        <5>2. \A x \in Users : c # req[w].conv \/ x # req[w].user
                => conversation_members'[c][x] = conversation_members[c][x]
          BY <5>1, <2>1 DEF ConversationTypeOK
        <5> QED
          BY <4>2, <5>1, <5>2 DEF Participants, GetMembers, GetSubscribers
      <4> QED
        BY <3>1, <4>1, <4>2 DEF AddMemberStore
    <3>2. CASE SubscribeChannelStore(w)
      BY <3>2, <2>1, <1>1, SMT DEF SubscribeChannelStore, Subscribe, Participants,
         GetMembers, GetSubscribers, ConversationTypeOK, conversation_vars
    <3> QED
      BY <1>2, <3>1, <3>2
  <2> QED
    BY <1>2, <2>2
<1>3. ASSUME NEW w \in Workers,
             RemoveMemberStore(w) \/ UnsubscribeChannelStore(w)
      PROVE  u \in Participants(c)
  <2>1. req[w].conv \in Conversations /\ req[w].user \in Users
    BY <1>3 DEF RemoveMemberStore, UnsubscribeChannelStore, RequestMatches,
                Fits, LeaveLabels, RemoveRequest, SubscriptionRequest
  <2> QED
    BY <1>3, <2>1, SMTT(30) DEF RemoveMemberStore, RemoveMember, Unsubscribe,
       UnsubscribeChannelStore, Participants, GetMembers, GetSubscribers,
       ConversationTypeOK
<1>4. ASSUME NEW x \in Users, DeleteUser(x)
      PROVE  u \in Participants(c)
  BY <1>4 DEF DeleteUser, Participants, GetMembers, GetSubscribers,
              ConversationTypeOK
<1>5. ASSUME NEW w \in Workers, BeginRequest(w)
      PROVE  UNCHANGED conversation_vars
  BY <1>5 DEF BeginRequest, SendBegin, AddMemberBegin, RemoveMemberBegin,
     ManageBegin, SubscribeChannelBegin, UnsubscribeChannelBegin
<1>6. ASSUME NEW w \in Workers, WorkerStep(w)
      PROVE  \/ UNCHANGED conversation_vars
             \/ /\ AddMemberStore(w) \/ SubscribeChannelStore(w)
                /\ RecordJoin(req[w].conv, {req[w].user} \cap users)
             \/ RemoveMemberStore(w) \/ UnsubscribeChannelStore(w)
  BY <1>6 DEF WorkerStep, SendStep, SendPolicy, SendDuplicate, SendStore,
     SendTargets, FanOutUser, FanOutEnqueue, FanOutOffline, SendDone,
     JoinStep, AddMemberCount, LeaveStep, PurgeRows, PurgeDevices, PurgeQueue,
     PurgeDone
<1>7. ASSUME Next
      PROVE  \/ UNCHANGED conversation_vars
             \/ \E w \in Workers : WorkerStep(w)
             \/ \E x \in Users : DeleteUser(x)
  BY <1>5, <1>7 DEF Next, Acknowledge, DeviceJoins, DeviceRevoked,
     MaintenancePurge, WsConnect, WsDisconnect, Tick, Crash, store_vars
<1>8. CASE UNCHANGED vars
  BY <1>8, <1>1 DEF vars, store_vars
<1> QED
  BY <1>1, <1>2, <1>3, <1>4, <1>6, <1>7, <1>8

(* A new row of encrypted_envelopes comes from SendStore only. *)
LEMMA EnvelopeCases ==
  ASSUME [Next]_vars, NEW e, e \in encrypted_envelopes'
  PROVE  \/ e \in encrypted_envelopes
         \/ \E w \in Workers : /\ SendStore(w) /\ RecordStore(w)
                               /\ StoreAllowed(Env(w)) /\ Env(w) = e
<1>1. ASSUME NEW w \in Workers, BeginRequest(w)
      PROVE  UNCHANGED encrypted_envelopes
  BY <1>1 DEF BeginRequest, SendBegin, AddMemberBegin, RemoveMemberBegin,
     ManageBegin, SubscribeChannelBegin, UnsubscribeChannelBegin,
     envelope_vars
<1>2. ASSUME NEW w \in Workers, WorkerStep(w)
      PROVE  \/ UNCHANGED encrypted_envelopes
             \/ /\ SendStore(w) /\ RecordStore(w)
                /\ StoreAllowed(Env(w)) /\ Env(w) = e
             \/ e \in encrypted_envelopes
  BY <1>2 DEF WorkerStep, SendStep, SendPolicy, SendDuplicate, SendStore,
     StoreEnvelope, SendTargets, FanOutUser, FanOutEnqueue, FanOutOffline,
     AddDeliveryState, SendDone, JoinStep, AddMemberCount, AddMemberStore,
     SubscribeChannelStore, LeaveStep, RemoveMemberStore,
     UnsubscribeChannelStore, PurgeRows,
     DeletePendingDeliveryForUserInConversation, PurgeDevices, PurgeQueue,
     PurgeDone, envelope_vars
<1> QED
  BY <1>1, <1>2 DEF Next, vars, store_vars, envelope_vars, Acknowledge,
     MarkAcked, DeviceJoins, DeviceRevoked, DeleteUser, MaintenancePurge,
     DeleteExpired, WsConnect, WsDisconnect, Tick, Crash

(* Every participant of a live envelope's conversation stays recorded. *)
LEMMA LivePreserved ==
  ASSUME TypeInv, LiveInv, [Next]_vars
  PROVE  LiveInv'
<1> SUFFICES ASSUME NEW e \in Envelopes, Live(e)',
                    NEW u \in Participants(EnvConv[e])'
             PROVE  u \in reached'[e]
  BY DEF LiveInv
<1> USE DEF TypeInv, TypeOK
<1>c. EnvConv[e] \in Conversations
  BY TypesAssumption, OwnerAssumption
<1>1. CASE Live(e)
  <2>1. CASE u \in Participants(EnvConv[e])
    BY <1>1, <2>1, ReachedGrows DEF LiveInv
  <2>2. CASE \E joined : u \in joined /\ RecordJoin(EnvConv[e], joined)
    BY <1>1, <2>2 DEF RecordJoin
  <2> QED
    BY <1>c, <2>1, <2>2, ParticipantsCases
<1>2. CASE ~ Live(e)
  <2>1. PICK w \in Workers : /\ SendStore(w) /\ RecordStore(w)
                             /\ StoreAllowed(Env(w)) /\ Env(w) = e
    <3>1. CASE e \in encrypted_envelopes'
      BY <1>2, <3>1, EnvelopeCases DEF Live
    <3>2. CASE \E w \in Workers : InFanOut(w, e)'
      <4>1. PICK w \in Workers : InFanOut(w, e)'
        BY <3>2
      <4>2. pc'[w] \in {"targets", "fanout"} /\ Env(w)' = e
        BY <4>1 DEF InFanOut
      <4>3. Env(w) = e
        BY <4>2, StoredCases DEF Env
      <4> QED
        BY <1>2, <4>2, <4>3, StoredCases DEF Live, InFanOut
    <3> QED
      BY <3>1, <3>2 DEF Live
  <2>2. Participants(EnvConv[e])' = Participants(EnvConv[e])
    BY <2>1 DEF SendStore, conversation_vars, Participants, GetMembers,
                GetSubscribers
  <2> QED
    BY <2>1, <2>2, SMTT(30) DEF RecordStore, GhostTypeOK
<1> QED
  BY <1>1, <1>2

(* The delivery invariant holds when the server starts. *)
LEMMA InitDeliveryInv == Init => DeliveryInv
<1> SUFFICES ASSUME Init PROVE DeliveryInv
  OBVIOUS
<1> USE DEF Init, WorkerInit
<1>1. GivenInv
  BY SMT DEF GivenInv, Given, Held, Queued, Range
<1>2. FanOutInv /\ LocalsInv
  BY DEF FanOutInv, LocalsInv
<1>3. LiveInv
  BY DEF LiveInv, Live, InFanOut
<1>4. BarredInv
  BY TypesAssumption, OwnerAssumption DEF BarredInv
<1> QED
  BY <1>1, <1>2, <1>3, <1>4 DEF DeliveryInv

(* The delivery invariant holds in every reachable state of the relay. *)
THEOREM DeliverySafe == Spec => []DeliveryInv
<1>1. TypeInv /\ DeliveryInv /\ [Next]_vars => DeliveryInv'
  BY GivenPreserved, FanOutPreserved, LivePreserved, BarredPreserved,
     LocalsPreserved DEF DeliveryInv
<1>2. Spec => []TypeInv
  BY InitTypeInv, NextTypeInv, PTL DEF Spec
<1> QED
  BY <1>1, <1>2, InitDeliveryInv, PTL DEF Spec

\* Only users who were in the conversation at some moment since the envelope
\* was stored are given it (RelayService::SendEnvelope), however sends,
\* membership changes, revocations, deletions and crashes interleave.
THEOREM ParticipantsOnly == Spec => []OnlyParticipants
<1>1. DeliveryInv => OnlyParticipants
  BY DEF DeliveryInv, GivenInv, MayReceive, OnlyParticipants
<1> QED
  BY <1>1, DeliverySafe, PTL

\* From its revocation on a device is given nothing new, except by a fan-out that
\* had listed it before (RelayService::FanOutToDevices), whenever the revocation
\* comes among the steps of any number of sends.
THEOREM RevocationHolds == Spec => []RevokedGetsNothingNew
<1>1. DeliveryInv => RevokedGetsNothingNew
  BY DEF DeliveryInv, GivenInv, MayReceive, RevokedGetsNothingNew
<1> QED
  BY <1>1, DeliverySafe, PTL

\* The sending device is never given its own envelope.
THEOREM SenderSkipped == Spec => []NoSelfDelivery
<1>1. DeliveryInv => NoSelfDelivery
  BY TypesAssumption, OwnerAssumption
     DEF DeliveryInv, GivenInv, MayReceive, NoSelfDelivery
<1> QED
  BY <1>1, DeliverySafe, PTL

----------------------------------------------------------------------------
(* What a device holds, and for how long.                                  *)

\* Thread w has still to visit device d for envelope e.
OnItsWay(w, e, d) ==
  /\ InFanOut(w, e)
  /\ pc[w] = "fanout" => Owner[d] \in targets[w] \/ d \in devs[w] \cup offline[w]

\* Rows of accounts that are gone are gone.
PresentInv ==
  \A d \in Devices :
    /\ devices[d] # "absent" => Owner[d] \in users
    /\ \A e \in Envelopes : Queued(e, d) /\ Owner[d] \in users => devices[d] # "absent"

\* The loops visit a device once.
LoopInv ==
  \A w \in Workers :
    /\ pc[w] = "fanout" =>
         /\ \A d \in devs[w] \cup offline[w] :
              /\ Owner[d] \notin targets[w]
              /\ Owner[d] \in users => devices[d] # "absent"
         /\ devs[w] \cap offline[w] = {}
         /\ \A x, y \in offline[w] : x = y
    /\ pc[w] = "purge_queue" => devs[w] \subseteq DevicesOf(req[w].user)

\* A steady receiver is a participant that no purge is about to clear, and an
\* envelope it does not hold is on its way to it.
SteadyInv ==
  /\ \A e \in Envelopes : \A d \in steady[e] :
       /\ devices[d] = "active" /\ d # EnvSender[e]
       /\ Owner[d] \in Participants(EnvConv[e])
       /\ Owner[d] \notin excused[e] =>
            /\ \A w \in Workers : ~ Purging(w, EnvConv[e], Owner[d])
            /\ e \in encrypted_envelopes =>
                 Held(e, d) \/ \E w \in Workers : OnItsWay(w, e, d)
  /\ \A e \in completed, w \in Workers : ~ InFanOut(w, e)

\* While no envelope expires its row, or the deletion of its sender, keeps an
\* envelope from being stored a second time.
Spent(e) == e \in encrypted_envelopes \/ Owner[EnvSender[e]] \notin users

OnceInv ==
  /\ \A e \in Envelopes :
       /\ (\E w \in Workers : InFanOut(w, e)) => Spent(e)
       /\ (\E d \in Devices : Held(e, d)) => Spent(e)
       /\ e \in completed => Spent(e)
       /\ \A v, w \in Workers : InFanOut(v, e) /\ InFanOut(w, e) => v = w
       /\ \A w \in Workers, d \in Devices : OnItsWay(w, e, d) => ~ Held(e, d)
  /\ GivenOnce

\* An envelope that was answered before another one was stored is not fanned out
\* any more.
OrderInv ==
  /\ \A a, b \in Envelopes : <<a, b>> \in before =>
       Spent(a) /\ \A w \in Workers : ~ InFanOut(w, a)
  /\ SequentialOrder

\* What a user outside the conversation holds is being purged, or was read by a
\* fan-out before the user left, or is a row whose purge a crash cut off.
LeftInv ==
  \A e \in Envelopes, d \in Devices :
    (/\ Owner[d] \in users \ Participants(EnvConv[e])
     /\ Owner[d] \notin overtaken[e]) =>
      /\ \A w \in Workers : OnItsWay(w, e, d) => pc[w] = "targets"
      /\ <<e, d>> \in delivery_state =>
           \/ <<EnvConv[e], Owner[d]>> \in cut
           \/ \E w \in Workers :
                Purging(w, EnvConv[e], Owner[d]) /\ pc[w] = "purge_rows"
      /\ Queued(e, d) => \E w \in Workers :
           /\ Purging(w, EnvConv[e], Owner[d])
           /\ pc[w] = "purge_queue" => d \in devs[w]

\* Labels of the loops over devices, and of the calls around them.
Loops == {"targets", "fanout", "purge_rows", "purge_devices", "purge_queue"}

Leaves(w) ==
  /\ RemoveMemberStore(w) \/ UnsubscribeChannelStore(w)
  /\ RecordLeave(OfConversation(req[w].conv), DevicesOf(req[w].user), {req[w].user})

Stores(w) == SendStore(w) /\ RecordStore(w) /\ StoreAllowed(Env(w))

\* What moves a thread to, within or out of a loop.
LEMMA LoopCases ==
  ASSUME TypeInv, [Next]_vars, NEW w \in Workers
  PROVE  \/ SameLocals(w) \/ Crash
         \/ pc[w] \notin Loops /\ pc'[w] \notin Loops
         \/ Stores(w) \/ SendTargets(w) \/ FanOutUser(w) \/ FanOutEnqueue(w) \/ FanOutOffline(w)
         \/ SendDone(w) \/ Leaves(w)
         \/ PurgeRows(w) \/ PurgeDevices(w) \/ PurgeQueue(w) \/ PurgeDone(w)
<1> USE DEF TypeInv, TypeOK, WorkerTypeOK, SameLocals
<1>1. CASE UNCHANGED worker_vars
  BY <1>1 DEF worker_vars
<1>2. ASSUME NEW v \in Workers, BeginRequest(v)
      PROVE  SameLocals(w) \/ (pc[w] \notin Loops /\ pc'[w] \notin Loops)
  BY <1>2 DEF BeginRequest, SendBegin, AddMemberBegin, RemoveMemberBegin, ManageBegin,
     SubscribeChannelBegin, UnsubscribeChannelBegin, Begin, Goto, Loops
<1>3. ASSUME NEW v \in Workers, v # w, WorkerStep(v) PROVE SameLocals(w)
  <2>1. CASE SendStep(v)
    BY <1>3, <2>1 DEF SendStep, SendPolicy, SendDuplicate, SendStore, SendTargets, FanOutUser,
       FanOutEnqueue, FanOutOffline, SendDone, Continue, Finish, Goto
  <2>2. CASE JoinStep(v) \/ LeaveStep(v)
    BY <1>3, <2>2 DEF JoinStep, LeaveStep, AddMemberCount, AddMemberStore,
       SubscribeChannelStore, RemoveMemberStore, UnsubscribeChannelStore, PurgeRows,
       PurgeDevices, PurgeQueue, PurgeDone, Continue, Finish, Goto
  <2> QED
    BY <1>3, <2>1, <2>2 DEF WorkerStep
<1>4. ASSUME SendPolicy(w) \/ SendDuplicate(w) \/ AddMemberCount(w) \/ AddMemberStore(w)
             \/ SubscribeChannelStore(w) \/ (SendStore(w) /\ ~ StoreAllowed(Env(w)))
      PROVE  pc[w] \notin Loops /\ pc'[w] \notin Loops
  BY <1>4 DEF SendPolicy, SendDuplicate, SendStore, AddMemberCount, AddMemberStore,
     SubscribeChannelStore, Continue, Finish, Goto, Loops
<1>5. CASE WorkerStep(w)
  BY <1>4, <1>5 DEF WorkerStep, SendStep, JoinStep, LeaveStep, Leaves, Stores
<1>6. CASE Next
  BY <1>1, <1>2, <1>3, <1>5, <1>6 DEF Next, Acknowledge, DeviceJoins, DeviceRevoked, DeleteUser,
     MaintenancePurge, WsConnect, WsDisconnect, Tick
<1> QED
  BY <1>1, <1>6 DEF vars

\* The steps that change a queue or the delivery rows.
LEMMA HolderCases ==
  ASSUME [Next]_vars
  PROVE  \/ UNCHANGED <<pending, delivery_state>>
         \/ \E w \in Workers :
              /\ FanOutEnqueue(w) \/ FanOutOffline(w) \/ PurgeRows(w) \/ PurgeQueue(w)
              /\ UNCHANGED <<completed, before>>
         \/ \E u \in Users : DeleteUser(u)
         \/ MaintenancePurge \/ Crash
<1>1. ASSUME NEW w \in Workers, BeginRequest(w) PROVE UNCHANGED <<pending, delivery_state>>
  BY <1>1 DEF BeginRequest, SendBegin, AddMemberBegin, RemoveMemberBegin, ManageBegin,
     SubscribeChannelBegin, UnsubscribeChannelBegin, delivery_vars, envelope_vars
<1>2. ASSUME NEW w \in Workers, WorkerStep(w)
      PROVE  \/ UNCHANGED <<pending, delivery_state>>
             \/ /\ FanOutEnqueue(w) \/ FanOutOffline(w) \/ PurgeRows(w) \/ PurgeQueue(w)
                /\ UNCHANGED <<completed, before>>
  <2>1. CASE SendStep(w)
    BY <2>1 DEF SendStep, SendPolicy, SendDuplicate, SendStore, StoreEnvelope, SendTargets,
       FanOutUser, SendDone, delivery_vars, envelope_vars, ghost_vars
  <2>2. CASE JoinStep(w) \/ LeaveStep(w)
    BY <2>2 DEF RecordPurge, ghost_vars, JoinStep, LeaveStep, AddMemberCount, AddMemberStore, SubscribeChannelStore,
       RemoveMemberStore, UnsubscribeChannelStore, PurgeDevices, PurgeDone, delivery_vars,
       envelope_vars
  <2> QED
    BY <1>2, <2>1, <2>2 DEF WorkerStep
<1> QED
  BY <1>1, <1>2 DEF Next, vars, store_vars, delivery_vars, envelope_vars, Acknowledge, MarkAcked,
     DeviceJoins, DeviceRevoked, WsConnect, WsDisconnect, Tick

\* A fan-out thread takes one device off its list and appends to its queue, or
\* sets it aside when the queue is full.
LEMMA EnqueueEffect ==
  ASSUME TypeInv, NEW w \in Workers, FanOutEnqueue(w)
  PROVE  \E x \in devs[w] :
           /\ pc[w] = "fanout" /\ Env(w) \in Envelopes /\ offline[w] = {} /\ x \in Devices
           /\ devs'[w] = devs[w] \ {x} /\ Env(w)' = Env(w)
           /\ UNCHANGED <<pc, req, targets, delivery_state>>
           /\ \/ /\ pending' = [pending EXCEPT ![x] = Append(pending[x], Env(w))]
                 /\ offline'[w] = {}
              \/ pending' = pending /\ offline'[w] = {x}
<1> USE DEF TypeInv, TypeOK, WorkerTypeOK
<1>1. PICK x \in devs[w] :
        /\ devs' = [devs EXCEPT ![w] = @ \ {x}]
        /\ \/ Enqueue(Env(w), x) /\ UNCHANGED offline
           \/ offline' = [offline EXCEPT ![w] = {x}] /\ UNCHANGED delivery_vars
  BY DEF FanOutEnqueue
<1>2. /\ pc[w] = "fanout" /\ offline[w] = {}
      /\ UNCHANGED <<pc, req, targets, delivery_state>>
  BY DEF FanOutEnqueue, envelope_vars
<1>3. Env(w) \in Envelopes /\ x \in Devices /\ Env(w)' = Env(w)
  BY <1>1, <1>2, EnvType DEF SendLabels, Env
<1>4. devs'[w] = devs[w] \ {x}
  BY <1>1
<1>5. \/ /\ pending' = [pending EXCEPT ![x] = Append(pending[x], Env(w))]
         /\ offline'[w] = {}
      \/ pending' = pending /\ offline'[w] = {x}
  BY <1>1, <1>2 DEF Enqueue, delivery_vars
<1> QED
  BY <1>1, <1>2, <1>3, <1>4, <1>5

\* The device set aside gets a delivery row, if the envelope and the device have
\* theirs.
LEMMA OfflineEffect ==
  ASSUME TypeInv, NEW w \in Workers, FanOutOffline(w)
  PROVE  \E x \in offline[w] :
           /\ pc[w] = "fanout" /\ Env(w) \in Envelopes /\ x \in Devices
           /\ offline'[w] = {} /\ Env(w)' = Env(w)
           /\ delivery_state' = IF DeliveryRowAllowed(Env(w), x)
                                  THEN delivery_state \cup {<<Env(w), x>>} ELSE delivery_state
           /\ UNCHANGED <<pc, req, targets, devs, pending, encrypted_envelopes>>
<1> USE DEF TypeInv, TypeOK, WorkerTypeOK
<1>1. PICK x \in offline[w] : AddDeliveryState(Env(w), x)
  BY DEF FanOutOffline
<1>2. pc[w] = "fanout" /\ Env(w) \in Envelopes /\ x \in Devices /\ Env(w)' = Env(w)
  BY <1>1, EnvType DEF FanOutOffline, SendLabels, Env
<1>3. offline'[w] = {} /\ UNCHANGED <<pc, req, targets, devs, pending>>
  BY DEF FanOutOffline, delivery_vars
<1> QED
  BY <1>1, <1>2, <1>3 DEF AddDeliveryState

\* A selection holds what is to be kept and nothing else.
LEMMA SelectionKeeps ==
  ASSUME NEW S, NEW s \in Seq(S), NEW keep, NEW q \in Selections(s, keep)
  PROVE  Range(q) = Range(s) \cap keep
<1>1. PICK f \in [DOMAIN q -> DOMAIN s] :
        /\ \A i \in DOMAIN q : q[i] = s[f[i]]
        /\ Range(f) = {k \in DOMAIN s : s[k] \in keep}
  BY DEF Selections
<1>2. ASSUME NEW x \in Range(q) PROVE x \in Range(s) /\ x \in keep
  BY <1>1, <1>2 DEF Range
<1>3. ASSUME NEW x \in Range(s), x \in keep PROVE x \in Range(q)
  <2>1. PICK k \in DOMAIN s : s[k] = x
    BY <1>3 DEF Range
  <2>2. k \in Range(f) /\ DOMAIN f = DOMAIN q
    BY <1>1, <1>3, <2>1
  <2>3. PICK i \in DOMAIN q : f[i] = k
    BY <2>2 DEF Range
  <2> QED
    BY <1>1, <2>1, <2>3 DEF Range
<1> QED
  BY <1>1, <1>2, <1>3

\* A purge leaves the envelopes of other conversations in the queue of one device
\* of the user that was removed.
LEMMA PurgeEffect ==
  ASSUME TypeInv, NEW w \in Workers, PurgeQueue(w)
  PROVE  \E x \in devs[w] : \E q \in Selections(pending[x], {e \in Envelopes : EnvConv[e] # req[w].conv}) :
           /\ pc[w] = "purge_queue" /\ x \in Devices /\ pending[x] \in Seq(Envelopes)
           /\ pending' = [pending EXCEPT ![x] = q]
           /\ devs'[w] = devs[w] \ {x}
           /\ Range(q) = {e \in Range(pending[x]) : EnvConv[e] # req[w].conv}
           /\ UNCHANGED <<pc, req, delivery_state>>
<1> USE DEF TypeInv, TypeOK, WorkerTypeOK
<1>1. PICK x \in devs[w] : /\ devs' = [devs EXCEPT ![w] = @ \ {x}]
                           /\ PurgeConversationFromDeviceQueue(req[w].conv, x)
  BY DEF PurgeQueue
<1>2. PICK q \in Selections(pending[x], {e \in Envelopes : EnvConv[e] # req[w].conv}) :
        pending' = [pending EXCEPT ![x] = q]
  BY <1>1 DEF PurgeConversationFromDeviceQueue
<1>3. x \in Devices /\ pending[x] \in Seq(Envelopes)
  BY <1>1 DEF DeliveryTypeOK
<1>4. Range(q) = Range(pending[x]) \cap {e \in Envelopes : EnvConv[e] # req[w].conv}
  BY <1>2, <1>3, SelectionKeeps
<1>5. Range(pending[x]) \subseteq Envelopes
  BY <1>3, SMT DEF Range
<1>6. devs'[w] = devs[w] \ {x}
  BY <1>1
<1> QED
  BY <1>1, <1>2, <1>3, <1>4, <1>5, <1>6 DEF PurgeQueue, envelope_vars

\* Thread w gives envelope e to device d and will not come back to it.
Visits(w, e, d) ==
  /\ OnItsWay(w, e, d) /\ ~ OnItsWay(w, e, d)'
  /\ pc[w] = "fanout" /\ d \in devs[w] \cup offline[w]

\* A device is visited by the step that appends to its queue.
LEMMA QueuedCases ==
  ASSUME TypeInv, LoopInv, [Next]_vars, NEW e \in Envelopes, NEW d \in Devices, Queued(e, d)'
  PROVE  \/ Queued(e, d)
         \/ delivery_state' = delivery_state /\ \E w \in Workers : Visits(w, e, d)
<1> USE DEF TypeInv, TypeOK
<1>1. CASE UNCHANGED pending
  BY <1>1 DEF Queued
<1>2. ASSUME NEW w \in Workers, FanOutEnqueue(w)
      PROVE  \/ Queued(e, d)
             \/ delivery_state' = delivery_state /\ Visits(w, e, d)
  <2>1. PICK x \in devs[w] :
           /\ pc[w] = "fanout" /\ Env(w) \in Envelopes /\ offline[w] = {} /\ x \in Devices
           /\ devs'[w] = devs[w] \ {x} /\ Env(w)' = Env(w)
           /\ UNCHANGED <<pc, req, targets, delivery_state>>
           /\ \/ /\ pending' = [pending EXCEPT ![x] = Append(pending[x], Env(w))]
                 /\ offline'[w] = {}
              \/ pending' = pending /\ offline'[w] = {x}
    BY <1>2, EnqueueEffect
  <2>2. CASE pending' = [pending EXCEPT ![x] = Append(pending[x], Env(w))] /\ offline'[w] = {}
    <3>1. pending[x] \in Seq(Envelopes)
      BY <2>1 DEF DeliveryTypeOK
    <3>2. Range(Append(pending[x], Env(w))) = Range(pending[x]) \cup {Env(w)}
      BY <2>1, <3>1, RangeAppend
    <3>3. Queued(e, d) \/ (e = Env(w) /\ d = x)
      BY <2>1, <2>2, <3>2 DEF Queued, DeliveryTypeOK
    <3>4. Owner[x] \notin targets[w]
      BY <2>1 DEF LoopInv
    <3>5. d = x /\ e = Env(w) => Visits(w, e, d)
      BY <2>1, <2>2, <3>4 DEF Visits, OnItsWay, InFanOut
    <3> QED
      BY <2>1, <3>3, <3>5
  <2>3. CASE pending' = pending
    BY <2>3 DEF Queued
  <2> QED
    BY <2>1, <2>2, <2>3
<1>3. ASSUME NEW w \in Workers, PurgeQueue(w) PROVE Queued(e, d)
  <2>1. PICK x \in devs[w] :
          \E q \in Selections(pending[x], {y \in Envelopes : EnvConv[y] # req[w].conv}) :
            /\ x \in Devices /\ pending' = [pending EXCEPT ![x] = q]
            /\ Range(q) = {y \in Range(pending[x]) : EnvConv[y] # req[w].conv}
    BY <1>3, PurgeEffect
  <2> QED
    BY <2>1 DEF Queued, DeliveryTypeOK
<1>4. CASE Crash
  BY <1>4, SMT DEF Crash, Queued, Range
<1>5. ASSUME NEW w \in Workers, FanOutOffline(w) \/ PurgeRows(w) PROVE UNCHANGED pending
  BY <1>5 DEF FanOutOffline, PurgeRows, delivery_vars
<1> QED
  BY <1>1, <1>2, <1>3, <1>4, <1>5, HolderCases DEF DeleteUser, MaintenancePurge, delivery_vars

\* Or by the step that adds its delivery row.
LEMMA RowCases ==
  ASSUME TypeInv, LoopInv, [Next]_vars, NEW e \in Envelopes, NEW d \in Devices,
         <<e, d>> \in delivery_state'
  PROVE  \/ <<e, d>> \in delivery_state
         \/ pending' = pending /\ \E w \in Workers : Visits(w, e, d)
<1> USE DEF TypeInv, TypeOK
<1>1. CASE delivery_state' \subseteq delivery_state
  BY <1>1
<1>2. ASSUME NEW w \in Workers, FanOutOffline(w)
      PROVE  \/ <<e, d>> \in delivery_state
             \/ pending' = pending /\ Visits(w, e, d)
  <2>1. PICK x \in offline[w] :
           /\ pc[w] = "fanout" /\ Env(w) \in Envelopes /\ x \in Devices
           /\ offline'[w] = {} /\ Env(w)' = Env(w)
           /\ delivery_state' = IF DeliveryRowAllowed(Env(w), x)
                                  THEN delivery_state \cup {<<Env(w), x>>} ELSE delivery_state
           /\ UNCHANGED <<pc, req, targets, devs, pending, encrypted_envelopes>>
    BY <1>2, OfflineEffect
  <2>2. Owner[x] \notin targets[w] /\ x \notin devs[w]
    BY <2>1 DEF LoopInv
  <2>3. <<e, d>> \in delivery_state \/ (e = Env(w) /\ d = x)
    BY <2>1
  <2>4. d = x /\ e = Env(w) => Visits(w, e, d)
    BY <2>1, <2>2 DEF Visits, OnItsWay, InFanOut
  <2> QED
    BY <2>1, <2>3, <2>4
<1>3. ASSUME NEW w \in Workers, FanOutEnqueue(w) \/ PurgeRows(w) \/ PurgeQueue(w)
      PROVE  delivery_state' \subseteq delivery_state
  BY <1>3 DEF FanOutEnqueue, PurgeRows, PurgeQueue, DeletePendingDeliveryForUserInConversation,
     DropRows, envelope_vars
<1>4. CASE (\E u \in Users : DeleteUser(u)) \/ MaintenancePurge \/ Crash
  BY <1>4 DEF DeleteUser, MaintenancePurge, DeleteExpired, DropRows, Crash, store_vars,
     envelope_vars
<1> QED
  BY <1>1, <1>2, <1>3, <1>4, HolderCases

\* A thread only has devices to visit that it had before, unless it has just
\* stored the envelope.
LEMMA WayCases ==
  ASSUME TypeInv, LocalsInv, [Next]_vars, NEW w \in Workers, NEW e \in Envelopes,
         NEW d \in Devices, OnItsWay(w, e, d)'
  PROVE  OnItsWay(w, e, d) \/ (Stores(w) /\ Env(w) = e)
<1> USE DEF TypeInv, TypeOK, WorkerTypeOK
<1>1. pc'[w] \in {"targets", "fanout"} /\ Env(w)' = e
  BY DEF OnItsWay, InFanOut
<1>2. req'[w] = req[w] /\ Env(w) = e
  BY <1>1, StoredCases DEF Env
<1>3. CASE pc[w] \in {"targets"}
  BY <1>2, <1>3 DEF OnItsWay, InFanOut
<1>4. CASE pc[w] = "fanout"
  <2>0. InFanOut(w, e)
    BY <1>2, <1>4 DEF InFanOut
  <2>1. CASE SameLocals(w)
    BY <1>4, <2>0, <2>1 DEF SameLocals, OnItsWay
  <2>2. CASE FanOutUser(w)
    <3>1. PICK u \in targets[w] : /\ targets' = [targets EXCEPT ![w] = @ \ {u}]
                                  /\ devs' = [devs EXCEPT ![w] = FanOutDevices(w, u)]
      BY <2>2 DEF FanOutUser
    <3>2. devs'[w] = FanOutDevices(w, u) /\ targets'[w] = targets[w] \ {u}
      BY <3>1
    <3>3. offline'[w] = {} /\ pc'[w] = "fanout"
      BY <2>2 DEF FanOutUser
    <3> QED
      BY <2>0, <3>2, <3>3 DEF OnItsWay, FanOutDevices, GetDevicesForUser, DevicesOf
  <2>3. CASE FanOutEnqueue(w)
    BY <2>0, <2>3, EnqueueEffect DEF OnItsWay
  <2>4. CASE FanOutOffline(w)
    BY <2>0, <2>4, OfflineEffect DEF OnItsWay
  <2>5. pc'[w] = "fanout" \/ SendDone(w)
    BY <1>1, <1>4, LoopCases DEF SameLocals, Crash, Loops, Stores, SendStore, SendTargets, FanOutUser,
       FanOutEnqueue, FanOutOffline, Leaves, RemoveMemberStore, UnsubscribeChannelStore,
       PurgeRows, PurgeDevices, PurgeQueue, PurgeDone
  <2>6. ~ SendDone(w)
    BY <1>1 DEF SendDone, Finish, Goto
  <2>7. ~ SendTargets(w)
    BY <1>4 DEF SendTargets
  <2> QED
    BY <2>1, <2>2, <2>3, <2>4, <2>5, <2>6, <2>7, FanOutCases
<1>5. CASE pc[w] \notin {"targets", "fanout"}
  BY <1>1, <1>2, <1>5, StoredCases DEF Stores
<1> QED
  BY <1>3, <1>4, <1>5

\* A device row goes with its account only.
LEMMA PresenceStays ==
  ASSUME TypeInv, [Next]_vars, NEW d \in Devices
  PROVE  /\ devices[d] # "absent" /\ Owner[d] \in users' => devices'[d] # "absent"
         /\ (devices[d] # "absent" => Owner[d] \in users) =>
              (devices'[d] # "absent" => Owner[d] \in users')
BY DeviceCases DEF device_vars, DeviceJoins, RegisterDevice, RegisterAllowed, DeviceRevoked,
   RevokeDevice, DeleteUser, TypeInv, TypeOK, DeviceTypeOK

\* Queues are filled for devices that have a row.
LEMMA PresentPreserved ==
  ASSUME TypeInv, LoopInv, PresentInv, [Next]_vars
  PROVE  PresentInv'
<1>1. ASSUME NEW d \in Devices PROVE devices'[d] # "absent" => Owner[d] \in users'
  BY PresenceStays DEF PresentInv
<1>2. ASSUME NEW d \in Devices, NEW e \in Envelopes, Queued(e, d)', Owner[d] \in users'
      PROVE  devices'[d] # "absent"
  <2>1. Owner[d] \in users
    BY <1>2, RevocationFinal
  <2>2. devices[d] # "absent"
    <3>1. CASE Queued(e, d)
      BY <2>1, <3>1 DEF PresentInv
    <3>2. ASSUME NEW w \in Workers, Visits(w, e, d) PROVE devices[d] # "absent"
      BY <2>1, <3>2 DEF LoopInv, Visits
    <3> QED
      BY <1>2, <3>1, <3>2, QueuedCases
  <2> QED
    BY <1>2, <2>2, PresenceStays
<1> QED
  BY <1>1, <1>2 DEF PresentInv

\* A visited device does not come back on the list, and a purge lists the devices
\* of the user it is for.
LEMMA LoopPreserved ==
  ASSUME TypeInv, LocalsInv, LoopInv, [Next]_vars
  PROVE  LoopInv'
<1> USE DEF TypeInv, TypeOK, WorkerTypeOK
<1>p. \A d \in Devices : (Owner[d] \in users => devices[d] # "absent")
                           => (Owner[d] \in users' => devices'[d] # "absent")
  BY PresenceStays, RevocationFinal
<1>1. ASSUME NEW w \in Workers, pc'[w] = "fanout"
      PROVE  /\ \A d \in devs'[w] \cup offline'[w] :
                  /\ Owner[d] \notin targets'[w]
                  /\ Owner[d] \in users' => devices'[d] # "absent"
             /\ devs'[w] \cap offline'[w] = {}
             /\ \A x, y \in offline'[w] : x = y
  <2>0. devs[w] \subseteq Devices /\ offline[w] \subseteq Devices
    OBVIOUS
  <2>1. CASE SameLocals(w)
    BY <1>p, <1>1, <2>0, <2>1 DEF SameLocals, LoopInv
  <2>2. CASE SendTargets(w)
    BY <2>2 DEF SendTargets, LocalsInv
  <2>3. CASE FanOutUser(w)
    <3>1. PICK u \in targets[w] : /\ targets' = [targets EXCEPT ![w] = @ \ {u}]
                                  /\ devs' = [devs EXCEPT ![w] = FanOutDevices(w, u)]
      BY <2>3 DEF FanOutUser
    <3>2. devs'[w] = FanOutDevices(w, u) /\ targets'[w] = targets[w] \ {u}
      BY <3>1
    <3>3. offline'[w] = {} /\ UNCHANGED device_vars
      BY <2>3 DEF FanOutUser
    <3> QED
      BY <3>2, <3>3 DEF FanOutDevices, GetDevicesForUser, DevicesOf, device_vars
  <2>4. CASE FanOutEnqueue(w)
    <3>1. PICK x \in devs[w] :
            /\ pc[w] = "fanout" /\ offline[w] = {} /\ devs'[w] = devs[w] \ {x}
            /\ UNCHANGED targets /\ (offline'[w] = {} \/ offline'[w] = {x})
      BY <2>4, EnqueueEffect
    <3> QED
      BY <1>p, <2>0, <3>1 DEF LoopInv
  <2>5. CASE FanOutOffline(w)
    <3>1. pc[w] = "fanout" /\ offline'[w] = {} /\ UNCHANGED <<targets, devs>>
      BY <2>5, OfflineEffect
    <3> QED
      BY <1>p, <2>0, <3>1 DEF LoopInv
  <2> QED
    BY <1>1, <2>1, <2>2, <2>3, <2>4, <2>5, FanOutCases
<1>2. ASSUME NEW w \in Workers, pc'[w] = "purge_queue"
      PROVE  devs'[w] \subseteq DevicesOf(req[w].user)'
  <2>1. CASE SameLocals(w)
    BY <1>2, <2>1 DEF SameLocals, LoopInv, DevicesOf
  <2>2. CASE PurgeDevices(w)
    BY <2>2 DEF PurgeDevices, GetDevicesForUser, DevicesOf
  <2>3. CASE PurgeQueue(w)
    <3>1. PICK x \in devs[w] : pc[w] = "purge_queue" /\ devs'[w] = devs[w] \ {x} /\ UNCHANGED req
      BY <2>3, PurgeEffect
    <3> QED
      BY <3>1 DEF LoopInv, DevicesOf
  <2>4. \/ SameLocals(w) \/ PurgeDevices(w) \/ PurgeQueue(w)
    BY <1>2, LoopCases DEF Crash, Loops, Stores, SendStore, SendTargets, FanOutUser,
       FanOutEnqueue, FanOutOffline, SendDone, Leaves, RemoveMemberStore,
       UnsubscribeChannelStore, PurgeRows, PurgeDone, Continue, Finish, Goto
  <2> QED
    BY <2>1, <2>2, <2>3, <2>4
<1> QED
  BY <1>1, <1>2 DEF LoopInv

\* An envelope row goes with its sender's account or by expiry.
LEMMA EnvelopeLost ==
  ASSUME TypeInv, [Next]_vars, NEW e \in encrypted_envelopes, e \notin encrypted_envelopes'
  PROVE  \/ Owner[EnvSender[e]] \notin users'
         \/ MaintenancePurge /\ e \in Expired(clock)
<1>1. ASSUME NEW w \in Workers, BeginRequest(w) PROVE UNCHANGED encrypted_envelopes
  BY <1>1 DEF BeginRequest, SendBegin, AddMemberBegin, RemoveMemberBegin, ManageBegin,
     SubscribeChannelBegin, UnsubscribeChannelBegin, envelope_vars
<1>2. ASSUME NEW w \in Workers, WorkerStep(w)
      PROVE  encrypted_envelopes \subseteq encrypted_envelopes'
  <2>1. CASE SendStep(w)
    BY <2>1 DEF SendStep, SendPolicy, SendDuplicate, SendStore, StoreEnvelope, SendTargets,
       FanOutUser, FanOutEnqueue, FanOutOffline, AddDeliveryState, SendDone, envelope_vars
  <2>2. CASE JoinStep(w) \/ LeaveStep(w)
    BY <2>2 DEF JoinStep, LeaveStep, AddMemberCount, AddMemberStore, SubscribeChannelStore,
       RemoveMemberStore, UnsubscribeChannelStore, PurgeRows, PurgeDevices, PurgeQueue,
       PurgeDone, DeletePendingDeliveryForUserInConversation, envelope_vars
  <2> QED
    BY <1>2, <2>1, <2>2 DEF WorkerStep
<1>3. ASSUME NEW u \in Users, DeleteUser(u) PROVE Owner[EnvSender[e]] \notin users'
  BY <1>3 DEF DeleteUser
<1>4. CASE MaintenancePurge
  BY <1>4 DEF MaintenancePurge, DeleteExpired
<1> QED
  BY <1>1, <1>2, <1>3, <1>4 DEF Next, vars, store_vars, envelope_vars, Acknowledge, MarkAcked,
     DeviceJoins, DeviceRevoked, WsConnect, WsDisconnect, Tick, Crash

\* Without expiry nothing makes an envelope new again.
LEMMA SpentStays ==
  ASSUME ~ MaintenancePurge, TypeInv, [Next]_vars, NEW e \in Envelopes, Spent(e)
  PROVE  Spent(e)'
<1>1. CASE e \in encrypted_envelopes
  BY <1>1, EnvelopeLost DEF Spent
<1>2. CASE Owner[EnvSender[e]] \notin users
  BY <1>2, DeviceCases DEF Spent, device_vars, DeviceJoins, RegisterDevice, DeviceRevoked,
     RevokeDevice, DeleteUser
<1> QED
  BY <1>1, <1>2 DEF Spent

\* What can be stored is not spent.
LEMMA FreshAllowed ==
  ASSUME PresentInv, NEW e \in Envelopes, StoreAllowed(e)
  PROVE  ~ Spent(e)
<1>1. EnvSender[e] \in Devices
  BY TypesAssumption
<1> QED
  BY <1>1 DEF PresentInv, StoreAllowed, Spent

\* Where a fan-out comes from.
LEMMA InFanOutCases ==
  ASSUME TypeInv, [Next]_vars, NEW w \in Workers, NEW e, InFanOut(w, e)'
  PROVE  InFanOut(w, e) \/ (Stores(w) /\ Env(w) = e)
<1>1. pc'[w] \in {"targets", "fanout"} /\ Env(w)' = e
  BY DEF InFanOut
<1>2. Env(w) = e
  BY <1>1, StoredCases DEF Env
<1> QED
  BY <1>1, <1>2, StoredCases DEF InFanOut, Stores

\* A send is answered by the last thread that fans its envelope out.
LEMMA CompletedCases ==
  ASSUME [Next]_vars, NEW e \in completed'
  PROVE  \/ e \in completed
         \/ \E w \in Workers : /\ SendDone(w) /\ Env(w) = e
                               /\ \A v \in Workers \ {w} : ~ InFanOut(v, e)
<1>1. ASSUME NEW w \in Workers, WorkerStep(w)
      PROVE  \/ completed' \subseteq completed
             \/ SendDone(w) /\ RecordDone(w)
  BY <1>1 DEF WorkerStep, SendStep, JoinStep, LeaveStep, RecordStore, RecordJoin, RecordLeave,
     RecordPurge, ghost_vars
<1>2. ASSUME NEW w \in Workers, SendDone(w), RecordDone(w)
      PROVE  \/ e \in completed
             \/ /\ SendDone(w) /\ Env(w) = e
                /\ \A v \in Workers \ {w} : ~ InFanOut(v, e)
  BY <1>2 DEF RecordDone
<1> QED
  BY <1>1, <1>2 DEF Next, vars, ghost_vars, BeginRequest, Acknowledge, DeviceJoins, DeviceRevoked,
     DeleteUser, RecordLeave, MaintenancePurge, WsConnect, WsDisconnect, Tick, Crash, RecordCrash

\* One queue after a step.
LEMMA QueueShape ==
  ASSUME TypeInv, [Next]_vars, NEW d \in Devices
  PROVE  \/ pending'[d] = pending[d] \/ pending'[d] = <<>>
         \/ \E w \in Workers : /\ pc[w] = "fanout" /\ d \in devs[w] /\ Env(w) \in Envelopes
                               /\ pending'[d] = Append(pending[d], Env(w))
                               /\ UNCHANGED <<completed, before>>
         \/ \E keep : /\ pending'[d] \in Selections(pending[d], keep)
                      /\ UNCHANGED <<completed, before>>
<1> USE DEF TypeInv, TypeOK
<1>1. ASSUME NEW w \in Workers, FanOutEnqueue(w)
      PROVE  \/ pending'[d] = pending[d]
             \/ /\ pc[w] = "fanout" /\ d \in devs[w] /\ Env(w) \in Envelopes
                /\ pending'[d] = Append(pending[d], Env(w))
  <2>1. PICK x \in devs[w] :
          /\ pc[w] = "fanout" /\ Env(w) \in Envelopes
          /\ \/ pending' = [pending EXCEPT ![x] = Append(pending[x], Env(w))]
             \/ pending' = pending
    BY <1>1, EnqueueEffect
  <2> QED
    BY <2>1 DEF DeliveryTypeOK
<1>2. ASSUME NEW w \in Workers, PurgeQueue(w)
      PROVE  \/ pending'[d] = pending[d]
             \/ \E keep : pending'[d] \in Selections(pending[d], keep)
  <2>1. PICK x \in devs[w] :
          \E q \in Selections(pending[x], {y \in Envelopes : EnvConv[y] # req[w].conv}) :
            pending' = [pending EXCEPT ![x] = q]
    BY <1>2, PurgeEffect
  <2> QED
    BY <2>1 DEF DeliveryTypeOK
<1>3. CASE Crash
  BY <1>3 DEF Crash
<1>4. ASSUME NEW w \in Workers, FanOutOffline(w) \/ PurgeRows(w) PROVE UNCHANGED pending
  BY <1>4 DEF FanOutOffline, PurgeRows, delivery_vars
<1>5. CASE (\E u \in Users : DeleteUser(u)) \/ MaintenancePurge
  BY <1>5 DEF DeleteUser, MaintenancePurge, delivery_vars
<1> QED
  BY <1>1, <1>2, <1>3, <1>4, <1>5, HolderCases

Injective(s) == \A i, j \in DOMAIN s : s[i] = s[j] => i = j

\* Appending what is not in the queue, or selecting from it, repeats nothing.
LEMMA InjectiveQueue ==
  ASSUME NEW s \in Seq(Envelopes), Injective(s)
  PROVE  /\ Injective(<<>>)
         /\ \A e \in Envelopes : e \notin Range(s) => Injective(Append(s, e))
         /\ \A keep : \A q \in Selections(s, keep) : Injective(q)
<1>1. Injective(<<>>)
  BY SMT DEF Injective
<1>2. ASSUME NEW e \in Envelopes, e \notin Range(s) PROVE Injective(Append(s, e))
  <2>1. /\ DOMAIN Append(s, e) = DOMAIN s \cup {Len(s) + 1}
        /\ \A i \in DOMAIN s : Append(s, e)[i] = s[i]
        /\ Append(s, e)[Len(s) + 1] = e
    BY SMT
  <2>2. \A i \in DOMAIN s : s[i] # e
    BY <1>2 DEF Range
  <2> QED
    BY <2>1, <2>2 DEF Injective
<1>3. ASSUME NEW keep, NEW q \in Selections(s, keep) PROVE Injective(q)
  <2>1. PICK f \in [DOMAIN q -> DOMAIN s] :
          /\ \A i, j \in DOMAIN q : i < j => f[i] < f[j]
          /\ \A i \in DOMAIN q : q[i] = s[f[i]]
    BY DEF Selections
  <2>2. q \in Seq(Envelopes)
    BY SelectionFacts
  <2>3. ASSUME NEW i \in DOMAIN q, NEW j \in DOMAIN q, q[i] = q[j] PROVE i = j
    <3>1. f[i] = f[j]
      BY <2>1, <2>3 DEF Injective
    <3>2. i \in Nat /\ j \in Nat /\ f[i] \in Nat
      BY <2>1, <2>2, SMT
    <3>3. ~ (i < j) /\ ~ (j < i)
      BY <2>1, <3>1, <3>2, SMT
    <3> QED
      BY <3>2, <3>3, SMT
  <2> QED
    BY <2>3 DEF Injective
<1> QED
  BY <1>1, <1>2, <1>3

\* Without expiry an envelope is fanned out once, by one thread, and each device
\* is visited once.
LEMMA OncePreserved ==
  ASSUME ~ MaintenancePurge, TypeInv, LocalsInv, PresentInv, LoopInv, OnceInv, [Next]_vars
  PROVE  OnceInv'
<1>s. ASSUME NEW e \in Envelopes, Spent(e) PROVE Spent(e)'
  BY <1>s, SpentStays
<1>f. ASSUME NEW w \in Workers, Stores(w)
      PROVE  /\ Env(w) \in Envelopes /\ ~ Spent(Env(w))
             /\ pc[w] = "store" /\ pc' = [pc EXCEPT ![w] = "targets"]
             /\ Env(w) \in encrypted_envelopes' /\ UNCHANGED <<pending, delivery_state>>
  <2>1. pc[w] = "store" /\ StoreAllowed(Env(w)) /\ Env(w) \in Envelopes
    BY <1>f, EnvType DEF Stores, SendStore, SendLabels
  <2> QED
    BY <1>f, <2>1, FreshAllowed DEF Stores, SendStore, StoreEnvelope, Continue, Goto, delivery_vars
<1>v. ASSUME NEW w \in Workers, NEW e \in Envelopes, NEW d \in Devices, Visits(w, e, d)
      PROVE  /\ InFanOut(w, e) /\ ~ Held(e, d) /\ Spent(e) /\ ~ OnItsWay(w, e, d)'
  BY <1>v DEF Visits, OnItsWay, OnceInv
<1>h. ASSUME NEW e \in Envelopes, NEW d \in Devices, Held(e, d)'
      PROVE  Held(e, d) \/ \E w \in Workers : Visits(w, e, d)
  BY <1>h, QueuedCases, RowCases DEF Held
<1>1. ASSUME NEW e \in Envelopes, NEW w \in Workers, InFanOut(w, e)' PROVE Spent(e)'
  <2>1. CASE InFanOut(w, e)
    BY <1>s, <2>1 DEF OnceInv
  <2>2. CASE Stores(w) /\ Env(w) = e
    BY <1>f, <2>2 DEF Spent
  <2> QED
    BY <1>1, <2>1, <2>2, InFanOutCases
<1>2. ASSUME NEW e \in Envelopes, NEW d \in Devices, Held(e, d)' PROVE Spent(e)'
  BY <1>2, <1>s, <1>v, <1>h DEF OnceInv
<1>3. ASSUME NEW e \in Envelopes, e \in completed' PROVE Spent(e)'
  <2>1. CASE e \in completed
    BY <1>s, <2>1 DEF OnceInv
  <2>2. ASSUME NEW w \in Workers, SendDone(w), Env(w) = e PROVE Spent(e)'
    BY <1>s, <2>2 DEF OnceInv, SendDone, FanOutDone, InFanOut
  <2> QED
    BY <1>3, <2>1, <2>2, CompletedCases
<1>4. ASSUME NEW e \in Envelopes, NEW v \in Workers, NEW w \in Workers,
             InFanOut(v, e)', InFanOut(w, e)'
      PROVE  v = w
  <2>1. ASSUME NEW x \in Workers, NEW y \in Workers, Stores(x), Env(x) = e, InFanOut(y, e)'
        PROVE  y = x
    <3>1. ~ InFanOut(y, e)
      BY <1>f, <2>1 DEF OnceInv
    <3>2. Stores(y) /\ pc[y] = "store" /\ pc'[y] = "targets"
      BY <1>f, <2>1, <3>1, InFanOutCases DEF TypeInv, TypeOK, WorkerTypeOK
    <3> QED
      BY <1>f, <2>1, <3>2 DEF TypeInv, TypeOK, WorkerTypeOK
  <2>2. CASE InFanOut(v, e) /\ InFanOut(w, e)
    BY <2>2 DEF OnceInv
  <2>3. InFanOut(v, e) \/ (Stores(v) /\ Env(v) = e)
    BY <1>4, InFanOutCases
  <2>4. InFanOut(w, e) \/ (Stores(w) /\ Env(w) = e)
    BY <1>4, InFanOutCases
  <2> QED
    BY <1>4, <2>1, <2>2, <2>3, <2>4
<1>5. ASSUME NEW e \in Envelopes, NEW w \in Workers, NEW d \in Devices, OnItsWay(w, e, d)'
      PROVE  ~ Held(e, d)'
  <2>1. CASE OnItsWay(w, e, d)
    <3>1. ~ Held(e, d) /\ InFanOut(w, e)
      BY <2>1 DEF OnceInv, OnItsWay
    <3>2. ASSUME NEW v \in Workers, Visits(v, e, d) PROVE FALSE
      BY <1>5, <1>v, <3>1, <3>2 DEF OnceInv
    <3> QED
      BY <1>h, <3>1, <3>2
  <2>2. CASE Stores(w) /\ Env(w) = e
    <3>1. ~ Held(e, d) /\ UNCHANGED <<pending, delivery_state>>
      BY <1>f, <2>2 DEF OnceInv
    <3> QED
      BY <3>1 DEF Held, Queued
  <2> QED
    BY <1>5, <2>1, <2>2, WayCases
<1>6. GivenOnce'
  <2>1. ASSUME NEW d \in Devices PROVE Injective(pending[d])'
    <3>1. pending[d] \in Seq(Envelopes) /\ Injective(pending[d])
      BY DEF TypeInv, TypeOK, DeliveryTypeOK, OnceInv, GivenOnce, Injective
    <3>2. ASSUME NEW w \in Workers, pc[w] = "fanout", d \in devs[w], Env(w) \in Envelopes
          PROVE  Env(w) \notin Range(pending[d])
      BY <3>2 DEF OnceInv, OnItsWay, InFanOut, Held, Queued
    <3>3. Injective(pending'[d])
      BY <3>1, <3>2, InjectiveQueue, QueueShape
    <3> QED
      BY <3>3 DEF Injective
  <2>2. ASSUME NEW d \in Devices, NEW e \in Envelopes PROVE ~ (Queued(e, d)' /\ <<e, d>> \in delivery_state')
    <3>1. ~ (Queued(e, d) /\ <<e, d>> \in delivery_state)
      BY DEF OnceInv, GivenOnce
    <3>2. Queued(e, d)' => \/ Queued(e, d)
                           \/ delivery_state' = delivery_state /\ <<e, d>> \notin delivery_state
      BY <1>v, QueuedCases DEF Held
    <3>3. <<e, d>> \in delivery_state' => \/ <<e, d>> \in delivery_state
                                          \/ ~ Queued(e, d)' 
      <4>1. ASSUME pending' = pending, ~ Queued(e, d) PROVE ~ Queued(e, d)'
        BY <4>1 DEF Queued
      <4> QED
        BY <1>v, <4>1, RowCases DEF Held
    <3> QED
      BY <3>1, <3>2, <3>3
  <2> QED
    BY <2>1, <2>2 DEF GivenOnce, Injective
<1> QED
  BY <1>1, <1>2, <1>3, <1>4, <1>5, <1>6 DEF OnceInv

\* No pair of envelopes in the queue is in the order `late` forbids.
InOrder(s, late) == \A i, j \in DOMAIN s : i < j => <<s[j], s[i]>> \notin late

\* Appending what is late for nothing, or selecting, keeps the order.
LEMMA OrderedQueue ==
  ASSUME NEW s \in Seq(Envelopes), NEW late, InOrder(s, late)
  PROVE  /\ InOrder(<<>>, late)
         /\ \A e \in Envelopes :
              (\A x \in Envelopes : <<e, x>> \notin late) => InOrder(Append(s, e), late)
         /\ \A keep : \A q \in Selections(s, keep) : InOrder(q, late)
<1>0. /\ \A i \in DOMAIN s : s[i] \in Envelopes /\ i \in Nat /\ i < Len(s) + 1
      /\ Len(s) \in Nat
  BY SMT
<1>1. InOrder(<<>>, late)
  BY SMT DEF InOrder
<1>2. ASSUME NEW e \in Envelopes, \A x \in Envelopes : <<e, x>> \notin late
      PROVE  InOrder(Append(s, e), late)
  <2>1. /\ DOMAIN Append(s, e) = DOMAIN s \cup {Len(s) + 1}
        /\ \A i \in DOMAIN s : Append(s, e)[i] = s[i]
        /\ Append(s, e)[Len(s) + 1] = e
    BY SMT
  <2>2. ASSUME NEW i \in DOMAIN Append(s, e), NEW j \in DOMAIN Append(s, e), i < j
        PROVE  <<Append(s, e)[j], Append(s, e)[i]>> \notin late
    <3>1. i \in DOMAIN s
      BY <1>0, <2>1, <2>2, SMT
    <3>2. CASE j \in DOMAIN s
      BY <2>1, <2>2, <3>1, <3>2 DEF InOrder
    <3>3. CASE j = Len(s) + 1
      BY <1>0, <1>2, <2>1, <3>1, <3>3
    <3> QED
      BY <2>1, <3>2, <3>3
  <2> QED
    BY <2>2 DEF InOrder
<1>3. ASSUME NEW keep, NEW q \in Selections(s, keep) PROVE InOrder(q, late)
  <2>1. PICK f \in [DOMAIN q -> DOMAIN s] :
          /\ \A i, j \in DOMAIN q : i < j => f[i] < f[j]
          /\ \A i \in DOMAIN q : q[i] = s[f[i]]
    BY DEF Selections
  <2> QED
    BY <2>1 DEF InOrder
<1> QED
  BY <1>1, <1>2, <1>3

\* An envelope gets behind the answered ones when it is stored.
LEMMA BeforeCases ==
  ASSUME [Next]_vars
  PROVE  \/ before' = before
         \/ \E w \in Workers : Stores(w) /\ before' = before \cup (completed \X {Env(w)})
<1>1. ASSUME NEW w \in Workers, WorkerStep(w)
      PROVE  \/ before' = before
             \/ Stores(w) /\ before' = before \cup (completed \X {Env(w)})
  BY <1>1 DEF WorkerStep, SendStep, JoinStep, LeaveStep, RecordStore, RecordDone, RecordJoin,
     RecordLeave, RecordPurge, Stores, ghost_vars
<1> QED
  BY <1>1 DEF Next, vars, ghost_vars, BeginRequest, Acknowledge, DeviceJoins, DeviceRevoked,
     DeleteUser, RecordLeave, MaintenancePurge, WsConnect, WsDisconnect, Tick, Crash, RecordCrash

\* An answered envelope is in no fan-out that could append it later.
LEMMA OrderPreserved ==
  ASSUME ~ MaintenancePurge, TypeInv, PresentInv, OnceInv, OrderInv, [Next]_vars,
         \A e \in completed, w \in Workers : ~ InFanOut(w, e)
  PROVE  OrderInv'
<1>t. completed \subseteq Envelopes /\ before \subseteq Envelopes \X Envelopes
  BY DEF TypeInv, TypeOK, GhostTypeOK
<1>f. ASSUME NEW w \in Workers, Stores(w)
      PROVE  Env(w) \in Envelopes /\ ~ Spent(Env(w)) /\ UNCHANGED pending
  <2>1. pc[w] = "store" /\ StoreAllowed(Env(w)) /\ Env(w) \in Envelopes
    BY <1>f, EnvType DEF Stores, SendStore, SendLabels
  <2> QED
    BY <1>f, <2>1, FreshAllowed DEF Stores, SendStore, delivery_vars
<1>1. ASSUME NEW a \in Envelopes, NEW b \in Envelopes, <<a, b>> \in before'
      PROVE  Spent(a)' /\ \A w \in Workers : ~ InFanOut(w, a)'
  <2>1. Spent(a) /\ \A w \in Workers : ~ InFanOut(w, a)
    <3>1. CASE <<a, b>> \in before
      BY <3>1 DEF OrderInv
    <3>2. CASE a \in completed
      BY <3>2 DEF OnceInv
    <3>3. ASSUME NEW w, before' = before \cup (completed \X {Env(w)})
          PROVE  <<a, b>> \in before \/ a \in completed
      BY <1>1, <3>3, SMT
    <3> QED
      BY <1>1, <3>1, <3>2, <3>3, BeforeCases
  <2>2. ASSUME NEW w \in Workers, InFanOut(w, a)' PROVE FALSE
    BY <1>f, <2>1, <2>2, InFanOutCases
  <2> QED
    BY <2>1, <2>2, SpentStays
<1>2. ASSUME NEW d \in Devices PROVE InOrder(pending'[d], before')
  <2>1. pending[d] \in Seq(Envelopes) /\ InOrder(pending[d], before)
    BY DEF TypeInv, TypeOK, DeliveryTypeOK, OrderInv, SequentialOrder, InOrder
  <2>2. CASE before' = before
    <3>1. ASSUME NEW w \in Workers, pc[w] = "fanout", Env(w) \in Envelopes
          PROVE  \A x \in Envelopes : <<Env(w), x>> \notin before
      BY <3>1 DEF OrderInv, InFanOut
    <3> QED
      BY <2>1, <2>2, <3>1, OrderedQueue, QueueShape
  <2>3. ASSUME NEW w \in Workers, Stores(w), before' = before \cup (completed \X {Env(w)})
        PROVE  InOrder(pending'[d], before')
    <3>1. UNCHANGED pending
      BY <1>f, <2>3
    <3>2. ASSUME NEW i \in DOMAIN pending[d] PROVE pending[d][i] # Env(w)
      BY <1>f, <2>3, <3>2 DEF OnceInv, Held, Queued, Range
    <3> QED
      BY <2>1, <2>3, <3>1, <3>2 DEF InOrder
  <2> QED
    BY <2>2, <2>3, BeforeCases
<1>3. SequentialOrder'
  BY <1>2 DEF SequentialOrder, InOrder
<1> QED
  BY <1>1, <1>3 DEF OrderInv

\* Steady receivers are found when the envelope is stored and only lost later.
LEMMA SteadyCases ==
  ASSUME TypeInv, [Next]_vars, NEW e \in Envelopes, NEW d \in steady'[e]
  PROVE  \/ d \in steady[e] /\ excused[e] \subseteq excused'[e]
         \/ \E w \in Workers : Stores(w) /\ Env(w) = e
<1> USE DEF TypeInv, TypeOK, GhostTypeOK
<1>1. CASE UNCHANGED <<steady, excused>>
  BY <1>1
<1>2. ASSUME NEW w \in Workers, Stores(w), Env(w) # e
      PROVE  steady'[e] = steady[e] /\ excused'[e] = excused[e]
  BY <1>2 DEF Stores, RecordStore
<1>3. ASSUME NEW E, NEW D, NEW U, RecordLeave(E, D, U)
      PROVE  d \in steady[e] /\ excused' = excused
  BY <1>3 DEF RecordLeave
<1>4. ASSUME NEW w \in Workers, WorkerStep(w)
      PROVE  \/ UNCHANGED <<steady, excused>> \/ Stores(w)
             \/ \E E, D, U : RecordLeave(E, D, U)
  BY <1>4 DEF WorkerStep, SendStep, JoinStep, LeaveStep, RecordStore, RecordDone, RecordJoin,
     RecordPurge, Stores, ghost_vars
<1>5. CASE Crash
  BY <1>5 DEF Crash, RecordCrash
<1>6. CASE Next
  BY <1>1, <1>2, <1>3, <1>4, <1>5, <1>6 DEF Next, BeginRequest, Acknowledge, DeviceJoins,
     DeviceRevoked, DeleteUser, MaintenancePurge, WsConnect, WsDisconnect, Tick, ghost_vars
<1> QED
  BY <1>1, <1>6 DEF vars, ghost_vars

\* A participant leaves by a removal, which starts a purge, or with the account.
LEMMA DepartureCases ==
  ASSUME TypeInv, [Next]_vars, NEW c \in Conversations, NEW u \in Participants(c),
         u \notin Participants(c)'
  PROVE  \/ \E w \in Workers : Leaves(w) /\ req[w].conv = c /\ req[w].user = u
         \/ u \in Users /\ DeleteUser(u)
<1> USE DEF TypeInv, TypeOK
<1>0. u \in Users
  BY ParticipantsType
<1>1. CASE UNCHANGED conversation_vars
  BY <1>1 DEF conversation_vars, Participants, GetMembers, GetSubscribers
<1>2. ASSUME NEW w \in Workers, AddMemberStore(w) \/ SubscribeChannelStore(w) PROVE FALSE
  <2>1. req[w].conv \in Conversations /\ req[w].user \in Users
    BY <1>2 DEF AddMemberStore, SubscribeChannelStore, RequestMatches, Fits, AddRequest,
       SubscriptionRequest
  <2>2. CASE AddMemberStore(w) /\ req[w].user \in users
    <3>1. req[w].role # "none"
      BY <2>2 DEF AddMemberStore, RequestMatches, Fits, AddRequest, MemberRole
    <3>2. /\ channel_subscriptions' = channel_subscriptions
          /\ conversation_members' =
               [conversation_members EXCEPT ![req[w].conv][req[w].user] = req[w].role]
      BY <2>2 DEF AddMemberStore, AddMember
    <3>3. \A x \in Users : conversation_members[c][x] # "none" => conversation_members'[c][x] # "none"
      BY <2>1, <3>1, <3>2 DEF ConversationTypeOK
    <3> QED
      BY <3>2, <3>3 DEF Participants, GetMembers, GetSubscribers
  <2>3. CASE SubscribeChannelStore(w) /\ req[w].user \in users
    <3>1. /\ conversation_members' = conversation_members
          /\ channel_subscriptions[c] \subseteq channel_subscriptions'[c]
      BY <2>3 DEF SubscribeChannelStore, Subscribe, ConversationTypeOK
    <3> QED
      BY <3>1 DEF Participants, GetMembers, GetSubscribers
  <2>4. CASE req[w].user \notin users
    BY <1>1, <1>2, <2>4 DEF AddMemberStore, SubscribeChannelStore, conversation_vars,
       Participants, GetMembers, GetSubscribers
  <2> QED
    BY <1>2, <2>2, <2>3, <2>4
<1>3. ASSUME NEW w \in Workers, RemoveMemberStore(w) \/ UnsubscribeChannelStore(w)
      PROVE  req[w].conv = c /\ req[w].user = u
  <2>1. CASE RemoveMemberStore(w)
    <3>1. /\ channel_subscriptions' = channel_subscriptions
          /\ conversation_members' =
               [conversation_members EXCEPT ![req[w].conv][req[w].user] = "none"]
      BY <2>1 DEF RemoveMemberStore, RemoveMember
    <3>2. (c # req[w].conv \/ u # req[w].user)
            => conversation_members'[c][u] = conversation_members[c][u]
      BY <1>0, <3>1 DEF ConversationTypeOK
    <3> QED
      BY <1>0, <3>1, <3>2 DEF Participants, GetMembers, GetSubscribers
  <2>2. CASE UnsubscribeChannelStore(w)
    <3>1. /\ conversation_members' = conversation_members
          /\ channel_subscriptions' =
               [channel_subscriptions EXCEPT ![req[w].conv] = @ \ {req[w].user}]
      BY <2>2 DEF UnsubscribeChannelStore, Unsubscribe
    <3>2. (c # req[w].conv \/ u # req[w].user)
            => (u \in channel_subscriptions[c] => u \in channel_subscriptions'[c])
      BY <3>1 DEF ConversationTypeOK
    <3> QED
      BY <1>0, <3>1, <3>2 DEF Participants, GetMembers, GetSubscribers
  <2> QED
    BY <1>3, <2>1, <2>2
<1>4. ASSUME NEW x \in Users, DeleteUser(x) PROVE x = u
  BY <1>0, <1>4 DEF DeleteUser, Participants, GetMembers, GetSubscribers, ConversationTypeOK
<1>5. ASSUME NEW w \in Workers, BeginRequest(w) PROVE UNCHANGED conversation_vars
  BY <1>5 DEF BeginRequest, SendBegin, AddMemberBegin, RemoveMemberBegin, ManageBegin,
     SubscribeChannelBegin, UnsubscribeChannelBegin
<1>6. ASSUME NEW w \in Workers, WorkerStep(w)
      PROVE  \/ UNCHANGED conversation_vars \/ Leaves(w)
             \/ AddMemberStore(w) \/ SubscribeChannelStore(w)
  BY <1>6 DEF WorkerStep, SendStep, SendPolicy, SendDuplicate, SendStore, SendTargets, FanOutUser,
     FanOutEnqueue, FanOutOffline, SendDone, JoinStep, AddMemberCount, LeaveStep, PurgeRows,
     PurgeDevices, PurgeQueue, PurgeDone, Leaves
<1>7. ASSUME NEW w \in Workers, Leaves(w) PROVE req[w].conv = c /\ req[w].user = u
  BY <1>3, <1>7 DEF Leaves
<1>8. ASSUME Next
      PROVE  \/ UNCHANGED conversation_vars
             \/ \E w \in Workers : WorkerStep(w)
             \/ \E x \in Users : DeleteUser(x)
  BY <1>5, <1>8 DEF Next, Acknowledge, DeviceJoins, DeviceRevoked, MaintenancePurge, WsConnect,
     WsDisconnect, Tick, Crash, store_vars
<1>9. CASE UNCHANGED vars
  BY <1>9, <1>1 DEF vars, store_vars
<1> QED
  BY <1>0, <1>1, <1>2, <1>4, <1>6, <1>7, <1>8, <1>9

\* A purge follows a removal.
LEMMA PurgingCases ==
  ASSUME TypeInv, [Next]_vars, NEW w \in Workers, NEW c, NEW u, Purging(w, c, u)'
  PROVE  \/ Purging(w, c, u)
         \/ Leaves(w) /\ req[w].conv = c /\ req[w].user = u
<1> USE DEF TypeInv, TypeOK, WorkerTypeOK
<1>0. pc'[w] \in {"purge_rows", "purge_devices", "purge_queue"} /\ req'[w].conv = c /\ req'[w].user = u
  BY DEF Purging
<1>1. CASE SameLocals(w)
  BY <1>0, <1>1 DEF SameLocals, Purging
<1>2. CASE PurgeRows(w) \/ PurgeDevices(w) \/ PurgeQueue(w)
  BY <1>0, <1>2 DEF PurgeRows, PurgeDevices, PurgeQueue, Purging, Continue
<1>3. CASE Leaves(w)
  BY <1>0, <1>3 DEF Leaves, RemoveMemberStore, UnsubscribeChannelStore, Continue
<1>4. \/ SameLocals(w) \/ PurgeRows(w) \/ PurgeDevices(w) \/ PurgeQueue(w) \/ Leaves(w)
  BY <1>0, LoopCases DEF Crash, Loops, Stores, SendStore, SendTargets, FanOutUser, FanOutEnqueue,
     FanOutOffline, SendDone, PurgeDone, Continue, Finish, Goto
<1> QED
  BY <1>1, <1>2, <1>3, <1>4

\* A device loses a stored envelope to a purge, a crash or the end of its account.
LEMMA HeldLost ==
  ASSUME TypeInv, LoopInv, [Next]_vars, NEW e \in Envelopes, NEW d \in Devices,
         Held(e, d), ~ Held(e, d)', e \in encrypted_envelopes'
  PROVE  \/ Crash \/ \E w \in Workers : Purging(w, EnvConv[e], Owner[d])
         \/ DeleteUser(Owner[d])
<1> USE DEF TypeInv, TypeOK
<1>1. CASE UNCHANGED <<pending, delivery_state>>
  BY <1>1 DEF Held, Queued
<1>2. ASSUME NEW w \in Workers, FanOutEnqueue(w) PROVE FALSE
  <2>1. PICK x \in devs[w] :
           /\ Env(w) \in Envelopes /\ x \in Devices /\ UNCHANGED delivery_state
           /\ \/ pending' = [pending EXCEPT ![x] = Append(pending[x], Env(w))]
              \/ pending' = pending
    BY <1>2, EnqueueEffect
  <2>2. Range(Append(pending[x], Env(w))) = Range(pending[x]) \cup {Env(w)}
    BY <2>1, RangeAppend DEF DeliveryTypeOK
  <2> QED
    BY <2>1, <2>2 DEF Held, Queued, DeliveryTypeOK
<1>3. ASSUME NEW w \in Workers, FanOutOffline(w) PROVE FALSE
  <2>1. pending' = pending /\ delivery_state \subseteq delivery_state'
    BY <1>3, OfflineEffect
  <2> QED
    BY <2>1 DEF Held, Queued
<1>4. ASSUME NEW w \in Workers, PurgeRows(w) PROVE Purging(w, EnvConv[e], Owner[d])
  BY <1>4 DEF PurgeRows, DeletePendingDeliveryForUserInConversation, DropRows, delivery_vars, Held,
     Queued, Purging
<1>5. ASSUME NEW w \in Workers, PurgeQueue(w) PROVE Purging(w, EnvConv[e], Owner[d])
  <2>1. PICK x \in devs[w] :
          \E q \in Selections(pending[x], {y \in Envelopes : EnvConv[y] # req[w].conv}) :
            /\ pc[w] = "purge_queue" /\ x \in Devices
            /\ pending' = [pending EXCEPT ![x] = q] /\ UNCHANGED delivery_state
            /\ Range(q) = {y \in Range(pending[x]) : EnvConv[y] # req[w].conv}
    BY <1>5, PurgeEffect
  <2>2. d = x /\ EnvConv[e] = req[w].conv
    BY <2>1 DEF Held, Queued, DeliveryTypeOK
  <2>3. Owner[d] = req[w].user
    BY <2>1, <2>2 DEF LoopInv, DevicesOf
  <2> QED
    BY <2>1, <2>2, <2>3 DEF Purging
<1>6. ASSUME NEW u \in Users, DeleteUser(u) PROVE u = Owner[d]
  BY <1>6 DEF DeleteUser, DropRows, delivery_vars, Held, Queued
<1>7. ~ MaintenancePurge \/ UNCHANGED <<pending, delivery_state>>
  BY DEF MaintenancePurge, DeleteExpired, DropRows, delivery_vars, Held, Queued
<1> QED
  BY <1>1, <1>2, <1>3, <1>4, <1>5, <1>6, <1>7, HolderCases

\* A thread is done with an active receiver when the receiver holds the envelope.
LEMMA WayLost ==
  ASSUME TypeInv, LocalsInv, LoopInv, [Next]_vars, NEW w \in Workers, NEW e \in Envelopes,
         NEW d \in Devices, OnItsWay(w, e, d), ~ OnItsWay(w, e, d)', e \in encrypted_envelopes,
         devices[d] = "active", d # EnvSender[e], Owner[d] \in Participants(EnvConv[e])
  PROVE  Crash \/ Held(e, d)'
<1> USE DEF TypeInv, TypeOK, WorkerTypeOK
<1>0. pc[w] \in {"targets", "fanout"} /\ Env(w) = e
  BY DEF OnItsWay, InFanOut
<1>1. CASE SameLocals(w)
  <2>1. Env(w)' = e /\ pc'[w] = pc[w]
    BY <1>0, <1>1 DEF SameLocals, Env
  <2> QED
    BY <1>0, <1>1, <2>1 DEF SameLocals, OnItsWay, InFanOut
<1>2. CASE SendTargets(w)
  <2>1. targets'[w] = Participants(EnvConv[e]) /\ pc'[w] = "fanout" /\ Env(w)' = e
    BY <1>0, <1>2 DEF SendTargets, Goto, Conv, Env
  <2> QED
    BY <2>1 DEF OnItsWay, InFanOut
<1>3. CASE FanOutUser(w)
  <2>1. PICK u \in targets[w] : /\ targets' = [targets EXCEPT ![w] = @ \ {u}]
                                /\ devs' = [devs EXCEPT ![w] = FanOutDevices(w, u)]
    BY <1>3 DEF FanOutUser
  <2>2. devs'[w] = FanOutDevices(w, u) /\ targets'[w] = targets[w] \ {u}
    BY <2>1
  <2>3. pc[w] = "fanout" /\ pc'[w] = "fanout" /\ Env(w)' = e /\ devs[w] = {} /\ offline[w] = {}
    BY <1>0, <1>3 DEF FanOutUser, Env
  <2>4. Owner[d] \in targets[w]
    BY <2>3 DEF OnItsWay
  <2>5. u = Owner[d] => d \in devs'[w]
    BY <1>0, <2>2 DEF FanOutDevices, GetDevicesForUser, DevicesOf
  <2> QED
    BY <2>2, <2>3, <2>4, <2>5 DEF OnItsWay, InFanOut
<1>4. CASE FanOutEnqueue(w)
  <2>1. PICK x \in devs[w] :
           /\ pc[w] = "fanout" /\ Env(w) \in Envelopes /\ offline[w] = {} /\ x \in Devices
           /\ devs'[w] = devs[w] \ {x} /\ Env(w)' = Env(w)
           /\ UNCHANGED <<pc, req, targets, delivery_state>>
           /\ \/ /\ pending' = [pending EXCEPT ![x] = Append(pending[x], Env(w))]
                 /\ offline'[w] = {}
              \/ pending' = pending /\ offline'[w] = {x}
    BY <1>4, EnqueueEffect
  <2>2. d = x /\ offline'[w] = {}
    BY <1>0, <2>1 DEF OnItsWay, InFanOut
  <2>3. pending'[d] = Append(pending[d], e) /\ pending[d] \in Seq(Envelopes)
    BY <1>0, <2>1, <2>2 DEF DeliveryTypeOK
  <2>4. Range(Append(pending[d], e)) = Range(pending[d]) \cup {e}
    BY <2>3, RangeAppend
  <2> QED
    BY <2>3, <2>4 DEF Held, Queued
<1>5. CASE FanOutOffline(w)
  <2>1. PICK x \in offline[w] :
           /\ pc[w] = "fanout" /\ Env(w) \in Envelopes /\ x \in Devices
           /\ offline'[w] = {} /\ Env(w)' = Env(w)
           /\ delivery_state' = IF DeliveryRowAllowed(Env(w), x)
                                  THEN delivery_state \cup {<<Env(w), x>>} ELSE delivery_state
           /\ UNCHANGED <<pc, req, targets, devs, pending, encrypted_envelopes>>
    BY <1>5, OfflineEffect
  <2>2. d \in offline[w]
    BY <1>0, <2>1 DEF OnItsWay, InFanOut
  <2>3. d = x
    BY <2>1, <2>2 DEF LoopInv
  <2> QED
    BY <1>0, <2>1, <2>3 DEF DeliveryRowAllowed, Held
<1>6. ~ SendDone(w)
  BY DEF SendDone, FanOutDone, OnItsWay
<1>7. \/ SameLocals(w) \/ Crash \/ SendTargets(w) \/ FanOutUser(w) \/ FanOutEnqueue(w)
      \/ FanOutOffline(w) \/ SendDone(w)
  BY <1>0, LoopCases DEF Loops, Stores, SendStore, Leaves, RemoveMemberStore,
     UnsubscribeChannelStore, PurgeRows, PurgeDevices, PurgeQueue, PurgeDone
<1> QED
  BY <1>1, <1>2, <1>3, <1>4, <1>5, <1>6, <1>7

\* Each step keeps a steady receiver supplied or stops to count it as one.
LEMMA SteadyPreserved ==
  ASSUME TypeInv, LocalsInv, LoopInv, SteadyInv, [Next]_vars
  PROVE  SteadyInv'
<1> USE DEF TypeInv, TypeOK, GhostTypeOK
<1>f. ASSUME NEW w \in Workers, Stores(w)
      PROVE  /\ Env(w) \in Envelopes /\ pc' = [pc EXCEPT ![w] = "targets"] /\ pc[w] = "store"
             /\ RecordStore(w) /\ StoreAllowed(Env(w))
             /\ UNCHANGED <<req, targets, devs, offline, conversation_vars, device_vars>>
  BY <1>f, EnvType DEF Stores, SendStore, SendLabels, Continue, Goto
<1>o. ASSUME NEW u \in Users, DeleteUser(u), NEW e \in Envelopes, NEW d \in steady'[e]
      PROVE  Owner[d] # u
  <2>1. d \notin DevicesOf(u) /\ d \in Devices
    BY <1>o DEF DeleteUser, RecordLeave
  <2> QED
    BY <2>1 DEF DevicesOf
<1>l. ASSUME NEW w \in Workers, Leaves(w), NEW e \in Envelopes, NEW d \in steady'[e]
      PROVE  ~ (req[w].conv = EnvConv[e] /\ req[w].user = Owner[d])
  <2>1. e \in OfConversation(req[w].conv) => d \notin DevicesOf(req[w].user)
    BY <1>l DEF Leaves, RecordLeave
  <2>2. d \in Devices
    BY <1>l DEF Leaves, RecordLeave
  <2> QED
    BY <2>1, <2>2 DEF OfConversation, DevicesOf
<1>1. ASSUME NEW e \in Envelopes, NEW w \in Workers, Stores(w), Env(w) = e, NEW d \in steady'[e]
      PROVE  /\ (devices[d] = "active")' /\ d # EnvSender[e]
             /\ Owner[d] \in Participants(EnvConv[e])'
             /\ Owner[d] \notin excused'[e] =>
                  /\ \A v \in Workers : ~ Purging(v, EnvConv[e], Owner[d])'
                  /\ e \in encrypted_envelopes' =>
                       Held(e, d)' \/ \E v \in Workers : OnItsWay(v, e, d)'
  <2>0. RecordStore(w) /\ StoreAllowed(e)
    BY <1>1, <1>f
  <2>1. /\ steady' = [steady EXCEPT ![e] = {y \in Devices \ {EnvSender[e]} :
                        devices[y] = "active" /\ Owner[y] \in Participants(EnvConv[e])}]
        /\ excused' = [excused EXCEPT ![e] =
                        {u \in Users : \E v \in Workers : Purging(v, EnvConv[e], u)}]
    BY <1>1, <2>0 DEF RecordStore
  <2>2. /\ d \in Devices /\ d # EnvSender[e] /\ devices[d] = "active"
        /\ Owner[d] \in Participants(EnvConv[e])
    BY <1>1, <2>1
  <2>3. Owner[d] \notin excused'[e] => \A v \in Workers : ~ Purging(v, EnvConv[e], Owner[d])
    BY <2>1, <2>2, OwnerAssumption
  <2>4. Participants(EnvConv[e])' = Participants(EnvConv[e]) /\ devices' = devices
    BY <1>1, <1>f DEF conversation_vars, device_vars, Participants, GetMembers, GetSubscribers
  <2>5. \A v \in Workers : Purging(v, EnvConv[e], Owner[d])' => Purging(v, EnvConv[e], Owner[d])
    BY <1>1, <1>f DEF Purging, WorkerTypeOK
  <2>6. OnItsWay(w, e, d)'
    BY <1>1, <1>f DEF OnItsWay, InFanOut, Env, WorkerTypeOK
  <2> QED
    BY <2>2, <2>3, <2>4, <2>5, <2>6
<1>2. ASSUME NEW e \in Envelopes, NEW d \in steady[e], d \in steady'[e],
             excused[e] \subseteq excused'[e],
             ~ \E w \in Workers : Stores(w) /\ Env(w) = e
      PROVE  /\ (devices[d] = "active")' /\ d # EnvSender[e]
             /\ Owner[d] \in Participants(EnvConv[e])'
             /\ Owner[d] \notin excused'[e] =>
                  /\ \A v \in Workers : ~ Purging(v, EnvConv[e], Owner[d])'
                  /\ e \in encrypted_envelopes' =>
                       Held(e, d)' \/ \E v \in Workers : OnItsWay(v, e, d)'
  <2>0. /\ d \in Devices /\ Owner[d] \in Users /\ EnvConv[e] \in Conversations
        /\ devices[d] = "active" /\ d # EnvSender[e] /\ Owner[d] \in Participants(EnvConv[e])
    BY OwnerAssumption, TypesAssumption DEF SteadyInv
  <2>1. devices'[d] = "active"
    <3>1. ASSUME NEW x \in Devices, DeviceJoins(x) PROVE devices'[d] = "active"
      BY <2>0, <3>1 DEF DeviceJoins, RegisterDevice, RegisterAllowed, DeviceTypeOK
    <3>2. ASSUME NEW x \in Devices, DeviceRevoked(x) PROVE devices'[d] = "active"
      <4>1. d # x
        BY <1>2, <3>2 DEF DeviceRevoked, RecordLeave
      <4> QED
        BY <2>0, <3>2, <4>1 DEF DeviceRevoked, RevokeDevice, DeviceTypeOK
    <3>3. ASSUME NEW u \in Users, DeleteUser(u) PROVE devices'[d] = "active"
      BY <1>2, <1>o, <2>0, <3>3 DEF DeleteUser
    <3> QED
      BY <2>0, <3>1, <3>2, <3>3, DeviceCases DEF device_vars
  <2>2. Owner[d] \in Participants(EnvConv[e])'
    <3>1. ~ DeleteUser(Owner[d])
      BY <1>2, <1>o, <2>0
    <3>2. \A w \in Workers : Leaves(w) => ~ (req[w].conv = EnvConv[e] /\ req[w].user = Owner[d])
      BY <1>2, <1>l
    <3> QED
      BY <2>0, <3>1, <3>2, DepartureCases
  <2>3. ASSUME Owner[d] \notin excused'[e], NEW v \in Workers, Purging(v, EnvConv[e], Owner[d])'
        PROVE  FALSE
    <3>1. ~ (Leaves(v) /\ req[v].conv = EnvConv[e] /\ req[v].user = Owner[d])
      BY <1>2, <1>l
    <3>2. Owner[d] \notin excused[e]
      BY <1>2, <2>0, <2>3
    <3>3. ~ Purging(v, EnvConv[e], Owner[d])
      BY <3>2 DEF SteadyInv
    <3> QED
      BY <2>3, <3>1, <3>3, PurgingCases
  <2>4. ASSUME Owner[d] \notin excused'[e], e \in encrypted_envelopes'
        PROVE  Held(e, d)' \/ \E v \in Workers : OnItsWay(v, e, d)'
    <3>1. Owner[d] \notin excused[e] /\ e \in encrypted_envelopes
      BY <1>2, <2>0, <2>4, EnvelopeCases DEF Stores
    <3>c. CASE Crash
      <4>1. \A w \in Workers : ~ InFanOut(w, e)
        BY <2>0, <2>4, <3>c DEF Crash, RecordCrash
      <4>2. Owner[d] \notin {Owner[x] : x \in {y \in Devices : Queued(e, y)}}
        BY <2>4, <3>c, <4>1 DEF Crash, RecordCrash
      <4>3. ~ Queued(e, d)
        BY <2>0, <4>2
      <4>4. <<e, d>> \in delivery_state
        BY <3>1, <4>1, <4>3 DEF SteadyInv, Held, OnItsWay
      <4> QED
        BY <3>c, <4>4 DEF Crash, store_vars, envelope_vars, Held
    <3>2. CASE ~ Crash
      <4>3. ASSUME Held(e, d) PROVE Held(e, d)'
        BY <1>2, <1>o, <2>0, <2>4, <3>1, <3>2, <4>3, HeldLost DEF SteadyInv
      <4>4. ASSUME NEW w \in Workers, OnItsWay(w, e, d) PROVE Held(e, d)' \/ OnItsWay(w, e, d)'
        BY <2>0, <3>1, <3>2, <4>4, WayLost
      <4> QED
        BY <3>1, <4>3, <4>4 DEF SteadyInv
    <3> QED
      BY <3>2, <3>c
  <2> QED
    BY <2>0, <2>1, <2>2, <2>3, <2>4
<1>3. ASSUME NEW e \in completed', NEW w \in Workers, InFanOut(w, e)' PROVE FALSE
  <2>1. CASE Stores(w) /\ Env(w) = e
    BY <1>3, <1>f, <2>1 DEF RecordStore
  <2>2. CASE InFanOut(w, e) /\ e \notin completed
    <3>1. PICK v \in Workers : /\ SendDone(v) /\ Env(v) = e
                               /\ \A x \in Workers \ {v} : ~ InFanOut(x, e)
      BY <1>3, <2>2, CompletedCases
    <3>2. w = v /\ pc'[v] = "idle"
      BY <2>2, <3>1 DEF SendDone, Finish, Goto, WorkerTypeOK
    <3> QED
      BY <1>3, <3>2 DEF InFanOut
  <2> QED
    BY <1>3, <2>1, <2>2, InFanOutCases DEF SteadyInv
<1>4. ASSUME NEW e \in Envelopes, NEW d \in steady'[e]
      PROVE  /\ (devices[d] = "active")' /\ d # EnvSender[e]
             /\ Owner[d] \in Participants(EnvConv[e])'
             /\ Owner[d] \notin excused'[e] =>
                  /\ \A v \in Workers : ~ Purging(v, EnvConv[e], Owner[d])'
                  /\ e \in encrypted_envelopes' =>
                       Held(e, d)' \/ \E v \in Workers : OnItsWay(v, e, d)'
  <2>1. CASE \E w \in Workers : Stores(w) /\ Env(w) = e
    BY <1>1, <1>4, <2>1
  <2>2. CASE ~ \E w \in Workers : Stores(w) /\ Env(w) = e
    BY <1>2, <1>4, <2>2, SteadyCases
  <2> QED
    BY <2>1, <2>2
<1> QED
  BY <1>3, <1>4 DEF SteadyInv

\* Nobody is forgotten among those a fan-out was overtaken by.
LEMMA OvertakenGrows ==
  ASSUME TypeInv, [Next]_vars, NEW e \in Envelopes
  PROVE  overtaken[e] \subseteq overtaken'[e]
<1> USE DEF TypeInv, TypeOK, GhostTypeOK
<1>1. ASSUME NEW E, NEW D, NEW U, RecordLeave(E, D, U) PROVE overtaken[e] \subseteq overtaken'[e]
  BY <1>1 DEF RecordLeave
<1>2. ASSUME NEW w \in Workers, WorkerStep(w)
      PROVE  UNCHANGED overtaken \/ \E E, D, U : RecordLeave(E, D, U)
  BY <1>2 DEF WorkerStep, SendStep, JoinStep, LeaveStep, RecordStore, RecordDone, RecordJoin,
     RecordPurge, ghost_vars
<1> QED
  BY <1>1, <1>2 DEF Next, vars, ghost_vars, BeginRequest, Acknowledge, DeviceJoins, DeviceRevoked,
     DeleteUser, MaintenancePurge, WsConnect, WsDisconnect, Tick, Crash, RecordCrash

\* A removal whose rows a crash left is remembered until a purge deletes them.
LEMMA CutCases ==
  ASSUME [Next]_vars, NEW x \in cut, x \notin cut'
  PROVE  \E w \in Workers : PurgeRows(w) /\ x = <<req[w].conv, req[w].user>>
<1>1. ASSUME NEW w \in Workers, WorkerStep(w)
      PROVE  UNCHANGED cut \/ (PurgeRows(w) /\ RecordPurge(w))
  BY <1>1 DEF WorkerStep, SendStep, JoinStep, LeaveStep, RecordStore, RecordDone, RecordJoin,
     RecordLeave, ghost_vars
<1>2. ASSUME NEW w \in Workers, RecordPurge(w) PROVE x = <<req[w].conv, req[w].user>>
  BY <1>2 DEF RecordPurge
<1>3. ~ Crash
  BY DEF Crash, RecordCrash
<1> QED
  BY <1>1, <1>2, <1>3 DEF Next, vars, ghost_vars, BeginRequest, Acknowledge, DeviceJoins,
     DeviceRevoked, DeleteUser, RecordLeave, MaintenancePurge, WsConnect, WsDisconnect, Tick

\* A purge runs to its end unless the process crashes.
LEMMA PurgeGoesOn ==
  ASSUME TypeInv, [Next]_vars, NEW w \in Workers, NEW c, NEW u, Purging(w, c, u)
  PROVE  \/ SameLocals(w) \/ Crash
         \/ PurgeRows(w) \/ PurgeDevices(w) \/ PurgeQueue(w) \/ PurgeDone(w)
BY LoopCases DEF Purging, Loops, Stores, SendStore, SendTargets, FanOutUser, FanOutEnqueue,
   FanOutOffline, SendDone, FanOutDone, Leaves, RemoveMemberStore, UnsubscribeChannelStore

\* Each step clears what a former participant holds, or the purge still has it
\* before it.
LEMMA LeftPreserved ==
  ASSUME TypeInv, LocalsInv, PresentInv, LoopInv, LeftInv, [Next]_vars
  PROVE  LeftInv'
<1> SUFFICES ASSUME NEW e \in Envelopes, NEW d \in Devices,
                    Owner[d] \in users' \ Participants(EnvConv[e])',
                    Owner[d] \notin overtaken'[e]
             PROVE  /\ \A w \in Workers : OnItsWay(w, e, d)' => pc'[w] = "targets"
                    /\ <<e, d>> \in delivery_state' =>
                         \/ <<EnvConv[e], Owner[d]>> \in cut'
                         \/ \E w \in Workers :
                              Purging(w, EnvConv[e], Owner[d])' /\ pc'[w] = "purge_rows"
                    /\ Queued(e, d)' => \E w \in Workers :
                         /\ Purging(w, EnvConv[e], Owner[d])'
                         /\ pc'[w] = "purge_queue" => d \in devs'[w]
  BY DEF LeftInv
<1> USE DEF TypeInv, TypeOK
<1>0. /\ EnvConv[e] \in Conversations /\ Owner[d] \in users
      /\ Owner[d] \notin overtaken[e] /\ ~ DeleteUser(Owner[d])
  BY TypesAssumption, RevocationFinal, OvertakenGrows DEF DeleteUser
<1>c. CASE Crash
  <2>1. /\ \A w \in Workers : pc'[w] = "idle"
        /\ Participants(EnvConv[e])' = Participants(EnvConv[e])
        /\ delivery_state' = delivery_state
    BY <1>c DEF Crash, store_vars, envelope_vars, conversation_vars, Participants, GetMembers,
       GetSubscribers
  <2>2. ~ Queued(e, d)'
    BY <1>c, SMT DEF Crash, Queued, Range
  <2>3. <<e, d>> \in delivery_state' => <<EnvConv[e], Owner[d]>> \in cut'
    <3>1. <<EnvConv[e], Owner[d]>> \in Conversations \X Users
      BY <1>0, OwnerAssumption
    <3>2. <<e, d>> \in delivery_state =>
            \/ <<EnvConv[e], Owner[d]>> \in cut
            \/ \E w \in Workers :
                 Purging(w, EnvConv[e], Owner[d]) /\ pc[w] = "purge_rows"
      <4>1. Owner[d] \in users \ Participants(EnvConv[e]) /\ Owner[d] \notin overtaken[e]
        BY <1>0, <2>1
      <4> QED
        BY <4>1 DEF LeftInv
    <3> QED
      BY <1>c, <2>1, <3>1, <3>2, SMT DEF Crash, RecordCrash
  <2> QED
    BY <2>1, <2>2, <2>3 DEF OnItsWay, InFanOut
<1>1. CASE Owner[d] \in Participants(EnvConv[e])
  <2>1. PICK w \in Workers : Leaves(w) /\ req[w].conv = EnvConv[e] /\ req[w].user = Owner[d]
    BY <1>0, <1>1, DepartureCases
  <2>2. /\ pc[w] \in {"remove", "unsubscribe"} /\ pc' = [pc EXCEPT ![w] = "purge_rows"]
        /\ UNCHANGED <<req, targets, devs, offline>>
    BY <2>1 DEF Leaves, RemoveMemberStore, UnsubscribeChannelStore, Continue, Goto
  <2>3. Purging(w, EnvConv[e], Owner[d])' /\ pc'[w] = "purge_rows"
    BY <2>1, <2>2 DEF Purging, WorkerTypeOK
  <2>4. \A v \in Workers : ~ (pc[v] = "fanout" /\ Env(v) = e)
    BY <2>1 DEF Leaves, RecordLeave, OfConversation
  <2>5. ASSUME NEW v \in Workers, OnItsWay(v, e, d)' PROVE pc'[v] = "targets"
    <3>1. pc'[v] = pc[v] /\ Env(v)' = Env(v)
      BY <2>2, <2>5 DEF OnItsWay, InFanOut, WorkerTypeOK, Env
    <3> QED
      BY <2>4, <2>5, <3>1 DEF OnItsWay, InFanOut
  <2> QED
    BY <2>3, <2>5
<1>2. CASE Owner[d] \notin Participants(EnvConv[e]) /\ ~ Crash
  <2>0. /\ \A w \in Workers : OnItsWay(w, e, d) => pc[w] = "targets"
        /\ <<e, d>> \in delivery_state =>
             \/ <<EnvConv[e], Owner[d]>> \in cut
             \/ \E w \in Workers :
                  Purging(w, EnvConv[e], Owner[d]) /\ pc[w] = "purge_rows"
        /\ Queued(e, d) => \E w \in Workers :
             /\ Purging(w, EnvConv[e], Owner[d])
             /\ pc[w] = "purge_queue" => d \in devs[w]
    BY <1>0, <1>2 DEF LeftInv
  <2>v. \A w \in Workers : ~ Visits(w, e, d)
    BY <2>0 DEF Visits
  <2>s. ASSUME NEW w \in Workers, SameLocals(w), Purging(w, EnvConv[e], Owner[d])
        PROVE  Purging(w, EnvConv[e], Owner[d])' /\ pc'[w] = pc[w] /\ devs'[w] = devs[w]
    BY <2>s DEF SameLocals, Purging
  <2>1. ASSUME NEW w \in Workers, OnItsWay(w, e, d)' PROVE pc'[w] = "targets"
    <3>1. CASE Stores(w)
      BY <3>1 DEF Stores, SendStore, Continue, Goto, WorkerTypeOK
    <3>2. CASE OnItsWay(w, e, d) /\ pc'[w] # "targets"
      <4>1. pc[w] = "targets" /\ pc'[w] = "fanout" /\ Env(w) = e
        BY <2>0, <2>1, <3>2 DEF OnItsWay, InFanOut
      <4>2. SendTargets(w)
        BY <4>1, FanOutCases DEF SameLocals, FanOutUser, FanOutEnqueue, FanOutOffline
      <4>3. targets'[w] = Participants(EnvConv[e]) /\ devs'[w] = {} /\ offline'[w] = {}
        BY <4>1, <4>2 DEF SendTargets, LocalsInv, Conv, WorkerTypeOK
      <4> QED
        BY <1>2, <2>1, <4>1, <4>3 DEF OnItsWay
    <3> QED
      BY <2>1, <3>1, <3>2, WayCases
  <2>2. ASSUME <<e, d>> \in delivery_state'
        PROVE  \/ <<EnvConv[e], Owner[d]>> \in cut'
               \/ \E w \in Workers : Purging(w, EnvConv[e], Owner[d])' /\ pc'[w] = "purge_rows"
    <3>1. <<e, d>> \in delivery_state
      BY <2>2, <2>v, RowCases
    <3>2. ASSUME NEW w \in Workers, req[w].conv = EnvConv[e], req[w].user = Owner[d]
          PROVE  ~ PurgeRows(w)
      <4>1. PurgeRows(w) => delivery_state' = delivery_state \
              {row \in delivery_state : EnvConv[row[1]] = req[w].conv /\ Owner[row[2]] = req[w].user}
        BY DEF PurgeRows, DeletePendingDeliveryForUserInConversation, DropRows
      <4> QED
        BY <2>2, <3>1, <3>2, <4>1, SMT
    <3>3. ASSUME NEW w \in Workers, Purging(w, EnvConv[e], Owner[d]), pc[w] = "purge_rows"
          PROVE  Purging(w, EnvConv[e], Owner[d])' /\ pc'[w] = "purge_rows"
      <4>1. ~ PurgeRows(w)
        BY <3>2, <3>3 DEF Purging
      <4>2. SameLocals(w)
        BY <1>2, <3>3, <4>1, PurgeGoesOn DEF PurgeDevices, PurgeQueue, PurgeDone
      <4> QED
        BY <2>s, <3>3, <4>2
    <3>4. ASSUME <<EnvConv[e], Owner[d]>> \in cut PROVE <<EnvConv[e], Owner[d]>> \in cut'
      BY <3>2, <3>4, CutCases
    <3> QED
      BY <2>0, <3>1, <3>3, <3>4
  <2>3. ASSUME Queued(e, d)'
        PROVE  \E w \in Workers : /\ Purging(w, EnvConv[e], Owner[d])'
                                  /\ pc'[w] = "purge_queue" => d \in devs'[w]
    <3>1. Queued(e, d)
      BY <2>3, <2>v, QueuedCases
    <3>2. PICK w \in Workers : /\ Purging(w, EnvConv[e], Owner[d])
                               /\ pc[w] = "purge_queue" => d \in devs[w]
      BY <2>0, <3>1
    <3>3. CASE SameLocals(w)
      <4>1. Purging(w, EnvConv[e], Owner[d])' /\ pc'[w] = pc[w] /\ devs'[w] = devs[w]
        BY <2>s, <3>2, <3>3
      <4> QED
        BY <3>2, <4>1
    <3>4. CASE PurgeRows(w)
      BY <3>2, <3>4 DEF PurgeRows, Continue, Goto, Purging, WorkerTypeOK
    <3>5. CASE PurgeDevices(w)
      <4>1. d \in GetDevicesForUser(Owner[d])
        BY <1>0, <3>1 DEF PresentInv, GetDevicesForUser, DevicesOf
      <4> QED
        BY <3>2, <3>5, <4>1 DEF PurgeDevices, Goto, Purging, WorkerTypeOK
    <3>6. CASE PurgeQueue(w)
      <4>1. PICK x \in devs[w] :
              \E q \in Selections(pending[x], {y \in Envelopes : EnvConv[y] # req[w].conv}) :
                /\ pc[w] = "purge_queue" /\ x \in Devices
                /\ pending' = [pending EXCEPT ![x] = q] /\ devs'[w] = devs[w] \ {x}
                /\ Range(q) = {y \in Range(pending[x]) : EnvConv[y] # req[w].conv}
                /\ UNCHANGED <<pc, req>>
        BY <3>6, PurgeEffect
      <4>2. x # d
        BY <2>3, <3>2, <4>1 DEF Queued, Purging, DeliveryTypeOK
      <4> QED
        BY <3>2, <4>1, <4>2 DEF Purging
    <3>7. ~ PurgeDone(w)
      BY <3>2 DEF PurgeDone
    <3> QED
      BY <1>2, <3>2, <3>3, <3>4, <3>5, <3>6, <3>7, PurgeGoesOn
  <2> QED
    BY <2>1, <2>2, <2>3
<1> QED
  BY <1>1, <1>2, <1>c

\* The steps that touch the envelope, delivery and device tables.
LEMMA TableCases ==
  ASSUME [Next]_vars
  PROVE  \/ UNCHANGED <<envelope_vars, device_vars>>
         \/ \E w \in Workers : Stores(w) \/ FanOutOffline(w) \/ PurgeRows(w)
         \/ \E e \in Envelopes, d \in Devices : Acknowledge(e, d)
         \/ \E d \in Devices : DeviceJoins(d) \/ DeviceRevoked(d)
         \/ \E u \in Users : DeleteUser(u)
         \/ MaintenancePurge
<1>1. ASSUME NEW w \in Workers, BeginRequest(w) PROVE UNCHANGED <<envelope_vars, device_vars>>
  BY <1>1 DEF BeginRequest, SendBegin, AddMemberBegin, RemoveMemberBegin, ManageBegin,
     SubscribeChannelBegin, UnsubscribeChannelBegin
<1>2. ASSUME NEW w \in Workers, WorkerStep(w)
      PROVE  \/ UNCHANGED <<envelope_vars, device_vars>>
             \/ Stores(w) \/ FanOutOffline(w) \/ PurgeRows(w)
  <2>1. CASE SendStep(w)
    BY <2>1 DEF SendStep, SendPolicy, SendDuplicate, SendStore, SendTargets, FanOutUser,
       FanOutEnqueue, SendDone, Stores
  <2>2. CASE JoinStep(w) \/ LeaveStep(w)
    BY <2>2 DEF JoinStep, LeaveStep, AddMemberCount, AddMemberStore, SubscribeChannelStore,
       RemoveMemberStore, UnsubscribeChannelStore, PurgeDevices, PurgeQueue, PurgeDone
  <2> QED
    BY <1>2, <2>1, <2>2 DEF WorkerStep
<1> QED
  BY <1>1, <1>2 DEF Next, vars, store_vars, WsConnect, WsDisconnect, Tick, Crash

\* Every transaction leaves the references between the tables whole.
LEMMA RowsPreserved ==
  ASSUME TypeInv, RowsRefer, [Next]_vars
  PROVE  RowsRefer'
<1> USE DEF TypeInv, TypeOK, EnvelopeTypeOK, DeviceTypeOK
<1>t. \A row \in delivery_state : row[1] \in Envelopes /\ row[2] \in Devices
  OBVIOUS
<1>e. \A e \in encrypted_envelopes : e \in Envelopes /\ EnvSender[e] \in Devices
  BY TypesAssumption
<1>1. CASE UNCHANGED <<envelope_vars, device_vars>>
  BY <1>1 DEF envelope_vars, device_vars, RowsRefer
<1>2. ASSUME NEW w \in Workers, Stores(w) PROVE RowsRefer'
  BY <1>2 DEF Stores, SendStore, StoreEnvelope, StoreAllowed, device_vars, RowsRefer
<1>3. ASSUME NEW w \in Workers, FanOutOffline(w) PROVE RowsRefer'
  <2>1. PICK x \in offline[w] : AddDeliveryState(Env(w), x)
    BY <1>3 DEF FanOutOffline
  <2>2. UNCHANGED device_vars
    BY <1>3 DEF FanOutOffline
  <2>3. CASE DeliveryRowAllowed(Env(w), x)
    <3>1. /\ delivery_state' = delivery_state \cup {<<Env(w), x>>}
          /\ UNCHANGED <<encrypted_envelopes, acked, devices>>
      BY <2>1, <2>2, <2>3 DEF AddDeliveryState, device_vars
    <3>2. Env(w) \in encrypted_envelopes /\ devices[x] # "absent"
      BY <2>3 DEF DeliveryRowAllowed
    <3> QED
      BY <3>1, <3>2, SMT DEF RowsRefer
  <2>4. CASE ~ DeliveryRowAllowed(Env(w), x)
    BY <2>1, <2>2, <2>4 DEF AddDeliveryState, device_vars, RowsRefer
  <2> QED
    BY <2>3, <2>4
<1>4. ASSUME NEW w \in Workers, PurgeRows(w) PROVE RowsRefer'
  BY <1>4 DEF PurgeRows, DeletePendingDeliveryForUserInConversation, DropRows, device_vars,
     RowsRefer
<1>5. ASSUME NEW e \in Envelopes, NEW d \in Devices, Acknowledge(e, d) PROVE RowsRefer'
  BY <1>5 DEF Acknowledge, MarkAcked, device_vars, RowsRefer
<1>6. ASSUME NEW x \in Devices, DeviceJoins(x) \/ DeviceRevoked(x) PROVE RowsRefer'
  <2>1. \A d \in Devices : devices[d] # "absent" => devices'[d] # "absent"
    BY <1>6 DEF DeviceJoins, RegisterDevice, DeviceRevoked, RevokeDevice
  <2>2. UNCHANGED envelope_vars
    BY <1>6 DEF DeviceJoins, DeviceRevoked
  <2> QED
    BY <1>t, <1>e, <2>1, <2>2 DEF envelope_vars, RowsRefer
<1>7. ASSUME NEW u \in Users, DeleteUser(u) PROVE RowsRefer'
  <2>1. /\ delivery_state' = delivery_state \ {row \in delivery_state :
                               Owner[row[2]] = u \/ Owner[EnvSender[row[1]]] = u}
        /\ acked' = acked \ {row \in delivery_state :
                               Owner[row[2]] = u \/ Owner[EnvSender[row[1]]] = u}
        /\ encrypted_envelopes' = {e \in encrypted_envelopes : Owner[EnvSender[e]] # u}
        /\ \A d \in Devices : Owner[d] # u => devices'[d] = devices[d]
    BY <1>7 DEF DeleteUser, DropRows
  <2> QED
    BY <1>t, <1>e, <2>1 DEF RowsRefer
<1>8. CASE MaintenancePurge
  BY <1>8 DEF MaintenancePurge, DeleteExpired, DropRows, device_vars, RowsRefer
<1> QED
  BY <1>1, <1>2, <1>3, <1>4, <1>5, <1>6, <1>7, <1>8, TableCases

\* What must be true together for each to stay true.
HoldingInv == PresentInv /\ LoopInv /\ SteadyInv /\ LeftInv /\ RowsRefer

\* When the server starts nothing is held, on its way or being purged.
LEMMA InitHolding == Init => HoldingInv /\ OnceInv /\ OrderInv
<1> SUFFICES ASSUME Init PROVE HoldingInv /\ OnceInv /\ OrderInv
  OBVIOUS
<1>i. /\ pc = [w \in Workers |-> "idle"] /\ pending = [d \in Devices |-> <<>>] /\ users = Users
      /\ delivery_state = {} /\ acked = {} /\ encrypted_envelopes = {} /\ completed = {}
      /\ before = {} /\ steady = [e \in Envelopes |-> {}]
  BY DEF Init, WorkerInit
<1>0. /\ \A w \in Workers : pc[w] = "idle"
      /\ \A d \in Devices : pending[d] = <<>> /\ Owner[d] \in users
      /\ \A e \in Envelopes : steady[e] = {}
  BY <1>i, OwnerAssumption
<1>1. \A e \in Envelopes, d \in Devices : ~ Queued(e, d) /\ ~ Held(e, d)
  <2>1. \A d \in Devices : Range(pending[d]) = {}
    BY <1>0, SMT DEF Range
  <2> QED
    BY <1>i, <2>1 DEF Queued, Held
<1>2. \A w \in Workers, e \in Envelopes : ~ InFanOut(w, e) /\ \A d \in Devices : ~ OnItsWay(w, e, d)
  BY <1>0 DEF InFanOut, OnItsWay
<1>3. GivenOnce /\ SequentialOrder
  BY <1>i, <1>0, SMT DEF GivenOnce, SequentialOrder
<1>4. PresentInv /\ LoopInv /\ SteadyInv /\ RowsRefer
  BY <1>i, <1>0, <1>1 DEF PresentInv, LoopInv, SteadyInv, RowsRefer
<1>5. LeftInv
  BY <1>i, <1>1, <1>2 DEF LeftInv
<1>6. OnceInv
  BY <1>i, <1>1, <1>2, <1>3 DEF OnceInv
<1>7. OrderInv
  BY <1>i, <1>3 DEF OrderInv
<1> QED
  BY <1>4, <1>5, <1>6, <1>7 DEF HoldingInv

\* What devices hold, what is on its way to them and what is being purged fit
\* together in every reachable state.
THEOREM HoldingInvariant == Spec => [](TypeInv /\ LocalsInv /\ HoldingInv)
<1>1. TypeInv /\ LocalsInv /\ HoldingInv /\ [Next]_vars => HoldingInv'
  BY PresentPreserved, LoopPreserved, SteadyPreserved, LeftPreserved, RowsPreserved DEF HoldingInv
<1>2. Spec => []TypeInv
  BY InitTypeInv, NextTypeInv, PTL DEF Spec
<1>3. DeliveryInv => LocalsInv
  BY DEF DeliveryInv
<1> QED
  BY <1>1, <1>2, <1>3, DeliverySafe, InitHolding, PTL DEF Spec

\* A message that was answered waits for each device that should have it until
\* the device has it (FanOutToDevices, Acknowledge): no interleaving of sends,
\* purges, joins, revocations and crashes loses it, but those that excuse it.
THEOREM NothingIsLost == Spec => []StillHeld
<1>1. TypeInv /\ HoldingInv => StillHeld
  <2> SUFFICES ASSUME TypeInv, SteadyInv, NEW e \in completed, e \in encrypted_envelopes,
                      NEW d \in steady[e], Owner[d] \notin excused[e]
               PROVE  Held(e, d)
    BY DEF HoldingInv, StillHeld
  <2>1. e \in Envelopes
    BY DEF TypeInv, TypeOK, GhostTypeOK
  <2>2. Held(e, d) \/ \E w \in Workers : OnItsWay(w, e, d)
    BY <2>1 DEF SteadyInv
  <2>3. \A w \in Workers : ~ InFanOut(w, e)
    BY DEF SteadyInv
  <2> QED
    BY <2>2, <2>3 DEF OnItsWay
<1> QED
  BY <1>1, HoldingInvariant, PTL

\* PurgeMemberDelivery leaves a former member nothing but what a fan-out
\* that had read the participants before the removal brought, and a crash takes
\* no more from that than the rows of the removals it has cut off.
THEOREM RemovalLeavesNothing == Spec => []RemovalPurges
<1>1. TypeInv /\ HoldingInv => RemovalPurges
  <2> SUFFICES ASSUME TypeInv, LeftInv, NEW c \in Conversations, NEW u \in users,
                      ~ IsUserInConversation(c, u),
                      \A w \in Workers : ~ Purging(w, c, u), <<c, u>> \notin cut,
                      NEW e \in OfConversation(c), NEW d \in DevicesOf(u), Held(e, d),
                      u \notin overtaken[e]
               PROVE  FALSE
    BY DEF HoldingInv, RemovalPurges
  <2>1. e \in Envelopes /\ EnvConv[e] = c /\ d \in Devices /\ Owner[d] = u
    BY DEF OfConversation, DevicesOf
  <2>2. Owner[d] \in users \ Participants(EnvConv[e]) /\ Owner[d] \notin overtaken[e]
    BY <2>1 DEF IsUserInConversation
  <2>3. /\ <<e, d>> \in delivery_state => \E w \in Workers : Purging(w, c, u)
        /\ Queued(e, d) => \E w \in Workers : Purging(w, c, u)
    BY <2>1, <2>2 DEF LeftInv
  <2> QED
    BY <2>3 DEF Held
<1> QED
  BY <1>1, HoldingInvariant, PTL

\* No transaction leaves a row that refers to one another transaction removed.
THEOREM ReferencesHold == Spec => []RowsRefer
<1>1. HoldingInv => RowsRefer
  BY DEF HoldingInv
<1> QED
  BY <1>1, HoldingInvariant, PTL

\* As long as maintenance purges no envelope, each is stored and fanned out once,
\* however often and by however many threads it is sent.
THEOREM OnceInvariant == Spec /\ [][~ MaintenancePurge]_vars => [](OnceInv /\ OrderInv)
<1>1. /\ TypeInv /\ LocalsInv /\ HoldingInv /\ OnceInv /\ OrderInv
      /\ [Next]_vars /\ [~ MaintenancePurge]_vars
      => OnceInv' /\ OrderInv'
  <2> SUFFICES ASSUME TypeInv, LocalsInv, HoldingInv, OnceInv, OrderInv, [Next]_vars,
                      [~ MaintenancePurge]_vars
               PROVE  OnceInv' /\ OrderInv'
    OBVIOUS
  <2>1. PresentInv /\ LoopInv /\ \A e \in completed, w \in Workers : ~ InFanOut(w, e)
    BY DEF HoldingInv, SteadyInv
  <2>2. ~ MaintenancePurge
    BY DEF MaintenancePurge, DeleteExpired, Expired, vars, store_vars, envelope_vars
  <2> QED
    BY <2>1, <2>2, OncePreserved, OrderPreserved
<1> QED
  BY <1>1, HoldingInvariant, InitHolding, PTL DEF Spec

\* As long as maintenance purges no envelope, no device is given one twice
\* (CheckDuplicate, StoreEnvelope): neither twice in its queue nor both in its
\* queue and in a delivery row.
THEOREM GivenAtMostOnce == Spec /\ [][~ MaintenancePurge]_vars => []GivenOnce
<1>1. OnceInv => GivenOnce
  BY DEF OnceInv
<1> QED
  BY <1>1, OnceInvariant, PTL

\* As long as maintenance purges no envelope, what was answered before another
\* message was stored is queued ahead of it.
THEOREM OrderKept == Spec /\ [][~ MaintenancePurge]_vars => []SequentialOrder
<1>1. OrderInv => SequentialOrder
  BY DEF OrderInv
<1> QED
  BY <1>1, OnceInvariant, PTL
=============================================================================
