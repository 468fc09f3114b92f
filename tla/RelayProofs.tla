---------------------------- MODULE RelayProofs ----------------------------
(***************************************************************************)
(* Proofs about Relay, for any users, devices, conversations, envelopes,   *)
(* threads, requests and limits: the types, how far a group can outgrow    *)
(* its limit, and what membership_version tells a client.                  *)
(***************************************************************************)
EXTENDS Relay, TLAPS, FiniteSetTheorems, SequenceTheorems

\* The prover of every leaf that names none.
USE Zenon

----------------------------------------------------------------------------
(* The threads. *)

(* A request handed to a storage_pool thread leaves its locals typed. *)
LEMMA BeginType ==
  ASSUME NEW w \in Workers, NEW r \in Requests, NEW label \in Labels,
         WorkerTypeOK, Begin(w, r, label)
  PROVE  WorkerTypeOK'
BY DEF WorkerTypeOK, Begin, Goto

(* So does the step from one store call to the next. *)
LEMMA ContinueType ==
  ASSUME NEW w \in Workers, NEW label \in Labels,
         WorkerTypeOK, Continue(w, label)
  PROVE  WorkerTypeOK'
BY DEF WorkerTypeOK, Continue, Goto

(* So does the return of a handler. *)
LEMMA FinishType ==
  ASSUME NEW w \in Workers, WorkerTypeOK, Finish(w)
  PROVE  WorkerTypeOK'
BY DEF WorkerTypeOK, Finish, Goto, Labels

----------------------------------------------------------------------------
(* The delivery queues. *)

\* A selection of a queue is a queue, no longer than it and with no element
\* that was not in it.
LEMMA SelectionFacts ==
  ASSUME NEW S, NEW s \in Seq(S), NEW keep, NEW q \in Selections(s, keep)
  PROVE  /\ q \in Seq(S)
         /\ Len(q) <= Len(s)
         /\ Range(q) \subseteq Range(s)
<1>1. PICK n \in 0..Len(s) : q \in [1..n -> Range(s)]
  BY DEF Selections
<1>2. Range(s) \subseteq S
  BY ElementOfSeq, LenProperties, SMT DEF Range
<1>3. q \in [1..n -> S]
  BY <1>1, <1>2
<1>4. q \in Seq(S) /\ n \in Nat
  BY <1>1, <1>3, LenProperties, IsASeq, SMT
<1>5. Len(q) = n
  BY <1>3, <1>4, LenProperties, SMT
<1>6. Range(q) \subseteq Range(s)
  BY <1>1 DEF Range
<1> QED
  BY <1>1, <1>4, <1>5, <1>6, LenProperties, SMT

(* DeliveryManager::Enqueue keeps the types of the queues. *)
LEMMA EnqueueType ==
  ASSUME NEW e \in Envelopes, NEW d \in Devices,
         DeliveryTypeOK, Enqueue(e, d)
  PROVE  DeliveryTypeOK'
<1>1. Append(pending[d], e) \in Seq(Envelopes)
  BY AppendProperties DEF DeliveryTypeOK
<1> QED
  BY <1>1, SMT DEF DeliveryTypeOK, Enqueue, Notify

(* PurgeConversationFromDeviceQueue leaves a queue of envelopes. *)
LEMMA PurgeType ==
  ASSUME NEW c, NEW d \in Devices,
         DeliveryTypeOK, PurgeConversationFromDeviceQueue(c, d)
  PROVE  DeliveryTypeOK'
<1>1. PICK q \in Selections(pending[d], {e \in Envelopes : EnvConv[e] # c}) :
        pending' = [pending EXCEPT ![d] = q]
  BY DEF PurgeConversationFromDeviceQueue
<1>2. q \in Seq(Envelopes)
  BY SelectionFacts DEF DeliveryTypeOK
<1> QED
  BY <1>1, <1>2 DEF DeliveryTypeOK, PurgeConversationFromDeviceQueue

----------------------------------------------------------------------------
(* The store. *)

(* ConversationRepository::AddMember keeps the types of its tables. *)
LEMMA AddMemberType ==
  ASSUME NEW c \in Conversations, NEW u \in Users, NEW role \in MemberRole,
         ConversationTypeOK, AddMember(c, u, role)
  PROVE  ConversationTypeOK'
BY SMT DEF ConversationTypeOK, AddMember, BumpMembershipVersion

(* ConversationRepository::RemoveMember keeps the types of its tables. *)
LEMMA RemoveMemberType ==
  ASSUME NEW c \in Conversations, NEW u \in Users,
         ConversationTypeOK, RemoveMember(c, u)
  PROVE  ConversationTypeOK'
BY SMT DEF ConversationTypeOK, RemoveMember, BumpMembershipVersion

(* Subscribe and Unsubscribe keep the types of their tables. *)
LEMMA SubscriptionType ==
  ASSUME NEW c \in Conversations, NEW u \in Users,
         ConversationTypeOK, Subscribe(c, u) \/ Unsubscribe(c, u)
  PROVE  ConversationTypeOK'
<1>1. CASE Subscribe(c, u)
  BY <1>1, SMT DEF ConversationTypeOK, Subscribe, BumpMembershipVersion
<1>2. CASE Unsubscribe(c, u)
  BY <1>2, SMT DEF ConversationTypeOK, Unsubscribe, BumpMembershipVersion
<1> QED
  BY <1>1, <1>2

(* EnvelopeRepository::StoreEnvelope keeps the types of its tables. *)
LEMMA StoreEnvelopeType ==
  ASSUME NEW e \in Envelopes, NEW t \in Nat,
         EnvelopeTypeOK, StoreEnvelope(e, t)
  PROVE  EnvelopeTypeOK'
BY DEF EnvelopeTypeOK, StoreEnvelope

(* EnvelopeRepository::AddDeliveryState keeps the types of its tables. *)
LEMMA AddDeliveryStateType ==
  ASSUME NEW e \in Envelopes, NEW d \in Devices,
         EnvelopeTypeOK, AddDeliveryState(e, d)
  PROVE  EnvelopeTypeOK'
BY SMT DEF EnvelopeTypeOK, AddDeliveryState

----------------------------------------------------------------------------
(* A thread's request fits the call it is about to make. *)

SendLabels == {"policy", "duplicate", "store", "targets", "fanout"}
LeaveLabels ==
  {"remove", "unsubscribe", "purge_rows", "purge_devices", "purge_queue"}

Fits(label, r) ==
  /\ label \in SendLabels => r \in SendRequest
  /\ label \in {"count", "add"} => r \in AddRequest
  /\ label = "subscribe" => r \in SubscriptionRequest
  /\ label \in LeaveLabels => r \in RemoveRequest \cup SubscriptionRequest

RequestMatches == \A w \in Workers : Fits(pc[w], req[w])

TypeInv == TypeOK /\ RequestMatches

(* A handler starts with the request its first store call belongs to. *)
LEMMA BeginMatches ==
  ASSUME NEW w \in Workers, NEW r, NEW label,
         WorkerTypeOK, RequestMatches, Begin(w, r, label), Fits(label, r)
  PROVE  RequestMatches'
BY DEF WorkerTypeOK, RequestMatches, Begin, Goto

(* A step within a handler keeps its request. *)
LEMMA GotoMatches ==
  ASSUME NEW w \in Workers, NEW label, WorkerTypeOK, RequestMatches,
         Goto(w, label), UNCHANGED req, Fits(label, req[w])
  PROVE  RequestMatches'
BY DEF WorkerTypeOK, RequestMatches, Goto

(* A handler that has returned has no request. *)
LEMMA FinishMatches ==
  ASSUME NEW w \in Workers, WorkerTypeOK, RequestMatches, Finish(w)
  PROVE  RequestMatches'
<1>1. Fits("idle", NoRequest)
  BY DEF Fits, SendLabels, LeaveLabels
<1> QED
  BY <1>1 DEF WorkerTypeOK, RequestMatches, Finish, Goto

\* What does not change keeps its type.
LEMMA Frame ==
  /\ ConversationTypeOK /\ UNCHANGED conversation_vars => ConversationTypeOK'
  /\ DeviceTypeOK /\ UNCHANGED device_vars => DeviceTypeOK'
  /\ EnvelopeTypeOK /\ UNCHANGED envelope_vars => EnvelopeTypeOK'
  /\ DeliveryTypeOK /\ UNCHANGED delivery_vars => DeliveryTypeOK'
  /\ WorkerTypeOK /\ UNCHANGED worker_vars => WorkerTypeOK'
  /\ GhostTypeOK /\ UNCHANGED ghost_vars => GhostTypeOK'
  /\ RequestMatches /\ UNCHANGED worker_vars => RequestMatches'
BY DEF ConversationTypeOK, conversation_vars, DeviceTypeOK, device_vars,
       EnvelopeTypeOK, envelope_vars, DeliveryTypeOK, delivery_vars,
       WorkerTypeOK, worker_vars, GhostTypeOK, ghost_vars, RequestMatches

(* The targets of SendEnvelope are accounts. *)
LEMMA ParticipantsType ==
  ASSUME ConversationTypeOK, NEW c \in Conversations
  PROVE  Participants(c) \subseteq Users
BY DEF ConversationTypeOK, Participants, GetSubscribers, GetMembers

----------------------------------------------------------------------------
(* Every step preserves the types, handler by handler. *)

(* The first step of every handler keeps the type invariant. *)
LEMMA BeginTypeInv ==
  ASSUME TypeInv, NEW w \in Workers, BeginRequest(w)
  PROVE  TypeInv'
<1> USE DEF TypeInv, TypeOK
<1>0. /\ crashes' = crashes /\ clock' = clock
      /\ GhostTypeOK'
  BY Frame DEF BeginRequest, SendBegin
<1>1. CASE SendBegin(w)
  <2>1. PICK r \in Requests :
          /\ r.op = "send"
          /\ Begin(w, r, IF ConvType[EnvConv[r.env]] = "channel"
                           THEN "policy" ELSE "duplicate")
    BY <1>1 DEF SendBegin
  <2>2. r \in SendRequest
    BY <2>1, RequestsAssumption DEF Request, SendRequest, AddRequest,
       RemoveRequest, SubscriptionRequest
  <2>3. PICK label \in {"policy", "duplicate"} : Begin(w, r, label)
    BY <2>1
  <2>4. label \in Labels /\ Fits(label, r)
    BY <2>2, <2>3 DEF Labels, Fits, SendLabels, LeaveLabels
  <2>5. WorkerTypeOK' /\ RequestMatches'
    BY <2>3, <2>4, BeginType, BeginMatches
  <2> QED
    BY <1>0, <1>1, <2>5, Frame DEF SendBegin
<1>2. ASSUME NEW op \in {"add", "remove"}, NEW label \in {"count", "remove"},
             ManageBegin(w, op, label), (op = "add") <=> (label = "count")
      PROVE  TypeInv'
  <2>1. PICK r \in Requests : r.op = op /\ Begin(w, r, label)
    BY <1>2 DEF ManageBegin
  <2>2. IF op = "add" THEN r \in AddRequest ELSE r \in RemoveRequest
    BY <2>1, <1>2, RequestsAssumption DEF Request, SendRequest, AddRequest,
       RemoveRequest, SubscriptionRequest
  <2>3. label \in Labels /\ Fits(label, r)
    BY <2>2, <1>2 DEF Labels, Fits, SendLabels, LeaveLabels
  <2>4. WorkerTypeOK' /\ RequestMatches'
    BY <2>1, <2>3, BeginType, BeginMatches
  <2> QED
    BY <1>0, <1>2, <2>4, Frame DEF ManageBegin
<1>3. CASE SubscribeChannelBegin(w) \/ UnsubscribeChannelBegin(w)
  <2>1. PICK r \in Requests, label \in {"subscribe", "unsubscribe"} :
          r.op = label /\ Begin(w, r, label)
    BY <1>3 DEF SubscribeChannelBegin, UnsubscribeChannelBegin
  <2>2. r \in SubscriptionRequest
    BY <2>1, RequestsAssumption DEF Request, SendRequest, AddRequest,
       RemoveRequest, SubscriptionRequest
  <2>3. label \in Labels /\ Fits(label, r)
    BY <2>2 DEF Labels, Fits, SendLabels, LeaveLabels
  <2>4. WorkerTypeOK' /\ RequestMatches'
    BY <2>1, <2>3, BeginType, BeginMatches
  <2> QED
    BY <1>0, <1>3, <2>4, Frame
       DEF SubscribeChannelBegin, UnsubscribeChannelBegin
<1> QED
  BY <1>1, <1>2, <1>3 DEF BeginRequest, AddMemberBegin, RemoveMemberBegin


\* The envelope a sending thread works on.
LEMMA EnvType ==
  ASSUME TypeInv, NEW w \in Workers, pc[w] \in SendLabels
  PROVE  Env(w) \in Envelopes /\ Conv(w) \in Conversations
<1>1. req[w] \in SendRequest
  BY DEF TypeInv, RequestMatches, Fits
<1> QED
  BY <1>1, TypesAssumption, OwnerAssumption DEF SendRequest, Env, Conv

(* The steps of SendEnvelope keep the type invariant. *)
LEMMA SendTypeInv ==
  ASSUME TypeInv, NEW w \in Workers, SendStep(w), UNCHANGED crashes
  PROVE  TypeInv'
<1> USE DEF TypeInv, TypeOK
<1>w. pc[w] \in SendLabels /\ WorkerTypeOK /\ RequestMatches
  BY DEF SendStep, SendPolicy, SendDuplicate, SendStore, SendTargets,
         FanOutUser, FanOutEnqueue, FanOutOffline, SendDone, FanOutDone,
         SendLabels
<1>e. Env(w) \in Envelopes /\ Conv(w) \in Conversations
  BY <1>w, EnvType
<1>f. \A label \in SendLabels : label \in Labels /\ Fits(label, req[w])
  BY <1>w DEF RequestMatches, Fits, SendLabels, LeaveLabels, Labels
<1>1. CASE SendPolicy(w) /\ UNCHANGED ghost_vars
  <2>1. Continue(w, "duplicate") \/ Finish(w)
    BY <1>1 DEF SendPolicy
  <2>2. WorkerTypeOK' /\ RequestMatches'
    BY <2>1, <1>w, <1>f, ContinueType, FinishType, GotoMatches, FinishMatches
       DEF Continue, SendLabels
  <2> QED
    BY <1>1, <2>2, Frame DEF SendPolicy
<1>2. CASE SendDuplicate(w) /\ UNCHANGED ghost_vars
  <2>1. CASE Finish(w)
    BY <1>2, <2>1, FinishType, FinishMatches, Frame DEF SendDuplicate
  <2>2. CASE /\ Goto(w, "store")
             /\ ts' = [ts EXCEPT ![w] = clock]
             /\ UNCHANGED <<req, targets, devs, offline>>
    <3>1. WorkerTypeOK'
      BY <2>2 DEF WorkerTypeOK, Goto, Labels
    <3>2. RequestMatches'
      BY <2>2, <1>w, <1>f, GotoMatches DEF SendLabels
    <3> QED
      BY <1>2, <3>1, <3>2, Frame DEF SendDuplicate
  <2> QED
    BY <1>2, <2>1, <2>2 DEF SendDuplicate
<1>3. CASE SendStore(w) /\ RecordStore(w)
  <2>1. GhostTypeOK'
    <3>1. Participants(EnvConv[Env(w)]) \subseteq Users
      BY <1>e, ParticipantsType, TypesAssumption, OwnerAssumption
    <3>2. CASE UNCHANGED ghost_vars
      BY <3>2, Frame
    <3>3. CASE ~ UNCHANGED ghost_vars
      BY <1>3, <3>1, <3>3, <1>e, SMT DEF RecordStore, GhostTypeOK
    <3> QED
      BY <3>2, <3>3
  <2>2. CASE StoreEnvelope(Env(w), ts[w]) /\ Continue(w, "targets")
    <3>1. ts[w] \in Nat
      BY DEF WorkerTypeOK
    <3>2. EnvelopeTypeOK'
      BY <2>2, <3>1, <1>e, StoreEnvelopeType
    <3>3. WorkerTypeOK' /\ RequestMatches'
      BY <2>2, <1>w, <1>f, ContinueType, GotoMatches DEF Continue, SendLabels
    <3> QED
      BY <1>3, <2>1, <3>2, <3>3, Frame DEF SendStore
  <2>3. CASE Finish(w) /\ UNCHANGED envelope_vars
    BY <1>3, <2>1, <2>3, FinishType, FinishMatches, Frame DEF SendStore
  <2> QED
    BY <1>3, <2>2, <2>3 DEF SendStore
<1>4. CASE SendTargets(w) /\ UNCHANGED ghost_vars
  <2>1. WorkerTypeOK'
    BY <1>4, <1>e, ParticipantsType DEF SendTargets, WorkerTypeOK, Goto, Labels
  <2>2. RequestMatches'
    BY <1>4, <1>w, <1>f, GotoMatches DEF SendTargets, SendLabels
  <2> QED
    BY <1>4, <2>1, <2>2, Frame DEF SendTargets
<1>5. CASE FanOutUser(w) /\ UNCHANGED ghost_vars
  <2>1. WorkerTypeOK'
    BY <1>5 DEF FanOutUser, WorkerTypeOK, FanOutDevices, GetDevicesForUser,
                DevicesOf
  <2>2. RequestMatches'
    BY <1>5 DEF FanOutUser, RequestMatches
  <2> QED
    BY <1>5, <2>1, <2>2, Frame DEF FanOutUser
<1>6. CASE FanOutEnqueue(w) /\ UNCHANGED ghost_vars
  <2>1. PICK d \in devs[w] :
          /\ devs' = [devs EXCEPT ![w] = @ \ {d}]
          /\ \/ Enqueue(Env(w), d) /\ UNCHANGED offline
             \/ /\ offline' = [offline EXCEPT ![w] = {d}]
                /\ UNCHANGED delivery_vars
    BY <1>6 DEF FanOutEnqueue
  <2>2. d \in Devices
    BY DEF WorkerTypeOK
  <2>3. DeliveryTypeOK'
    BY <2>1, <2>2, <1>e, EnqueueType, Frame
  <2>4. WorkerTypeOK'
    BY <1>6, <2>1, <2>2, SMT DEF FanOutEnqueue, WorkerTypeOK
  <2>5. RequestMatches'
    BY <1>6 DEF FanOutEnqueue, RequestMatches
  <2> QED
    BY <1>6, <2>3, <2>4, <2>5, Frame DEF FanOutEnqueue
<1>7. CASE FanOutOffline(w) /\ UNCHANGED ghost_vars
  <2>1. PICK d \in offline[w] : AddDeliveryState(Env(w), d)
    BY <1>7 DEF FanOutOffline
  <2>2. EnvelopeTypeOK'
    BY <2>1, <1>e, AddDeliveryStateType DEF WorkerTypeOK
  <2>3. WorkerTypeOK' /\ RequestMatches'
    BY <1>7 DEF FanOutOffline, WorkerTypeOK, RequestMatches
  <2> QED
    BY <1>7, <2>2, <2>3, Frame DEF FanOutOffline
<1>8. CASE SendDone(w) /\ RecordDone(w)
  <2>1. GhostTypeOK'
    BY <1>8, <1>e DEF RecordDone, GhostTypeOK
  <2>2. WorkerTypeOK' /\ RequestMatches'
    BY <1>8, <1>w, FinishType, FinishMatches DEF SendDone
  <2> QED
    BY <1>8, <2>1, <2>2, Frame DEF SendDone
<1> QED
  BY <1>1, <1>2, <1>3, <1>4, <1>5, <1>6, <1>7, <1>8 DEF SendStep

(* The steps of AddMember and SubscribeChannel keep the type invariant. *)
LEMMA JoinTypeInv ==
  ASSUME TypeInv, NEW w \in Workers, JoinStep(w), UNCHANGED <<clock, crashes>>
  PROVE  TypeInv'
<1> USE DEF TypeInv, TypeOK
<1>1. CASE AddMemberCount(w) /\ UNCHANGED ghost_vars
  <2>1. Continue(w, "add") \/ Finish(w)
    BY <1>1 DEF AddMemberCount
  <2>2. "add" \in Labels /\ Fits("add", req[w])
    BY <1>1 DEF AddMemberCount, RequestMatches, Fits, SendLabels, LeaveLabels,
                Labels
  <2>3. WorkerTypeOK' /\ RequestMatches'
    BY <2>1, <2>2, ContinueType, FinishType, GotoMatches, FinishMatches
       DEF Continue
  <2> QED
    BY <1>1, <2>3, Frame DEF AddMemberCount
<1>2. CASE /\ AddMemberStore(w) \/ SubscribeChannelStore(w)
           /\ RecordJoin(req[w].conv, {req[w].user} \cap users)
  <2>1. /\ req[w].conv \in Conversations
        /\ req[w].user \in Users
        /\ pc[w] = "add" => req[w].role \in MemberRole
    BY <1>2 DEF AddMemberStore, SubscribeChannelStore, RequestMatches, Fits,
                AddRequest, SubscriptionRequest
  <2>2. ConversationTypeOK'
    BY <1>2, <2>1, AddMemberType, SubscriptionType, Frame
       DEF AddMemberStore, SubscribeChannelStore
  <2>3. GhostTypeOK'
    BY <1>2, <2>1 DEF RecordJoin, GhostTypeOK
  <2>4. WorkerTypeOK' /\ RequestMatches'
    BY <1>2, FinishType, FinishMatches
       DEF AddMemberStore, SubscribeChannelStore
  <2> QED
    BY <1>2, <2>2, <2>3, <2>4, Frame DEF AddMemberStore, SubscribeChannelStore
<1> QED
  BY <1>1, <1>2 DEF JoinStep

(* The steps of RemoveMember, UnsubscribeChannel and their purge keep it. *)
LEMMA LeaveTypeInv ==
  ASSUME TypeInv, NEW w \in Workers, LeaveStep(w), UNCHANGED <<clock, crashes>>
  PROVE  TypeInv'
<1> USE DEF TypeInv, TypeOK
<1>w. pc[w] \in LeaveLabels
  BY DEF LeaveStep, RemoveMemberStore, UnsubscribeChannelStore, PurgeRows,
         PurgeDevices, PurgeQueue, PurgeDone, LeaveLabels
<1>r. req[w].conv \in Conversations /\ req[w].user \in Users
  BY <1>w DEF RequestMatches, Fits, RemoveRequest, SubscriptionRequest
<1>f. \A label \in LeaveLabels : label \in Labels /\ Fits(label, req[w])
  BY <1>w DEF RequestMatches, Fits, SendLabels, LeaveLabels, Labels
<1>1. CASE /\ RemoveMemberStore(w) \/ UnsubscribeChannelStore(w)
           /\ RecordLeave(OfConversation(req[w].conv), DevicesOf(req[w].user),
                          {req[w].user})
           /\ UNCHANGED barred
  <2>1. ConversationTypeOK'
    BY <1>1, <1>r, RemoveMemberType, SubscriptionType
       DEF RemoveMemberStore, UnsubscribeChannelStore
  <2>2. GhostTypeOK'
    BY <1>1, <1>r DEF RecordLeave, GhostTypeOK
  <2>3. Continue(w, "purge_rows")
    BY <1>1 DEF RemoveMemberStore, UnsubscribeChannelStore
  <2>4. WorkerTypeOK' /\ RequestMatches'
    BY <2>3, <1>f, ContinueType, GotoMatches DEF Continue, LeaveLabels
  <2> QED
    BY <1>1, <2>1, <2>2, <2>4, Frame
       DEF RemoveMemberStore, UnsubscribeChannelStore
<1>2. CASE PurgeRows(w) /\ RecordPurge(w)
  <2>1. EnvelopeTypeOK'
    BY <1>2 DEF PurgeRows, DeletePendingDeliveryForUserInConversation,
                DropRows, EnvelopeTypeOK
  <2>2. WorkerTypeOK' /\ RequestMatches'
    BY <1>2, <1>f, ContinueType, GotoMatches
       DEF PurgeRows, Continue, LeaveLabels
  <2>3. GhostTypeOK'
    BY <1>2 DEF RecordPurge, GhostTypeOK
  <2> QED
    BY <1>2, <2>1, <2>2, <2>3, Frame DEF PurgeRows
<1>3. CASE PurgeDevices(w) /\ UNCHANGED ghost_vars
  <2>1. WorkerTypeOK'
    BY <1>3 DEF PurgeDevices, WorkerTypeOK, Goto, Labels, GetDevicesForUser,
                DevicesOf
  <2>2. RequestMatches'
    BY <1>3, <1>f, GotoMatches DEF PurgeDevices, LeaveLabels
  <2> QED
    BY <1>3, <2>1, <2>2, Frame DEF PurgeDevices
<1>4. CASE PurgeQueue(w) /\ UNCHANGED ghost_vars
  <2>1. PICK d \in devs[w] :
          /\ devs' = [devs EXCEPT ![w] = @ \ {d}]
          /\ PurgeConversationFromDeviceQueue(req[w].conv, d)
    BY <1>4 DEF PurgeQueue
  <2>2. DeliveryTypeOK'
    BY <2>1, PurgeType DEF WorkerTypeOK
  <2>3. WorkerTypeOK' /\ RequestMatches'
    BY <1>4, <2>1 DEF PurgeQueue, WorkerTypeOK, RequestMatches
  <2> QED
    BY <1>4, <2>2, <2>3, Frame DEF PurgeQueue
<1>5. CASE PurgeDone(w) /\ UNCHANGED ghost_vars
  BY <1>5, FinishType, FinishMatches, Frame DEF PurgeDone
<1> QED
  BY <1>1, <1>2, <1>3, <1>4, <1>5 DEF LeaveStep

(* The handlers of one store call and the maintenance task keep it. *)
LEMMA SingleCallTypeInv ==
  ASSUME TypeInv,
         \/ \E e \in Envelopes, d \in Devices : Acknowledge(e, d)
         \/ \E d \in Devices : DeviceJoins(d) \/ DeviceRevoked(d)
         \/ \E u \in Users : DeleteUser(u)
         \/ MaintenancePurge
  PROVE  TypeInv'
<1> USE DEF TypeInv, TypeOK
<1>1. ASSUME NEW e \in Envelopes, NEW d \in Devices, Acknowledge(e, d)
      PROVE  TypeInv'
  <2>1. EnvelopeTypeOK'
    BY <1>1 DEF Acknowledge, MarkAcked, EnvelopeTypeOK
  <2> QED
    BY <1>1, <2>1, Frame DEF Acknowledge
<1>2. ASSUME NEW d \in Devices, DeviceJoins(d)
      PROVE  TypeInv'
  <2>1. DeviceTypeOK'
    BY <1>2 DEF DeviceJoins, RegisterDevice, RegisterAllowed, DeviceTypeOK
  <2> QED
    BY <1>2, <2>1, Frame DEF DeviceJoins
<1>3. ASSUME NEW d \in Devices, DeviceRevoked(d)
      PROVE  TypeInv'
  <2>1. DeviceTypeOK' /\ GhostTypeOK'
    BY <1>3 DEF DeviceRevoked, RevokeDevice, DeviceTypeOK, RecordLeave,
                RecordRevoke, GhostTypeOK
  <2> QED
    BY <1>3, <2>1, Frame DEF DeviceRevoked
<1>4. ASSUME NEW u \in Users, DeleteUser(u)
      PROVE  TypeInv'
  <2>1. ConversationTypeOK'
    BY <1>4 DEF DeleteUser, ConversationTypeOK
  <2>2. DeviceTypeOK'
    BY <1>4 DEF DeleteUser, DeviceTypeOK
  <2>3. EnvelopeTypeOK' /\ GhostTypeOK'
    BY <1>4 DEF DeleteUser, DropRows, EnvelopeTypeOK, RecordLeave, GhostTypeOK
  <2> QED
    BY <1>4, <2>1, <2>2, <2>3, Frame DEF DeleteUser
<1>5. CASE MaintenancePurge
  <2>1. EnvelopeTypeOK'
    BY <1>5 DEF MaintenancePurge, DeleteExpired, DropRows, EnvelopeTypeOK
  <2> QED
    BY <1>5, <2>1, Frame DEF MaintenancePurge
<1> QED
  BY <1>1, <1>2, <1>3, <1>4, <1>5

(* WebSocket sessions, the clock and crashes keep the type invariant. *)
LEMMA EnvironmentTypeInv ==
  ASSUME TypeInv,
         \/ \E d \in Devices : WsConnect(d) \/ WsDisconnect(d)
         \/ Tick
         \/ Crash
  PROVE  TypeInv'
<1> USE DEF TypeInv, TypeOK
<1>1. ASSUME NEW d \in Devices, WsConnect(d) \/ WsDisconnect(d)
      PROVE  TypeInv'
  <2>1. DeliveryTypeOK'
    BY <1>1 DEF WsConnect, WsDisconnect, DeliveryTypeOK
  <2> QED
    BY <1>1, <2>1, Frame DEF WsConnect, WsDisconnect, store_vars
<1>2. CASE Tick
  BY <1>2, Frame, SMT DEF Tick, store_vars
<1>3. CASE Crash
  <2>1. DeliveryTypeOK'
    BY <1>3, EmptySeq DEF Crash, DeliveryTypeOK
  <2>2. WorkerTypeOK'
    BY <1>3 DEF Crash, WorkerTypeOK, Labels
  <2>3. RequestMatches'
    BY <1>3 DEF Crash, RequestMatches, Fits, SendLabels, LeaveLabels
  <2>4. excused' \in [Envelopes -> SUBSET Users]
    <3>1. ASSUME NEW e \in Envelopes
          PROVE  excused[e] \cup {Owner[d] : d \in {x \in Devices : Queued(e, x)}} \subseteq Users
      BY OwnerAssumption DEF GhostTypeOK
    <3> QED
      BY <1>3, <3>1 DEF Crash, RecordCrash
  <2>5. GhostTypeOK'
    BY <1>3, <2>4 DEF Crash, RecordCrash, GhostTypeOK
  <2> QED
    BY <1>3, <2>1, <2>2, <2>3, <2>5, Frame, SMT DEF Crash, store_vars
<1> QED
  BY <1>1, <1>2, <1>3

(* The type invariant holds when the server starts. *)
LEMMA InitTypeInv == Init => TypeInv
<1> SUFFICES ASSUME Init PROVE TypeInv
  OBVIOUS
<1> USE DEF Init
<1>1. ConversationTypeOK
  <2>1. \A c \in Conversations : Cardinality(InitMembers[c]) \in Nat
    BY RelayAssumption, FS_Subset, FS_CardinalityType
  <2> QED
    BY <2>1, RelayAssumption, SMT DEF ConversationTypeOK, MemberRole
<1>2. DeviceTypeOK /\ EnvelopeTypeOK
  BY DEF DeviceTypeOK, EnvelopeTypeOK
<1>3. DeliveryTypeOK
  BY EmptySeq DEF DeliveryTypeOK
<1>4. WorkerTypeOK
  BY DEF WorkerInit, WorkerTypeOK, Labels
<1>5. RequestMatches
  BY DEF WorkerInit, RequestMatches, Fits, SendLabels, LeaveLabels
<1>6. GhostTypeOK
  BY DEF GhostTypeOK
<1> QED
  BY <1>1, <1>2, <1>3, <1>4, <1>5, <1>6 DEF TypeInv, TypeOK

(* Every step keeps the type invariant. *)
LEMMA NextTypeInv == TypeInv /\ [Next]_vars => TypeInv'
<1> SUFFICES ASSUME TypeInv, [Next]_vars PROVE TypeInv'
  OBVIOUS
<1>1. CASE UNCHANGED vars
  BY <1>1, Frame DEF vars, store_vars, TypeInv, TypeOK
<1>2. ASSUME NEW w \in Workers, WorkerStep(w)
      PROVE  TypeInv'
  BY <1>2, SendTypeInv, JoinTypeInv, LeaveTypeInv DEF WorkerStep
<1> QED
  BY <1>1, <1>2, BeginTypeInv, SingleCallTypeInv, EnvironmentTypeInv DEF Next

\* Every table, queue, handler local and counter keeps its type, whatever the
\* handlers, clients and crashes do.
THEOREM TypeCorrect == Spec => []TypeOK
<1>1. TypeInv => TypeOK
  BY DEF TypeInv
<1> QED
  BY <1>1, InitTypeInv, NextTypeInv, PTL DEF Spec

----------------------------------------------------------------------------
(* The membership handlers. *)

\* Threads between the count of AddMember and its insert.
Adding(c) == {w \in Workers : pc[w] = "add" /\ req[w].conv = c}

\* A thread that has passed the count has reserved nothing, so the members and
\* the threads about to insert are bounded only together.
Room(c) ==
  Cardinality(GetMembers(c)) + Cardinality(Adding(c))
    <= MaxGroup + Cardinality(Workers) - 1

GroupRoom == \A c \in Conversations : ConvType[c] = "group" => Room(c)

\* A step that brings no thread to the insert.
NoneAdding == \A c \in Conversations : Adding(c)' \subseteq Adding(c)

----------------------------------------------------------------------------
(* Which steps matter. *)

(* A thread that goes anywhere but to the insert brings no thread there. *)
LEMMA GotoQuiet ==
  ASSUME WorkerTypeOK, NEW w \in Workers, NEW label, label # "add",
         Goto(w, label), \A v \in Workers \ {w} : req'[v] = req[v]
  PROVE  NoneAdding
BY DEF WorkerTypeOK, Goto, NoneAdding, Adding

(* The return of a handler, and its way to a call other than the insert. *)
LEMMA MoveQuiet ==
  ASSUME WorkerTypeOK, NEW w \in Workers, NEW label, label # "add"
  PROVE  /\ Finish(w) => NoneAdding
         /\ Continue(w, label) => NoneAdding
         /\ \A r : Begin(w, r, label) => NoneAdding
<1>1. ASSUME Finish(w) PROVE NoneAdding
  <2>1. Goto(w, "idle") /\ \A v \in Workers \ {w} : req'[v] = req[v]
    BY <1>1 DEF Finish, WorkerTypeOK
  <2> QED
    BY <2>1, GotoQuiet
<1>2. ASSUME Continue(w, label) PROVE NoneAdding
  BY <1>2, GotoQuiet DEF Continue
<1>3. ASSUME NEW r, Begin(w, r, label) PROVE NoneAdding
  <2>1. Goto(w, label) /\ \A v \in Workers \ {w} : req'[v] = req[v]
    BY <1>3 DEF Begin, WorkerTypeOK
  <2> QED
    BY <2>1, GotoQuiet
<1> QED
  BY <1>1, <1>2, <1>3

(* Threads that stand still bring nobody to the insert. *)
LEMMA StillQuiet == UNCHANGED <<pc, req>> => NoneAdding
BY DEF NoneAdding, Adding

\* Steps of the relay that write neither of the two membership tables.
Aside == UNCHANGED conversation_vars /\ NoneAdding

(* Taking a request from the pool writes nothing. *)
LEMMA BeginAside ==
  ASSUME TypeInv, NEW w \in Workers, BeginRequest(w)
  PROVE  Aside
<1>1. WorkerTypeOK
  BY DEF TypeInv, TypeOK
<1>2. /\ UNCHANGED conversation_vars
      /\ \E r : \E label \in {"policy", "duplicate", "count", "remove",
                              "subscribe", "unsubscribe"} : Begin(w, r, label)
  BY DEF BeginRequest, SendBegin, AddMemberBegin, RemoveMemberBegin,
         ManageBegin, SubscribeChannelBegin, UnsubscribeChannelBegin
<1> QED
  BY <1>1, <1>2, MoveQuiet DEF Aside

(* SendEnvelope and its fan-out touch no membership table. *)
LEMMA SendAside ==
  ASSUME TypeInv, NEW w \in Workers, SendStep(w)
  PROVE  Aside
<1>1. WorkerTypeOK
  BY DEF TypeInv, TypeOK
<1>2. UNCHANGED conversation_vars
  BY DEF SendStep, SendPolicy, SendDuplicate, SendStore, SendTargets,
         FanOutUser, FanOutEnqueue, FanOutOffline, SendDone
<1>3. \/ Finish(w)
      \/ Continue(w, "duplicate")
      \/ Continue(w, "targets")
      \/ Goto(w, "store") /\ UNCHANGED req
      \/ Goto(w, "fanout") /\ UNCHANGED req
      \/ UNCHANGED <<pc, req>>
  BY DEF SendStep, SendPolicy, SendDuplicate, SendStore, SendTargets,
         FanOutUser, FanOutEnqueue, FanOutOffline, SendDone
<1> QED
  BY <1>1, <1>2, <1>3, MoveQuiet, GotoQuiet, StillQuiet, SMT DEF Aside

(* The purge after a removal touches no membership table. *)
LEMMA PurgeAside ==
  ASSUME TypeInv, NEW w \in Workers,
         PurgeRows(w) \/ PurgeDevices(w) \/ PurgeQueue(w) \/ PurgeDone(w)
  PROVE  Aside
<1>1. WorkerTypeOK
  BY DEF TypeInv, TypeOK
<1>2. UNCHANGED conversation_vars
  BY DEF PurgeRows, PurgeDevices, PurgeQueue, PurgeDone
<1>3. \/ Finish(w)
      \/ Continue(w, "purge_devices")
      \/ Goto(w, "purge_queue") /\ UNCHANGED req
      \/ UNCHANGED <<pc, req>>
  BY DEF PurgeRows, PurgeDevices, PurgeQueue, PurgeDone
<1> QED
  BY <1>1, <1>2, <1>3, MoveQuiet, GotoQuiet, StillQuiet, SMT DEF Aside

(* Acknowledgements, devices, the maintenance task, sessions, time, crashes. *)
LEMMA OtherAside ==
  ASSUME \/ \E e \in Envelopes, d \in Devices : Acknowledge(e, d)
         \/ \E d \in Devices :
              \/ DeviceJoins(d) \/ DeviceRevoked(d)
              \/ WsConnect(d) \/ WsDisconnect(d)
         \/ MaintenancePurge \/ Tick \/ Crash
  PROVE  Aside
<1>1. CASE Crash
  BY <1>1 DEF Crash, store_vars, Aside, NoneAdding, Adding
<1>2. CASE ~ Crash
  <2>1. UNCHANGED <<conversation_vars, worker_vars>>
    BY <1>2 DEF Acknowledge, DeviceJoins, DeviceRevoked, WsConnect,
                WsDisconnect, MaintenancePurge, Tick, store_vars
  <2> QED
    BY <2>1, StillQuiet DEF worker_vars, Aside
<1> QED
  BY <1>1, <1>2

(* The calls that write a membership table, and the count before one. *)
LEMMA StepKinds ==
  ASSUME TypeInv, Next
  PROVE  \/ Aside
         \/ \E u \in Users : DeleteUser(u)
         \/ \E w \in Workers :
              \/ AddMemberCount(w)
              \/ AddMemberStore(w)
              \/ SubscribeChannelStore(w)
              \/ RemoveMemberStore(w)
              \/ UnsubscribeChannelStore(w)
<1>1. ASSUME NEW w \in Workers, WorkerStep(w)
      PROVE  \/ Aside
             \/ AddMemberCount(w) \/ AddMemberStore(w)
             \/ SubscribeChannelStore(w)
             \/ RemoveMemberStore(w) \/ UnsubscribeChannelStore(w)
  BY <1>1, SendAside, PurgeAside DEF WorkerStep, JoinStep, LeaveStep
<1> QED
  BY <1>1, BeginAside, OtherAside DEF Next

(* What the request of a thread at one of these calls looks like. *)
LEMMA WriterRequest ==
  ASSUME TypeInv, NEW w \in Workers,
         pc[w] \in {"add", "subscribe", "remove", "unsubscribe"}
  PROVE  /\ req[w].conv \in Conversations
         /\ req[w].user \in Users
         /\ pc[w] = "add" => req[w].role \in MemberRole
BY DEF TypeInv, RequestMatches, Fits, LeaveLabels, AddRequest, RemoveRequest,
       SubscriptionRequest
----------------------------------------------------------------------------
(* The version. *)

\* What VersionTracksMembership says of one step.
VersionStep ==
  \A c \in Conversations :
    /\ membership_version'[c] >= membership_version[c]
    /\ Participants(c)' # Participants(c) /\ users' = users
         => membership_version'[c] > membership_version[c]

(* A step that leaves the three tables alone changes nothing a client sees. *)
LEMMA AsideVersion ==
  ASSUME ConversationTypeOK, UNCHANGED conversation_vars
  PROVE  VersionStep
BY SMT DEF ConversationTypeOK, conversation_vars, VersionStep, Participants,
       GetSubscribers, GetMembers

(* A bump of k's version covers whatever happens to k's participants. *)
LEMMA BumpVersion ==
  ASSUME ConversationTypeOK, NEW k \in Conversations,
         BumpMembershipVersion(k),
         \A c \in Conversations \ {k} :
           /\ conversation_members'[c] = conversation_members[c]
           /\ channel_subscriptions'[c] = channel_subscriptions[c]
  PROVE  VersionStep
<1>1. \A c \in Conversations :
        /\ c = k => membership_version'[c] = membership_version[c] + 1
        /\ c # k => membership_version'[c] = membership_version[c]
        /\ membership_version[c] \in Nat
  BY DEF ConversationTypeOK, BumpMembershipVersion
<1>2. \A c \in Conversations \ {k} : Participants(c)' = Participants(c)
  BY DEF Participants, GetSubscribers, GetMembers
<1> QED
  BY <1>1, <1>2, SMT DEF VersionStep

(* An insert bumps the version, also when it only overwrites a role. *)
LEMMA JoinVersion ==
  ASSUME ConversationTypeOK, NEW k \in Conversations, NEW u \in Users,
         NEW role,
         AddMember(k, u, role) \/ Subscribe(k, u)
  PROVE  VersionStep
<1>1. CASE AddMember(k, u, role)
  BY <1>1, BumpVersion DEF ConversationTypeOK, AddMember
<1>2. CASE Subscribe(k, u)
  BY <1>2, BumpVersion DEF ConversationTypeOK, Subscribe
<1> QED
  BY <1>1, <1>2

(* A removal bumps it when there was something to remove. *)
LEMMA LeaveVersion ==
  ASSUME ConversationTypeOK, NEW k \in Conversations, NEW u \in Users,
         RemoveMember(k, u) \/ Unsubscribe(k, u)
  PROVE  VersionStep
<1>1. CASE RemoveMember(k, u)
  <2>1. CASE u \in GetMembers(k)
    BY <1>1, <2>1, BumpVersion DEF ConversationTypeOK, RemoveMember
  <2>2. CASE u \notin GetMembers(k)
    <3>1. conversation_members[k][u] = "none"
      BY <2>2 DEF GetMembers
    <3>2. UNCHANGED conversation_vars
      BY <1>1, <2>2, <3>1 DEF ConversationTypeOK, RemoveMember,
         conversation_vars
    <3> QED
      BY <3>2, AsideVersion
  <2> QED
    BY <2>1, <2>2
<1>2. CASE Unsubscribe(k, u)
  <2>1. CASE u \in channel_subscriptions[k]
    BY <1>2, <2>1, BumpVersion DEF ConversationTypeOK, Unsubscribe
  <2>2. CASE u \notin channel_subscriptions[k]
    <3>1. UNCHANGED conversation_vars
      BY <1>2, <2>2, SMT DEF ConversationTypeOK, Unsubscribe, conversation_vars
    <3> QED
      BY <3>1, AsideVersion
  <2> QED
    BY <2>1, <2>2
<1> QED
  BY <1>1, <1>2

(* No step of the relay changes the participants behind the version's back. *)
LEMMA StepVersion == TypeInv /\ [Next]_vars => VersionStep
<1> SUFFICES ASSUME TypeInv, [Next]_vars PROVE VersionStep
  OBVIOUS
<1>t. ConversationTypeOK
  BY DEF TypeInv, TypeOK
<1>1. CASE UNCHANGED vars
  BY <1>1, <1>t, AsideVersion DEF vars, store_vars
<1>2. CASE Aside
  BY <1>2, <1>t, AsideVersion DEF Aside
<1>3. ASSUME NEW u \in Users, DeleteUser(u)
      PROVE  VersionStep
  <2>1. users' # users
    BY <1>3 DEF DeleteUser
  <2>2. membership_version' = membership_version
    BY <1>3 DEF DeleteUser
  <2> QED
    BY <2>1, <2>2, <1>t, SMT DEF VersionStep, ConversationTypeOK
<1>4. ASSUME NEW w \in Workers,
             AddMemberStore(w) \/ SubscribeChannelStore(w)
      PROVE  VersionStep
  <2>1. req[w].conv \in Conversations /\ req[w].user \in Users
    BY <1>4, WriterRequest DEF AddMemberStore, SubscribeChannelStore
  <2> QED
    BY <1>4, <1>t, <2>1, AsideVersion, JoinVersion
       DEF AddMemberStore, SubscribeChannelStore
<1>5. ASSUME NEW w \in Workers,
             RemoveMemberStore(w) \/ UnsubscribeChannelStore(w)
      PROVE  VersionStep
  <2>1. req[w].conv \in Conversations /\ req[w].user \in Users
    BY <1>5, WriterRequest DEF RemoveMemberStore, UnsubscribeChannelStore
  <2> QED
    BY <1>5, <1>t, <2>1, LeaveVersion
       DEF RemoveMemberStore, UnsubscribeChannelStore
<1>6. ASSUME NEW w \in Workers, AddMemberCount(w)
      PROVE  VersionStep
  BY <1>6, <1>t, AsideVersion DEF AddMemberCount
<1> QED
  BY <1>1, <1>2, <1>3, <1>4, <1>5, <1>6, StepKinds

\* Clients watch membership_version to notice that the participants changed:
\* with any number of threads and crashes it never goes back, and every change
\* bumps it, except the deletion of an account.
THEOREM VersionTracks == Spec => VersionTracksMembership
<1>1. TypeInv /\ [Next]_vars
        => [\A c \in Conversations :
              /\ membership_version'[c] >= membership_version[c]
              /\ Participants(c)' # Participants(c) /\ users' = users
                   => membership_version'[c] > membership_version[c]]_vars
  BY StepVersion DEF VersionStep
<1> QED
  BY <1>1, InitTypeInv, NextTypeInv, PTL DEF Spec, VersionTracksMembership

----------------------------------------------------------------------------
(* The size of a group. *)

(* The sets that GroupRoom counts are finite. *)
LEMMA CountedFinite ==
  ASSUME IsFiniteSet(Workers), NEW c
  PROVE  /\ IsFiniteSet(GetMembers(c)) /\ IsFiniteSet(Adding(c))
         /\ Cardinality(GetMembers(c)) \in Nat
         /\ Cardinality(Adding(c)) \in Nat
         /\ Cardinality(Adding(c)) <= Cardinality(Workers)
         /\ Cardinality(Workers) \in Nat
<1>1. GetMembers(c) \in SUBSET Users /\ Adding(c) \in SUBSET Workers
  BY DEF GetMembers, Adding
<1> QED
  BY <1>1, RelayAssumption, FS_Subset, FS_CardinalityType

(* The same of the next state. *)
LEMMA CountedFiniteNext ==
  ASSUME IsFiniteSet(Workers), NEW c
  PROVE  /\ IsFiniteSet(GetMembers(c)') /\ IsFiniteSet(Adding(c)')
         /\ Cardinality(GetMembers(c)') \in Nat
         /\ Cardinality(Adding(c)') \in Nat
         /\ Cardinality(Adding(c)') <= Cardinality(Workers)
<1>1. GetMembers(c)' \in SUBSET Users /\ Adding(c)' \in SUBSET Workers
  BY DEF GetMembers, Adding
<1> QED
  BY <1>1, RelayAssumption, FS_Subset, FS_CardinalityType

(* A group that loses members and threads about to insert keeps its room. *)
LEMMA ShrinkRoom ==
  ASSUME IsFiniteSet(Workers), NEW c, Room(c),
         GetMembers(c)' \subseteq GetMembers(c),
         Adding(c)' \subseteq Adding(c)
  PROVE  Room(c)'
<1>1. /\ Cardinality(GetMembers(c)') <= Cardinality(GetMembers(c))
      /\ Cardinality(Adding(c)') <= Cardinality(Adding(c))
  BY CountedFinite, FS_Subset
<1> QED
  BY <1>1, CountedFinite, CountedFiniteNext, LimitsAssumption, SMT DEF Room

(* The insert takes the thread's own place. *)
LEMMA InsertRoom ==
  ASSUME IsFiniteSet(Workers), NEW c, Room(c),
         NEW u, GetMembers(c)' \subseteq GetMembers(c) \cup {u},
         NEW w, w \in Adding(c), Adding(c)' \subseteq Adding(c) \ {w}
  PROVE  Room(c)'
<1>1. /\ IsFiniteSet(GetMembers(c) \cup {u})
      /\ Cardinality(GetMembers(c) \cup {u}) <= Cardinality(GetMembers(c)) + 1
  <2>1. /\ IsFiniteSet(GetMembers(c))
        /\ Cardinality(GetMembers(c)) \in Nat
    BY CountedFinite
  <2>2. /\ IsFiniteSet(GetMembers(c) \cup {u})
        /\ \/ Cardinality(GetMembers(c) \cup {u}) = Cardinality(GetMembers(c))
           \/ Cardinality(GetMembers(c) \cup {u})
                = Cardinality(GetMembers(c)) + 1
    BY <2>1, FS_AddElement
  <2> QED
    BY <2>1, <2>2, SMT
<1>2. /\ IsFiniteSet(Adding(c) \ {w})
      /\ Cardinality(Adding(c) \ {w}) = Cardinality(Adding(c)) - 1
  BY CountedFinite, FS_RemoveElement
<1>3. /\ Cardinality(GetMembers(c)') <= Cardinality(GetMembers(c) \cup {u})
      /\ Cardinality(Adding(c)') <= Cardinality(Adding(c) \ {w})
  BY <1>1, <1>2, FS_Subset
<1>4. Cardinality(GetMembers(c) \cup {u}) \in Nat
  BY <1>1, FS_CardinalityType
<1> QED
  BY <1>1, <1>2, <1>3, <1>4, CountedFinite, CountedFiniteNext,
     LimitsAssumption, SMT DEF Room

(* A thread passes the count only below the limit, and all the others may     *)
(* already have passed it.                                                    *)
LEMMA CountRoom ==
  ASSUME IsFiniteSet(Workers), NEW c, GetMemberCount(c) < MaxGroup,
         GetMembers(c)' = GetMembers(c)
  PROVE  Room(c)'
<1>1. Cardinality(GetMembers(c)') < MaxGroup
  BY DEF GetMemberCount
<1> QED
  BY <1>1, CountedFinite, CountedFiniteNext, LimitsAssumption, SMT DEF Room

(* The count and the insert of AddMember, on any thread. *)
LEMMA AddRoom ==
  ASSUME TypeInv, IsFiniteSet(Workers), NEW w \in Workers,
         AddMemberCount(w) \/ AddMemberStore(w),
         NEW c \in Conversations, Room(c)
  PROVE  Room(c)'
<1>t. WorkerTypeOK /\ ConversationTypeOK
  BY DEF TypeInv, TypeOK
<1>1. CASE AddMemberCount(w)
  <2>1. GetMembers(c)' = GetMembers(c)
    BY <1>1 DEF AddMemberCount, conversation_vars, GetMembers
  <2>2. CASE Finish(w)
    BY <1>t, <2>1, <2>2, MoveQuiet, ShrinkRoom, SMT DEF NoneAdding
  <2>3. CASE Continue(w, "add") /\ GetMemberCount(req[w].conv) < MaxGroup
    <3>1. CASE c = req[w].conv
      BY <2>1, <2>3, <3>1, CountRoom
    <3>2. CASE c # req[w].conv
      <4>1. Adding(c)' \subseteq Adding(c)
        BY <1>t, <2>3, <3>2 DEF Continue, Goto, WorkerTypeOK, Adding
      <4> QED
        BY <2>1, <4>1, ShrinkRoom
    <3> QED
      BY <3>1, <3>2
  <2>4. GetMemberCount(req[w].conv) \in Nat
    BY CountedFinite DEF GetMemberCount
  <2> QED
    BY <1>1, <2>2, <2>3, <2>4, LimitsAssumption, SMT DEF AddMemberCount
<1>2. CASE AddMemberStore(w)
  <2>1. NoneAdding /\ Finish(w)
    BY <1>2, <1>t, MoveQuiet, SMT DEF AddMemberStore
  <2>2. CASE c = req[w].conv
    <3>1. w \in Adding(c) /\ w \notin Adding(c)'
      BY <1>2, <1>t, <2>1, <2>2 DEF AddMemberStore, Finish, Goto, Adding,
         WorkerTypeOK
    <3>2. GetMembers(c)' \subseteq GetMembers(c) \cup {req[w].user}
      BY <1>2, <1>t, <2>2, SMT DEF AddMemberStore, AddMember, conversation_vars,
         GetMembers, ConversationTypeOK
    <3> QED
      BY <2>1, <3>1, <3>2, InsertRoom DEF NoneAdding
  <2>3. CASE c # req[w].conv
    <3>1. GetMembers(c)' = GetMembers(c)
      BY <1>2, <1>t, <2>3 DEF AddMemberStore, AddMember, conversation_vars,
         GetMembers, ConversationTypeOK
    <3> QED
      BY <2>1, <3>1, ShrinkRoom DEF NoneAdding
  <2> QED
    BY <2>2, <2>3
<1> QED
  BY <1>1, <1>2

(* The other writers only take members away or touch the subscriptions. *)
LEMMA OthersShrink ==
  ASSUME TypeInv, NEW c \in Conversations,
         \/ Aside
         \/ \E u \in Users : DeleteUser(u)
         \/ \E w \in Workers :
              \/ SubscribeChannelStore(w)
              \/ RemoveMemberStore(w)
              \/ UnsubscribeChannelStore(w)
  PROVE  NoneAdding /\ GetMembers(c)' \subseteq GetMembers(c)
<1>t. WorkerTypeOK /\ ConversationTypeOK
  BY DEF TypeInv, TypeOK
<1>1. CASE Aside
  BY <1>1 DEF Aside, conversation_vars, GetMembers
<1>2. ASSUME NEW u \in Users, DeleteUser(u)
      PROVE  NoneAdding /\ GetMembers(c)' \subseteq GetMembers(c)
  <2>1. NoneAdding
    BY <1>2, StillQuiet DEF DeleteUser, worker_vars
  <2>2. conversation_members' =
          [k \in Conversations |-> [conversation_members[k] EXCEPT ![u] = "none"]]
    BY <1>2 DEF DeleteUser
  <2> QED
    BY <1>t, <2>1, <2>2 DEF ConversationTypeOK, GetMembers
<1>3. ASSUME NEW w \in Workers,
             SubscribeChannelStore(w) \/ UnsubscribeChannelStore(w)
      PROVE  NoneAdding /\ GetMembers(c)' \subseteq GetMembers(c)
  <2>1. Finish(w) \/ Continue(w, "purge_rows")
    BY <1>3 DEF SubscribeChannelStore, UnsubscribeChannelStore
  <2>2. conversation_members' = conversation_members
    BY <1>3 DEF SubscribeChannelStore, UnsubscribeChannelStore, Subscribe,
       Unsubscribe, conversation_vars
  <2> QED
    BY <1>t, <2>1, <2>2, MoveQuiet, SMT DEF GetMembers
<1>4. ASSUME NEW w \in Workers, RemoveMemberStore(w)
      PROVE  NoneAdding /\ GetMembers(c)' \subseteq GetMembers(c)
  <2>1. NoneAdding
    BY <1>4, <1>t, MoveQuiet DEF RemoveMemberStore
  <2>2. conversation_members' =
          [conversation_members EXCEPT ![req[w].conv][req[w].user] = "none"]
    BY <1>4 DEF RemoveMemberStore, RemoveMember
  <2> QED
    BY <1>t, <2>1, <2>2 DEF ConversationTypeOK, GetMembers
<1> QED
  BY <1>1, <1>2, <1>3, <1>4

(* Every step keeps every group's room. *)
LEMMA StepRoom ==
  ASSUME IsFiniteSet(Workers)
  PROVE  TypeInv /\ GroupRoom /\ [Next]_vars => GroupRoom'
<1> SUFFICES ASSUME TypeInv, GroupRoom, [Next]_vars,
                    NEW c \in Conversations, ConvType[c] = "group"
             PROVE  Room(c)'
  BY DEF GroupRoom
<1>r. Room(c)
  BY DEF GroupRoom
<1>1. CASE UNCHANGED vars
  <2>1. GetMembers(c)' = GetMembers(c) /\ Adding(c)' = Adding(c)
    BY <1>1 DEF vars, store_vars, conversation_vars, worker_vars, GetMembers,
       Adding
  <2> QED
    BY <1>r, <2>1, ShrinkRoom
<1>2. CASE Next
  <2>1. ASSUME NEW w \in Workers, AddMemberCount(w) \/ AddMemberStore(w)
        PROVE  Room(c)'
    BY <2>1, <1>r, AddRoom
  <2>2. CASE NoneAdding /\ GetMembers(c)' \subseteq GetMembers(c)
    BY <2>2, <1>r, ShrinkRoom DEF NoneAdding
  <2> QED
    BY <1>2, <2>1, <2>2, StepKinds, OthersShrink
<1> QED
  BY <1>1, <1>2

(* No thread is about to insert when the server starts. *)
LEMMA InitRoom ==
  ASSUME IsFiniteSet(Workers), Workers # {},
         \A c \in Conversations :
           ConvType[c] = "group" => Cardinality(InitMembers[c]) <= MaxGroup
  PROVE  Init => GroupRoom
<1> SUFFICES ASSUME Init, NEW c \in Conversations, ConvType[c] = "group"
             PROVE  Room(c)
  BY DEF GroupRoom
<1>1. Adding(c) = {}
  BY DEF Init, WorkerInit, Adding
<1>2. GetMembers(c) \subseteq InitMembers[c]
  BY RelayAssumption DEF Init, GetMembers
<1>3. IsFiniteSet(InitMembers[c])
  BY RelayAssumption, FS_Subset
<1>4. /\ Cardinality(GetMembers(c)) <= Cardinality(InitMembers[c])
      /\ Cardinality(InitMembers[c]) \in Nat
  BY <1>2, <1>3, FS_Subset, FS_CardinalityType
<1>5. Cardinality(Adding(c)) = 0 /\ Cardinality(Workers) >= 1
  BY <1>1, FS_EmptySet, FS_CardinalityType, SMT
<1> QED
  BY <1>4, <1>5, CountedFinite, LimitsAssumption, SMT DEF Room

\* AddMember counts and inserts in two calls, so a group can outgrow
\* max_group_size, but never by more than one member per other thread of the
\* pool, whatever the interleaving, the removals and the crashes.
THEOREM OvershootBounded ==
  ASSUME IsFiniteSet(Workers), Workers # {},
         \A c \in Conversations :
           ConvType[c] = "group" => Cardinality(InitMembers[c]) <= MaxGroup
  PROVE  Spec => []GroupOvershoot
<1>1. GroupRoom => GroupOvershoot
  <2> SUFFICES ASSUME GroupRoom, NEW c \in Conversations,
                      ConvType[c] = "group"
               PROVE  Cardinality(GetMembers(c))
                        <= MaxGroup + Cardinality(Workers) - 1
    BY DEF GroupOvershoot
  <2> QED
    BY CountedFinite, LimitsAssumption, SMT DEF GroupRoom, Room
<1>2. Init => GroupRoom
  BY InitRoom
<1>3. TypeInv /\ GroupRoom /\ [Next]_vars => GroupRoom'
  BY StepRoom
<1> QED
  BY <1>1, <1>2, <1>3, InitTypeInv, NextTypeInv, PTL DEF Spec
=============================================================================
