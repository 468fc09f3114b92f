------------------------ MODULE ConversationService ------------------------
(***************************************************************************)
(* lib/vox_relay/conversation_service: the membership operations, one      *)
(* action per call into the store or into a delivery queue.                *)
(***************************************************************************)
EXTENDS ConversationRepository, DeliveryManager, Dispatch

CONSTANTS
  MaxGroup,     \* max_group_size
  MaxChannel,   \* max_channel_size
  MaxVersion    \* bound on membership_version

ASSUME LimitsAssumption ==
  MaxGroup \in Nat /\ MaxChannel \in Nat /\ MaxVersion \in Nat

\* Every thread may bump the version once more before it is checked again.
VersionRoom(c) == membership_version[c] + Cardinality(Workers) <= MaxVersion

ActorCanManageMembers(c, actor) == HasAdminRole(c, actor)

\* The first checks of AddMember and RemoveMember: a group, and an actor who
\* may manage it.
ManageBegin(w, op, label) ==
  \E r \in Requests :
    /\ r.op = op
    /\ ConvType[r.conv] = "group"
    /\ ActorCanManageMembers(r.conv, r.actor)
    /\ VersionRoom(r.conv)
    /\ Begin(w, r, label)
    /\ UNCHANGED <<conversation_vars, device_vars, envelope_vars,
                   delivery_vars>>

AddMemberBegin(w) == ManageBegin(w, "add", "count")

AddMemberCount(w) ==
  /\ pc[w] = "count"
  /\ IF GetMemberCount(req[w].conv) >= MaxGroup
       THEN Finish(w)
       ELSE Continue(w, "add")
  /\ UNCHANGED <<conversation_vars, device_vars, envelope_vars,
                 delivery_vars>>

\* The upsert fails on the reference to users when the account is gone.
AddMemberStore(w) ==
  /\ pc[w] = "add"
  /\ IF req[w].user \in users
       THEN AddMember(req[w].conv, req[w].user, req[w].role)
       ELSE UNCHANGED conversation_vars
  /\ Finish(w)
  /\ UNCHANGED <<device_vars, envelope_vars, delivery_vars>>

RemoveMemberBegin(w) == ManageBegin(w, "remove", "remove")

RemoveMemberStore(w) ==
  /\ pc[w] = "remove"
  /\ RemoveMember(req[w].conv, req[w].user)
  /\ Continue(w, "purge_rows")
  /\ UNCHANGED <<device_vars, envelope_vars, delivery_vars>>

\* An existing subscriber is subscribed again whatever the channel's size.
SubscribeChannelBegin(w) ==
  \E r \in Requests :
    /\ r.op = "subscribe"
    /\ ConvType[r.conv] = "channel"
    /\ \/ r.user \in GetSubscribers(r.conv)
       \/ Cardinality(GetSubscribers(r.conv)) < MaxChannel
    /\ VersionRoom(r.conv)
    /\ Begin(w, r, "subscribe")
    /\ UNCHANGED <<conversation_vars, device_vars, envelope_vars,
                   delivery_vars>>

SubscribeChannelStore(w) ==
  /\ pc[w] = "subscribe"
  /\ IF req[w].user \in users
       THEN Subscribe(req[w].conv, req[w].user)
       ELSE UNCHANGED conversation_vars
  /\ Finish(w)
  /\ UNCHANGED <<device_vars, envelope_vars, delivery_vars>>

UnsubscribeChannelBegin(w) ==
  \E r \in Requests :
    /\ r.op = "unsubscribe"
    /\ ConvType[r.conv] = "channel"
    /\ ~ HasAdminRole(r.conv, r.user)
    /\ VersionRoom(r.conv)
    /\ Begin(w, r, "unsubscribe")
    /\ UNCHANGED <<conversation_vars, device_vars, envelope_vars,
                   delivery_vars>>

UnsubscribeChannelStore(w) ==
  /\ pc[w] = "unsubscribe"
  /\ Unsubscribe(req[w].conv, req[w].user)
  /\ Continue(w, "purge_rows")
  /\ UNCHANGED <<device_vars, envelope_vars, delivery_vars>>

----------------------------------------------------------------------------
(* PurgeMemberDelivery: the rows, then the queues of the devices listed. *)

PurgeRows(w) ==
  /\ pc[w] = "purge_rows"
  /\ DeletePendingDeliveryForUserInConversation(req[w].conv, req[w].user)
  /\ Continue(w, "purge_devices")
  /\ UNCHANGED <<conversation_vars, device_vars, delivery_vars>>

PurgeDevices(w) ==
  /\ pc[w] = "purge_devices"
  /\ Goto(w, "purge_queue")
  /\ devs' = [devs EXCEPT ![w] = GetDevicesForUser(req[w].user)]
  /\ UNCHANGED <<req, ts, targets, offline>>
  /\ UNCHANGED <<conversation_vars, device_vars, envelope_vars,
                 delivery_vars>>

PurgeQueue(w) ==
  /\ pc[w] = "purge_queue"
  /\ \E d \in devs[w] :
       /\ devs' = [devs EXCEPT ![w] = @ \ {d}]
       /\ PurgeConversationFromDeviceQueue(req[w].conv, d)
  /\ UNCHANGED <<pc, req, ts, targets, offline>>
  /\ UNCHANGED <<conversation_vars, device_vars, envelope_vars>>

PurgeDone(w) ==
  /\ pc[w] = "purge_queue"
  /\ devs[w] = {}
  /\ Finish(w)
  /\ UNCHANGED <<conversation_vars, device_vars, envelope_vars,
                 delivery_vars>>

\* A thread is between the removal of u from c and the end of its purge.
Purging(w, c, u) ==
  /\ pc[w] \in {"purge_rows", "purge_devices", "purge_queue"}
  /\ req[w].conv = c
  /\ req[w].user = u
=============================================================================
