------------------------------- MODULE Relay -------------------------------
(***************************************************************************)
(* Message relay as the server runs it: SendEnvelope, the membership       *)
(* operations, device registration and revocation, acknowledgement,        *)
(* account deletion and the maintenance purge, all on the storage_pool     *)
(* threads over one database, with WebSocket sessions coming and going and *)
(* process crashes that lose everything but the database.                  *)
(*                                                                         *)
(* The ghost variables record what the history of a run has promised; no   *)
(* action reads them.                                                      *)
(***************************************************************************)
EXTENDS RelayService, ConversationService

CONSTANTS
  InitMembers,   \* [Conversations -> SUBSET Users]: participants at creation
  InitDevices,   \* SUBSET Devices: devices registered at the start
  Revocable,     \* SUBSET Devices: devices a client may revoke
  Deletable,     \* SUBSET Users: accounts the administrator may delete
  WsDevices,     \* SUBSET Devices: devices that open a WebSocket
  MaxCrashes     \* bound on the number of crashes

ASSUME RelayAssumption ==
  /\ IsFiniteSet(Users)
  /\ InitMembers \in [Conversations -> SUBSET Users]
  /\ \A c \in Conversations : CreatedBy[c] \in InitMembers[c]
  /\ InitDevices \subseteq Devices
  /\ Revocable \subseteq Devices
  /\ Deletable \subseteq Users
  /\ WsDevices \subseteq Devices
  /\ MaxCrashes \in Nat

VARIABLES
  crashes,    \* number of crashes so far
  reached,    \* [Envelopes -> SUBSET Users]: participants at some moment
              \* since the envelope was first stored
  barred,     \* [Envelopes -> SUBSET Devices]: devices that were revoked when
              \* they had not been given the envelope and no fan-out had them
  steady,     \* [Envelopes -> SUBSET Devices]: receivers that stayed active
              \* and in the conversation since the envelope was stored
  excused,    \* [Envelopes -> SUBSET Users]: users whose earlier removal was
              \* still being purged when the envelope was stored, and those
              \* whose copy, or whose turn in the fan-out, a crash has lost
  overtaken,  \* [Envelopes -> SUBSET Users]: users who left while a fan-out
              \* that may have read them as participants was under way
  cut,        \* SUBSET (Conversations \X Users): removals whose delivery rows
              \* were left, because a crash came before the purge
  completed,  \* SUBSET Envelopes: sends answered with 200
  before      \* SUBSET (Envelopes \X Envelopes): answered before stored

ghost_vars == <<reached, barred, steady, excused, overtaken, cut, completed, before>>
store_vars == <<conversation_vars, device_vars, envelope_vars>>
vars == <<store_vars, delivery_vars, worker_vars, ghost_vars, clock, crashes>>

Init ==
  /\ conversation_members =
       [c \in Conversations |-> [u \in Users |->
          CASE u = CreatedBy[c] -> "owner"
            [] u \in InitMembers[c] \ {CreatedBy[c]} /\ ConvType[c] # "channel"
                 -> "member"
            [] OTHER -> "none"]]
  /\ channel_subscriptions =
       [c \in Conversations |->
          IF ConvType[c] = "channel" THEN InitMembers[c] ELSE {}]
  /\ membership_version =
       [c \in Conversations |-> Cardinality(InitMembers[c])
          + IF ConvType[c] = "channel" THEN 1 ELSE 0]
  /\ users = Users
  /\ devices =
       [d \in Devices |-> IF d \in InitDevices THEN "active" ELSE "absent"]
  /\ encrypted_envelopes = {}
  /\ server_timestamp = [e \in Envelopes |-> 0]
  /\ delivery_state = {}
  /\ acked = {}
  /\ pending = [d \in Devices |-> <<>>]
  /\ connected = {}
  /\ pushed = {}
  /\ WorkerInit
  /\ clock = 0
  /\ crashes = 0
  /\ reached = [e \in Envelopes |-> {}]
  /\ barred = [e \in Envelopes |-> {}]
  /\ steady = [e \in Envelopes |-> {}]
  /\ excused = [e \in Envelopes |-> {}]
  /\ overtaken = [e \in Envelopes |-> {}]
  /\ cut = {}
  /\ completed = {}
  /\ before = {}

----------------------------------------------------------------------------
(* What the ghosts record. *)

InFanOut(w, e) == pc[w] \in {"targets", "fanout"} /\ Env(w) = e

\* The fan-out of e has read d as a device to be given e.
Listed(w, e, d) ==
  pc[w] = "fanout" /\ Env(w) = e /\ d \in devs[w] \cup offline[w]

\* The envelope is in the device's queue or has a delivery row for it.
Held(e, d) == Queued(e, d) \/ <<e, d>> \in delivery_state

\* The envelope has been given to the device in some form.
Given(e, d) == Held(e, d) \/ <<e, d>> \in pushed

Live(e) == e \in encrypted_envelopes \/ \E w \in Workers : InFanOut(w, e)

RecordStore(w) ==
  LET e == Env(w)
      present == Participants(EnvConv[e])
  IN IF StoreAllowed(e)
       THEN /\ reached' = [reached EXCEPT ![e] = @ \cup present]
            /\ steady' = [steady EXCEPT ![e] =
                 {d \in Devices \ {EnvSender[e]} :
                    devices[d] = "active" /\ Owner[d] \in present}]
            /\ excused' = [excused EXCEPT ![e] =
                 {u \in Users : \E v \in Workers : Purging(v, EnvConv[e], u)}]
            /\ completed' = completed \ {e}
            /\ UNCHANGED <<barred, overtaken, cut>>
            /\ before' = before \cup (completed \X {e})
       ELSE UNCHANGED ghost_vars

\* After an expiry two threads may be sending e: the last one completes it.
RecordDone(w) ==
  /\ completed' = IF \E v \in Workers \ {w} : InFanOut(v, Env(w))
                    THEN completed ELSE completed \cup {Env(w)}
  /\ UNCHANGED <<reached, barred, steady, excused, overtaken, cut, before>>

RecordJoin(c, joined) ==
  /\ reached' = [e \in Envelopes |->
       IF EnvConv[e] = c /\ Live(e) THEN reached[e] \cup joined ELSE reached[e]]
  /\ UNCHANGED <<barred, steady, excused, overtaken, cut, completed, before>>

\* The devices D stop to be steady receivers of the envelopes E; U leaves.
RecordLeave(E, D, U) ==
  /\ steady' = [e \in Envelopes |->
                  IF e \in E THEN steady[e] \ D ELSE steady[e]]
  /\ overtaken' = [e \in Envelopes |->
                     IF e \in E /\ \E w \in Workers : pc[w] = "fanout" /\ Env(w) = e
                       THEN overtaken[e] \cup U
                       ELSE overtaken[e]]
  /\ UNCHANGED <<reached, excused, cut, completed, before>>

\* The revoked device is to be given nothing that it does not have, or that no
\* fan-out is about to give it.
RecordRevoke(d) ==
  barred' = [e \in Envelopes |->
               IF Given(e, d) \/ \E w \in Workers : Listed(w, e, d)
                 THEN barred[e] ELSE barred[e] \cup {d}]

\* The rows of the conversation are gone, whatever earlier purges left.
RecordPurge(w) ==
  /\ cut' = cut \ {<<req[w].conv, req[w].user>>}
  /\ UNCHANGED <<reached, barred, steady, excused, overtaken, completed, before>>

\* Queues and fan-outs are lost, and purges that had not reached their rows.
RecordCrash ==
  /\ excused' = [e \in Envelopes |->
       IF \E w \in Workers : InFanOut(w, e)
         THEN Users ELSE excused[e] \cup {Owner[d] : d \in {x \in Devices : Queued(e, x)}}]
  /\ cut' = cut \cup {x \in Conversations \X Users :
                        \E w \in Workers : pc[w] = "purge_rows" /\ Purging(w, x[1], x[2])}
  /\ UNCHANGED <<reached, barred, steady, overtaken, completed, before>>

OfConversation(c) == {e \in Envelopes : EnvConv[e] = c}

----------------------------------------------------------------------------
(* The handlers' steps. *)

SendStep(w) ==
  \/ SendPolicy(w) /\ UNCHANGED ghost_vars
  \/ SendDuplicate(w) /\ UNCHANGED ghost_vars
  \/ SendStore(w) /\ RecordStore(w)
  \/ SendTargets(w) /\ UNCHANGED ghost_vars
  \/ FanOutUser(w) /\ UNCHANGED ghost_vars
  \/ FanOutEnqueue(w) /\ UNCHANGED ghost_vars
  \/ FanOutOffline(w) /\ UNCHANGED ghost_vars
  \/ SendDone(w) /\ RecordDone(w)

JoinStep(w) ==
  \/ AddMemberCount(w) /\ UNCHANGED ghost_vars
  \/ /\ AddMemberStore(w) \/ SubscribeChannelStore(w)
     /\ RecordJoin(req[w].conv, {req[w].user} \cap users)

LeaveStep(w) ==
  \/ /\ RemoveMemberStore(w) \/ UnsubscribeChannelStore(w)
     /\ RecordLeave(OfConversation(req[w].conv), DevicesOf(req[w].user),
                    {req[w].user})
     /\ UNCHANGED barred
  \/ PurgeRows(w) /\ RecordPurge(w)
  \/ PurgeDevices(w) /\ UNCHANGED ghost_vars
  \/ PurgeQueue(w) /\ UNCHANGED ghost_vars
  \/ PurgeDone(w) /\ UNCHANGED ghost_vars

BeginRequest(w) ==
  /\ \/ SendBegin(w)
     \/ /\ \/ AddMemberBegin(w)
           \/ RemoveMemberBegin(w)
           \/ SubscribeChannelBegin(w)
           \/ UnsubscribeChannelBegin(w)
        /\ UNCHANGED clock
  /\ UNCHANGED <<ghost_vars, crashes>>

\* A thread goes on with the request it has begun.
WorkerStep(w) ==
  /\ SendStep(w) \/ ((JoinStep(w) \/ LeaveStep(w)) /\ UNCHANGED clock)
  /\ UNCHANGED crashes

----------------------------------------------------------------------------
(* Handlers that are one store call. *)

\* POST /v1/messages/ack.
Acknowledge(e, d) ==
  /\ SomeWorkerIdle
  /\ <<e, d>> \notin acked
  /\ MarkAcked(e, d)
  /\ UNCHANGED <<conversation_vars, device_vars, delivery_vars, worker_vars,
                 ghost_vars, clock, crashes>>

\* Register or Login with a device id the account did not have.
DeviceJoins(d) ==
  /\ SomeWorkerIdle
  /\ RegisterDevice(d)
  /\ UNCHANGED <<conversation_vars, envelope_vars, delivery_vars,
                 worker_vars, ghost_vars, clock, crashes>>

\* DELETE /v1/me/devices/<id>: the delivery queue of the device is left as it is.
DeviceRevoked(d) ==
  /\ SomeWorkerIdle
  /\ d \in Revocable
  /\ RevokeDevice(d)
  /\ RecordLeave(Envelopes, {d}, {})
  /\ RecordRevoke(d)
  /\ UNCHANGED <<conversation_vars, envelope_vars, delivery_vars,
                 worker_vars, clock, crashes>>

\* AdminService::DeleteUser, one transaction; the reference from
\* conversations.created_by rolls it back.  Queues are not touched and no
\* membership_version is bumped.
DeleteUser(u) ==
  /\ SomeWorkerIdle
  /\ u \in Deletable \cap users
  /\ \A c \in Conversations : CreatedBy[c] # u
  /\ DropRows({row \in delivery_state :
                 Owner[row[2]] = u \/ Owner[EnvSender[row[1]]] = u})
  /\ encrypted_envelopes' =
       {e \in encrypted_envelopes : Owner[EnvSender[e]] # u}
  /\ conversation_members' =
       [c \in Conversations |-> [conversation_members[c] EXCEPT ![u] = "none"]]
  /\ channel_subscriptions' =
       [c \in Conversations |-> channel_subscriptions[c] \ {u}]
  /\ users' = users \ {u}
  /\ devices' = [d \in Devices |->
                   IF Owner[d] = u THEN "absent" ELSE devices[d]]
  /\ RecordLeave(Envelopes, DevicesOf(u), {u})
  /\ UNCHANGED <<membership_version, server_timestamp, delivery_vars,
                 worker_vars, barred, clock, crashes>>

\* The maintenance task of bin/main.cpp.
MaintenancePurge ==
  /\ SomeWorkerIdle
  /\ Expired(clock) # {}
  /\ DeleteExpired(clock)
  /\ UNCHANGED <<conversation_vars, device_vars, delivery_vars, worker_vars,
                 ghost_vars, clock, crashes>>

----------------------------------------------------------------------------
(* The environment. *)

\* A session registers its sender when authenticated, removes it on close.  The
\* session of a revoked device may have been validated before.
WsConnect(d) ==
  /\ d \in WsDevices \ connected
  /\ DeviceFound(d)
  /\ connected' = connected \cup {d}
  /\ UNCHANGED <<store_vars, pending, pushed, worker_vars, ghost_vars, clock,
                 crashes>>

WsDisconnect(d) ==
  /\ d \in connected
  /\ connected' = connected \ {d}
  /\ UNCHANGED <<store_vars, pending, pushed, worker_vars, ghost_vars, clock,
                 crashes>>

Tick ==
  /\ clock < MaxClock
  /\ clock' = clock + 1
  /\ UNCHANGED <<store_vars, delivery_vars, worker_vars, ghost_vars, crashes>>

\* The database survives; queues, sessions and handlers do not.
Crash ==
  /\ crashes < MaxCrashes
  /\ crashes' = crashes + 1
  /\ pending' = [d \in Devices |-> <<>>]
  /\ connected' = {}
  /\ pc' = [w \in Workers |-> "idle"]
  /\ req' = [w \in Workers |-> NoRequest]
  /\ ts' = [w \in Workers |-> 0]
  /\ targets' = [w \in Workers |-> {}]
  /\ devs' = [w \in Workers |-> {}]
  /\ offline' = [w \in Workers |-> {}]
  /\ RecordCrash
  /\ UNCHANGED <<store_vars, pushed, clock>>

Next ==
  \/ \E w \in Workers : BeginRequest(w) \/ WorkerStep(w)
  \/ \E e \in Envelopes, d \in Devices : Acknowledge(e, d)
  \/ \E d \in Devices :
       \/ DeviceJoins(d) \/ DeviceRevoked(d)
       \/ WsConnect(d) \/ WsDisconnect(d)
  \/ \E u \in Users : DeleteUser(u)
  \/ MaintenancePurge
  \/ Tick
  \/ Crash

Spec == Init /\ [][Next]_vars

\* The pool's threads are never descheduled for good, and no call of a
\* handler blocks for ever: the mutexes are held for one call each.
FairSpec == Spec /\ \A w \in Workers : WF_vars(WorkerStep(w))

----------------------------------------------------------------------------
(* Properties. *)

GhostTypeOK ==
  /\ reached \in [Envelopes -> SUBSET Users]
  /\ barred \in [Envelopes -> SUBSET Devices]
  /\ steady \in [Envelopes -> SUBSET Devices]
  /\ excused \in [Envelopes -> SUBSET Users]
  /\ overtaken \in [Envelopes -> SUBSET Users]
  /\ cut \subseteq Conversations \X Users
  /\ completed \subseteq Envelopes
  /\ before \subseteq Envelopes \X Envelopes

\* Types of the tables, the queues, the handlers and the history.
TypeOK ==
  /\ ConversationTypeOK /\ DeviceTypeOK /\ EnvelopeTypeOK
  /\ DeliveryTypeOK /\ WorkerTypeOK /\ GhostTypeOK
  /\ clock \in Nat /\ crashes \in Nat

\* Fan-out reads the participants and their devices after the envelope is
\* stored, and never again.  Whatever joins, removals, crashes and retries
\* happen in between, an envelope is only given to devices of users who were
\* in the conversation at some moment since it was stored.
OnlyParticipants ==
  \A e \in Envelopes, d \in Devices : Given(e, d) => Owner[d] \in reached[e]

\* From its revocation on a device is given nothing it did not have, whenever
\* the revocation comes: before the envelope is stored, between the store and
\* the reading of the participants, or while the devices of others are served.
\* Only a fan-out that had already listed it goes on to queue for it, because
\* revoked_at is not looked at again.
RevokedGetsNothingNew ==
  \A e \in Envelopes, d \in Devices : Given(e, d) => d \notin barred[e]

\* The sending device is skipped by the fan-out even when its user is a
\* target like any other and the request is retried.
NoSelfDelivery == \A e \in Envelopes : ~ Given(e, EnvSender[e])

\* The foreign keys and primary key that AddDeliveryState, DeleteExpired and
\* DeleteUser rely on: a delivery row has its envelope and its device row,
\* and only rows that exist are acknowledged.
RowsRefer ==
  /\ acked \subseteq delivery_state
  /\ \A row \in delivery_state :
       /\ row[1] \in encrypted_envelopes
       /\ devices[row[2]] # "absent"
  /\ \A e \in encrypted_envelopes : devices[EnvSender[e]] # "absent"

\* Two threads that run the same request, or a retry that overlaps it, both
\* pass CheckDuplicate; the primary key lets one of them through.  As long as
\* no envelope expires a device is given each envelope once.
GivenOnce ==
  \A d \in Devices :
    /\ \A i, j \in DOMAIN pending[d] : pending[d][i] = pending[d][j] => i = j
    /\ \A e \in Envelopes : ~ (Queued(e, d) /\ <<e, d>> \in delivery_state)

\* Once a send is answered, every device that has been active and in the
\* conversation since the envelope was stored holds it, unless a removal of
\* its owner from before the store was still purging, or a crash has emptied the
\* queue it was in.  A copy that overflowed into a delivery row survives.
StillHeld ==
  \A e \in completed \cap encrypted_envelopes : \A d \in steady[e] :
    Owner[d] \notin excused[e] => Held(e, d)

\* A client that waits for the answer before it sends the next message gets
\* its order kept: an envelope answered before another one was stored is ahead
\* of it in every queue that has both, as long as no envelope expires.
SequentialOrder ==
  \A d \in Devices : \A i, j \in DOMAIN pending[d] :
    i < j => <<pending[d][j], pending[d][i]>> \notin before

\* A removal followed by PurgeMemberDelivery leaves the former member nothing:
\* once no purge is under way, a user outside the conversation holds only
\* envelopes whose fan-out had read the participants before the removal and was
\* still running.  A crash between the removal and the purge of the rows leaves
\* rows behind, but only until the removal is asked for again: RemoveMember
\* answers a removal that changes nothing like any other, and the purge follows.
RemovalPurges ==
  \A c \in Conversations, u \in users :
    (/\ ~ IsUserInConversation(c, u)
     /\ \A w \in Workers : ~ Purging(w, c, u)
     /\ <<c, u>> \notin cut)
      => \A e \in OfConversation(c), d \in DevicesOf(u) :
           Held(e, d) => u \in overtaken[e]

\* GET /v1/sync/pending lists every envelope the device holds and has neither
\* acknowledged nor been pushed.
PendingListed ==
  \A e \in completed : \A d \in steady[e] :
    (Held(e, d) /\ <<e, d>> \notin pushed \cup acked)
      => e \in GetPendingForDevice(d)

\* AddMember counts the members and inserts in two calls, so groups can
\* outgrow max_group_size, but by no more than one member per other thread.
GroupOvershoot ==
  \A c \in Conversations :
    ConvType[c] = "group" =>
      Cardinality(GetMembers(c)) <= MaxGroup + Cardinality(Workers) - 1

\* Clients watch membership_version to notice that the participants changed:
\* it never goes back, and every change bumps it, whichever of the four
\* handlers made it, except the deletion of an account.
VersionTracksMembership ==
  [][\A c \in Conversations :
       /\ membership_version'[c] >= membership_version[c]
       /\ Participants(c)' # Participants(c) /\ users' = users
            => membership_version'[c] > membership_version[c]]_vars

\* Every handler returns: the fan-out and purge loops visit each user and each
\* device once, whatever the other threads do to the tables meanwhile.
HandlersReturn == \A w \in Workers : pc[w] # "idle" ~> pc[w] = "idle"

\* An envelope that SendStore has stored reaches the queue or a delivery row of
\* every receiver that stays, unless it expires or a crash loses the fan-out.
StoredReaches ==
  \A e \in Envelopes, d \in Devices :
    (e \in encrypted_envelopes /\ d \in steady[e] /\ Owner[d] \notin excused[e])
      ~> \/ Held(e, d)
         \/ e \notin encrypted_envelopes
         \/ d \notin steady[e]
         \/ Owner[d] \in excused[e]
=============================================================================
