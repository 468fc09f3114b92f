------------------------------ MODULE Creation ------------------------------
(***************************************************************************)
(* POST /v1/conversations (CreateDm, CreateGroup, CreateChannel) next to   *)
(* the membership handlers, and the event that each of them sends at its   *)
(* end (NotifyConversationMembershipChanged).                              *)
(*                                                                         *)
(* A creation is a row in conversations followed by one store call for     *)
(* each participant; it stops at the first call that fails and undoes      *)
(* nothing.  Who is in already sees the conversation in GET                *)
(* /v1/conversations and can use it before the creation is answered.       *)
(***************************************************************************)
EXTENDS ConversationService

CONSTANTS
  InitUsers,       \* SUBSET Users: accounts that exist
  Deletable,       \* SUBSET Users: accounts the administrator may delete
  CreateRequests,  \* the creations clients ask for
  MaxCreations,    \* bound on creations
  MaxCrashes       \* bound on crashes

ASSUME CreateAssumption ==
  /\ IsFiniteSet(Users) /\ IsFiniteSet(Workers)
  /\ InitUsers \subseteq Users
  /\ \A r \in CreateRequests :
       /\ r.conv \in Conversations
       /\ ConvType[r.conv] = "dm" => r.peer \in Users
       /\ ConvType[r.conv] = "group" => r.members \subseteq Users
       /\ ConvType[r.conv] = "channel" =>
            r.admins \in Seq(Users) /\ r.subscribers \in Seq(Users)

VARIABLES
  conversations,   \* SUBSET Conversations: rows of conversations
  duty,            \* [Workers -> what a thread does besides the handlers of
                   \*  ConversationService: a creation or its event]
  announced,       \* [Conversations -> [Devices -> Nat]]: the highest version
                   \* in an event sent to the device
  crashes,
  creations,       \* number of creations begun
  created,         \* history, SUBSET Conversations: answered with 200
  wanted,          \* history, [Conversations -> SUBSET Users]
  left,            \* history, [Conversations -> SUBSET Users]: removed,
                   \* unsubscribed or deleted since
  regraded         \* history, SUBSET Conversations: AddMember has given the
                   \* creator another role

history_vars == <<creations, created, wanted, left, regraded>>
other_vars == <<envelope_vars, delivery_vars, crashes>>
creation_vars ==
  <<conversation_vars, device_vars, worker_vars, conversations, duty, announced,
    other_vars, history_vars>>

NoDuty == [do |-> "none"]

CreationInit ==
  /\ conversation_members = [c \in Conversations |-> [u \in Users |-> "none"]]
  /\ channel_subscriptions = [c \in Conversations |-> {}]
  /\ membership_version = [c \in Conversations |-> 0]
  /\ users = InitUsers
  /\ devices = [d \in Devices |-> IF Owner[d] \in InitUsers THEN "active" ELSE "absent"]
  /\ encrypted_envelopes = {}
  /\ server_timestamp = [e \in Envelopes |-> 0]
  /\ delivery_state = {}
  /\ acked = {}
  /\ pending = [d \in Devices |-> <<>>]
  /\ connected = Devices
  /\ pushed = {}
  /\ WorkerInit
  /\ conversations = {}
  /\ duty = [w \in Workers |-> NoDuty]
  /\ announced = [c \in Conversations |-> [d \in Devices |-> 0]]
  /\ crashes = 0
  /\ creations = 0
  /\ created = {}
  /\ wanted = [c \in Conversations |-> {}]
  /\ left = [c \in Conversations |-> {}]
  /\ regraded = {}

Free(w) == pc[w] = "idle" /\ duty[w] = NoDuty

----------------------------------------------------------------------------
(* The calls of a creation, in order.                                      *)

Member(u, role) == [table |-> "members", user |-> u, role |-> role]
Subscriber(u) == [table |-> "subscriptions", user |-> u]

RoleOf(c, u, other) == IF u = CreatedBy[c] THEN "owner" ELSE other

CreateDm(r) ==
  IF r.peer = CreatedBy[r.conv]
    THEN {<<Member(r.peer, "owner")>>}
    ELSE {<<Member(CreatedBy[r.conv], "owner"), Member(r.peer, "member")>>}

\* Mutant of CreateGroup: the size is not compared with max_group_size.
CreateGroupAnySize(r) ==
  IF Cardinality(r.members) >= 2 /\ CreatedBy[r.conv] \in r.members
    THEN {[i \in DOMAIN s |-> Member(s[i], RoleOf(r.conv, s[i], "member"))] :
            s \in Bijection(1..Cardinality(r.members), r.members)}
    ELSE {}

\* SortUnique orders the members by id, so the creator comes anywhere.
CreateGroup(r) ==
  IF /\ Cardinality(r.members) \in 2..MaxGroup
     /\ CreatedBy[r.conv] \in r.members
    THEN {[i \in DOMAIN s |-> Member(s[i], RoleOf(r.conv, s[i], "member"))] :
            s \in Bijection(1..Cardinality(r.members), r.members)}
    ELSE {}

\* Each admin is added and subscribed, in the order of the request.
AdminCalls(c, admins) ==
  [i \in 1..2 * Len(admins) |->
     LET u == admins[(i + 1) \div 2]
     IN IF i % 2 = 1 THEN Member(u, RoleOf(c, u, "admin")) ELSE Subscriber(u)]

\* The other subscribers follow, again in the order of the request.
CreateChannel(r) ==
  IF /\ CreatedBy[r.conv] \in Range(r.admins)
     /\ IsInjective(r.admins)
     /\ Cardinality(Range(r.admins) \cup Range(r.subscribers)) <= MaxChannel
    THEN {AdminCalls(r.conv, r.admins) \o [i \in DOMAIN s |-> Subscriber(s[i])] :
            s \in Selections(r.subscribers, Users \ Range(r.admins))}
    ELSE {}

Calls(r) ==
  CASE ConvType[r.conv] = "dm" -> CreateDm(r)
    [] ConvType[r.conv] = "group" -> CreateGroup(r)
    [] ConvType[r.conv] = "channel" -> CreateChannel(r)

Creating(c, calls) == [do |-> "create", conv |-> c, calls |-> calls]

\* CreateConversation fails on the reference to the creator's row.
CreateConversation(w) ==
  /\ Free(w)
  /\ creations < MaxCreations
  /\ \E r \in CreateRequests :
       /\ r.conv \notin conversations
       /\ CreatedBy[r.conv] \in users
       /\ conversations' = conversations \cup {r.conv}
       /\ \E calls \in Calls(r) :
            /\ duty' = [duty EXCEPT ![w] = Creating(r.conv, calls)]
            /\ wanted' = [wanted EXCEPT ![r.conv] = {calls[i].user : i \in DOMAIN calls}]
  /\ creations' = creations + 1
  /\ UNCHANGED <<conversation_vars, device_vars, worker_vars, announced,
                 other_vars, created, left, regraded>>

StoreCall(c, call) ==
  IF call.table = "members"
    THEN AddMember(c, call.user, call.role)
    ELSE Subscribe(c, call.user)

\* Mutant of CreateCall: a call that fails is passed over.
CreateCallOrSkip(w) ==
  /\ duty[w].do = "create"
  /\ duty[w].calls # <<>>
  /\ IF Head(duty[w].calls).user \in users
       THEN StoreCall(duty[w].conv, Head(duty[w].calls))
       ELSE UNCHANGED conversation_vars
  /\ duty' = [duty EXCEPT ![w] = Creating(duty[w].conv, Tail(duty[w].calls))]
  /\ UNCHANGED <<device_vars, worker_vars, conversations, announced, other_vars,
                 history_vars>>

\* A call fails on the reference to users; the creation is then answered with
\* the error, and no event is sent.
CreateCall(w) ==
  /\ duty[w].do = "create"
  /\ duty[w].calls # <<>>
  /\ IF Head(duty[w].calls).user \in users
       THEN /\ StoreCall(duty[w].conv, Head(duty[w].calls))
            /\ duty' = [duty EXCEPT ![w] = Creating(duty[w].conv, Tail(duty[w].calls))]
       ELSE /\ duty' = [duty EXCEPT ![w] = NoDuty]
            /\ UNCHANGED conversation_vars
  /\ UNCHANGED <<device_vars, worker_vars, conversations, announced, other_vars,
                 history_vars>>

Announce(c) == [do |-> "version", conv |-> c]

CreateDone(w) ==
  /\ duty[w].do = "create"
  /\ duty[w].calls = <<>>
  /\ duty' = [duty EXCEPT ![w] = Announce(duty[w].conv)]
  /\ created' = created \cup {duty[w].conv}
  /\ UNCHANGED <<conversation_vars, device_vars, worker_vars, conversations,
                 announced, other_vars, creations, wanted, left, regraded>>

----------------------------------------------------------------------------
(* The membership handlers; the event comes after their last call.         *)

\* FindById comes first in each of them.
HandlerBegin(w) ==
  /\ Free(w)
  /\ \/ AddMemberBegin(w) \/ RemoveMemberBegin(w)
     \/ SubscribeChannelBegin(w) \/ UnsubscribeChannelBegin(w)
  /\ req'[w].conv \in conversations
  /\ UNCHANGED <<conversations, duty, announced, crashes, history_vars>>

HandlerStep(w) ==
  /\ \/ AddMemberCount(w)
     \/ PurgeRows(w) \/ PurgeDevices(w) \/ PurgeQueue(w)
  /\ UNCHANGED <<conversations, duty, announced, crashes, history_vars>>

HandlerLeaves(w) ==
  /\ RemoveMemberStore(w) \/ UnsubscribeChannelStore(w)
  /\ left' = [left EXCEPT ![req[w].conv] = @ \cup {req[w].user}]
  /\ UNCHANGED <<conversations, duty, announced, crashes, creations, created, wanted,
                 regraded>>

HandlerDone(w) ==
  /\ AddMemberStore(w) \/ SubscribeChannelStore(w) \/ PurgeDone(w)
  /\ duty' = IF pc[w] = "purge_queue" \/ req[w].user \in users
               THEN [duty EXCEPT ![w] = Announce(req[w].conv)]
               ELSE duty
  /\ regraded' = IF pc[w] = "add" /\ req[w].user = CreatedBy[req[w].conv]
                   THEN regraded \cup {req[w].conv}
                   ELSE regraded
  /\ UNCHANGED <<conversations, announced, crashes, creations, created, wanted, left>>

----------------------------------------------------------------------------
(* NotifyConversationMembershipChanged.                                    *)

Duty(w, next) ==
  /\ duty' = [duty EXCEPT ![w] = next]
  /\ UNCHANGED <<conversation_vars, device_vars, worker_vars, conversations,
                 other_vars, history_vars>>

NotifyVersion(w) ==
  /\ duty[w].do = "version"
  /\ Duty(w, [do |-> "members", conv |-> duty[w].conv,
              version |-> membership_version[duty[w].conv]])
  /\ UNCHANGED announced

\* The event goes to the devices, then to those of the users, who come from the
\* list of members or from that of the subscribers not seen among the members.
Notifying(w, list, us, ds, seen) ==
  Duty(w, [do |-> "notify", conv |-> duty[w].conv, version |-> duty[w].version,
           list |-> list, users |-> us, devs |-> ds, seen |-> seen])

NotifyMembers(w) ==
  /\ duty[w].do = "members"
  /\ Notifying(w, "members", GetMembers(duty[w].conv), {}, GetMembers(duty[w].conv))
  /\ UNCHANGED announced

NotifyDevices(w) ==
  /\ duty[w].do = "notify"
  /\ duty[w].devs = {}
  /\ \E u \in duty[w].users :
       Notifying(w, duty[w].list, duty[w].users \ {u},
                 {d \in GetDevicesForUser(u) : devices[d] # "revoked"}, duty[w].seen)
  /\ UNCHANGED announced

NotifyDevice(w) ==
  /\ duty[w].do = "notify"
  /\ \E d \in duty[w].devs :
       /\ Notifying(w, duty[w].list, duty[w].users, duty[w].devs \ {d}, duty[w].seen)
       /\ announced' = IF d \in connected /\ announced[duty[w].conv][d] < duty[w].version
                         THEN [announced EXCEPT ![duty[w].conv][d] = duty[w].version]
                         ELSE announced

\* Mutant of NotifySubscribers: the members alone.
NotifyNoSubscribers(w) ==
  /\ duty[w].do = "notify"
  /\ duty[w].users = {} /\ duty[w].devs = {}
  /\ Duty(w, NoDuty)
  /\ UNCHANGED announced

\* A channel has subscribers besides; the others are done.
NotifySubscribers(w) ==
  /\ duty[w].do = "notify"
  /\ duty[w].users = {} /\ duty[w].devs = {}
  /\ IF duty[w].list = "members" /\ ConvType[duty[w].conv] = "channel"
       THEN Notifying(w, "subscribers", GetSubscribers(duty[w].conv) \ duty[w].seen, {},
                      duty[w].seen)
       ELSE Duty(w, NoDuty)
  /\ UNCHANGED announced

----------------------------------------------------------------------------
(* AdminService::DeleteUser, as far as conversations see it: no version is  *)
(* bumped and no event is sent.                                             *)
AccountDeleted(u) ==
  /\ \E w \in Workers : Free(w)
  /\ u \in Deletable \cap users
  /\ \A c \in conversations : CreatedBy[c] # u
  /\ conversation_members' =
       [c \in Conversations |-> [conversation_members[c] EXCEPT ![u] = "none"]]
  /\ channel_subscriptions' =
       [c \in Conversations |-> channel_subscriptions[c] \ {u}]
  /\ users' = users \ {u}
  /\ devices' = [d \in Devices |-> IF Owner[d] = u THEN "absent" ELSE devices[d]]
  /\ left' = [c \in Conversations |-> left[c] \cup {u}]
  /\ UNCHANGED <<membership_version, worker_vars, conversations, duty, announced,
                 other_vars, creations, created, wanted, regraded>>

CreationCrash ==
  /\ crashes < MaxCrashes
  /\ crashes' = crashes + 1
  /\ pc' = [w \in Workers |-> "idle"]
  /\ req' = [w \in Workers |-> NoRequest]
  /\ devs' = [w \in Workers |-> {}]
  /\ duty' = [w \in Workers |-> NoDuty]
  /\ UNCHANGED <<conversation_vars, device_vars, ts, targets, offline,
                 conversations, announced, envelope_vars, delivery_vars, history_vars>>

CreationNext ==
  \/ \E w \in Workers :
       \/ CreateConversation(w) \/ CreateCall(w) \/ CreateDone(w)
       \/ HandlerBegin(w) \/ HandlerStep(w) \/ HandlerLeaves(w) \/ HandlerDone(w)
       \/ NotifyVersion(w) \/ NotifyMembers(w) \/ NotifyDevices(w)
       \/ NotifyDevice(w) \/ NotifySubscribers(w)
  \/ \E u \in Users : AccountDeleted(u)
  \/ CreationCrash

CreationSpec == CreationInit /\ [][CreationNext]_creation_vars

----------------------------------------------------------------------------
\* Types of the tables, of the threads and of the history.
CreationTypeOK ==
  /\ ConversationTypeOK /\ DeviceTypeOK /\ WorkerTypeOK
  /\ conversations \cup created \cup regraded \subseteq Conversations
  /\ announced \in [Conversations -> [Devices -> Nat]]
  /\ wanted \in [Conversations -> SUBSET Users]
  /\ left \in [Conversations -> SUBSET Users]

\* A creation is answered with success only when every participant asked for
\* was added and nobody but those who have left since is missing.  The creator
\* is the owner until a handler removes the creator or adds the creator again
\* with another role, which nothing forbids.  So a conversation without an
\* owner comes only from that, or from a creation that failed, was cut off, or
\* still runs.
CreationWhole ==
  \A c \in created :
    /\ wanted[c] \ left[c] \subseteq Participants(c)
    /\ CreatedBy[c] \notin left[c] /\ c \notin regraded
         => conversation_members[c][CreatedBy[c]] = "owner"

\* CreateGroup compares the size of its request with max_group_size once, and
\* the owner can add members while the rest of the request is still to come: a
\* group never has more than the members of one full creation after its owner,
\* on top of what concurrent additions reach.
CreationOvershoot ==
  \A c \in Conversations :
    ConvType[c] = "group" =>
      GetMemberCount(c) <= MaxGroup + (MaxGroup - 1) + (Cardinality(Workers) - 2)

\* Events of concurrent handlers overtake each other, and each lists versions,
\* participants and devices in separate calls.  When all threads are idle, an
\* active device of a participant has been sent the current version, unless the
\* last change was by a creation that failed, or the process crashed.
NewestAnnounced ==
  (crashes = 0 /\ \A w \in Workers : Free(w)) =>
    \A c \in created, d \in Devices :
      (devices[d] = "active" /\ IsUserInConversation(c, Owner[d]))
        => announced[c][d] = membership_version[c]
=============================================================================
