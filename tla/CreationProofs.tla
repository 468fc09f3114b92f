--------------------------- MODULE CreationProofs ---------------------------
(***************************************************************************)
(* Creation of conversations next to the membership handlers: what is      *)
(* answered is whole, the newest version reaches every device, and the     *)
(* size of a group stays bounded, for any number of threads, users,        *)
(* devices, requests and crashes.                                          *)
(***************************************************************************)
EXTENDS Creation, FiniteSetTheorems, SequenceTheorems, TLAPS

\* The prover of every leaf that names none.
USE Zenon

Call ==
  [table : {"members"}, user : Users, role : MemberRole]
    \cup [table : {"subscriptions"}, user : Users]

\* Where the participants of c are looked up.
ParticipantTable(c) == IF ConvType[c] = "channel" THEN "subscriptions" ELSE "members"

\* A call for u in table t is among the calls.
Has(calls, t, u) ==
  \E i \in 1..Len(calls) : calls[i].table = t /\ calls[i].user = u

\* The calls are well formed and never give the creator another role.
Plan(c, calls) ==
  /\ calls \in Seq(Call)
  /\ \A i \in 1..Len(calls) :
       calls[i].table = "members" /\ calls[i].user = CreatedBy[c]
         => calls[i].role = "owner"

\* CreateDm adds the creator first, as owner.
LEMMA DmCalls ==
  ASSUME NEW r \in CreateRequests, ConvType[r.conv] = "dm", NEW calls \in CreateDm(r)
  PROVE  /\ Plan(r.conv, calls)
         /\ Has(calls, "members", CreatedBy[r.conv])
         /\ \A i \in DOMAIN calls : Has(calls, "members", calls[i].user)
<1>1. r.peer \in Users /\ CreatedBy[r.conv] \in Users
  BY CreateAssumption, TypesAssumption
<1> DEFINE a == Member(CreatedBy[r.conv], "owner")
           b == Member(r.peer, "member")
<1>2. /\ a \in Call /\ a.table = "members" /\ a.user = CreatedBy[r.conv] /\ a.role = "owner"
      /\ b \in Call /\ b.table = "members" /\ b.user = r.peer
  BY <1>1 DEF Call, Member, MemberRole
<1> HIDE DEF a, b
<1>3. CASE r.peer = CreatedBy[r.conv]
  <2>1. calls = <<a>>
    BY <1>3 DEF CreateDm, a
  <2>2. calls \in Seq(Call) /\ Len(calls) = 1 /\ DOMAIN calls = 1..1 /\ calls[1] = a
    BY <1>2, <2>1, SMT
  <2> QED
    BY <1>2, <2>2, SMT DEF Plan, Has
<1>4. CASE r.peer # CreatedBy[r.conv]
  <2>1. calls = <<a, b>>
    BY <1>4 DEF CreateDm, a, b
  <2>2. /\ calls \in Seq(Call) /\ Len(calls) = 2 /\ DOMAIN calls = 1..2
        /\ calls[1] = a /\ calls[2] = b
    BY <1>2, <2>1, SMT
  <2>3. 1 \in 1..2 /\ 2 \in 1..2 /\ \A i \in 1..2 : i = 1 \/ i = 2
    BY SMT
  <2>4. Plan(r.conv, calls)
    BY <1>2, <1>4, <2>2, <2>3 DEF Plan
  <2> QED
    BY <1>2, <2>2, <2>3, <2>4 DEF Has
<1> QED
  BY <1>3, <1>4

\* CreateGroup adds each member of the request once, the creator as owner.
LEMMA GroupCalls ==
  ASSUME NEW r \in CreateRequests, ConvType[r.conv] = "group", NEW calls \in CreateGroup(r)
  PROVE  /\ Plan(r.conv, calls)
         /\ Has(calls, "members", CreatedBy[r.conv])
         /\ \A i \in DOMAIN calls : Has(calls, "members", calls[i].user)
         /\ Len(calls) <= MaxGroup
<1> DEFINE n == Cardinality(r.members)
<1>1. r.members \subseteq Users /\ IsFiniteSet(r.members) /\ n \in Nat
  BY CreateAssumption, FS_Subset, FS_CardinalityType
<1>2. PICK s \in Bijection(1..n, r.members) :
        calls = [i \in DOMAIN s |-> Member(s[i], RoleOf(r.conv, s[i], "member"))]
  BY DEF CreateGroup
<1>3. n <= MaxGroup /\ CreatedBy[r.conv] \in r.members
  BY <1>1, LimitsAssumption, SMT DEF CreateGroup
<1>4. s \in [1..n -> r.members] /\ IsInjective(s)
  BY <1>2 DEF Bijection, Injection, IsInjective
<1>5. calls = [i \in 1..n |-> Member(s[i], RoleOf(r.conv, s[i], "member"))]
  BY <1>2, <1>4
<1>6. \A i \in 1..n : /\ calls[i].table = "members" /\ calls[i].user = s[i]
                      /\ calls[i].role = RoleOf(r.conv, s[i], "member")
                      /\ calls[i] \in Call
  BY <1>1, <1>4, <1>5 DEF Member, Call, RoleOf, MemberRole
<1>7. calls \in Seq(Call) /\ Len(calls) = n /\ DOMAIN calls = 1..n
  BY <1>1, <1>5, <1>6, SMT
<1>8. \E i \in 1..n : s[i] = CreatedBy[r.conv]
  BY <1>2, <1>3 DEF Bijection, Surjection
<1> QED
  BY <1>3, <1>6, <1>7, <1>8, SMT DEF Plan, Has, RoleOf

\* CreateChannel adds each admin, the creator as owner, and subscribes everyone.
LEMMA ChannelCalls ==
  ASSUME NEW r \in CreateRequests, ConvType[r.conv] = "channel",
         NEW calls \in CreateChannel(r)
  PROVE  /\ Plan(r.conv, calls)
         /\ Has(calls, "members", CreatedBy[r.conv])
         /\ \A i \in DOMAIN calls : Has(calls, "subscriptions", calls[i].user)
<1>1. r.admins \in Seq(Users) /\ r.subscribers \in Seq(Users)
  BY CreateAssumption
<1>2. PICK s \in Selections(r.subscribers, Users \ Range(r.admins)) :
        calls = AdminCalls(r.conv, r.admins) \o [i \in DOMAIN s |-> Subscriber(s[i])]
  BY DEF CreateChannel
<1> DEFINE n == Len(r.admins)
           A == AdminCalls(r.conv, r.admins)
           B == [i \in DOMAIN s |-> Subscriber(s[i])]
<1>3. s \in Seq(Users)
  <2>1. PICK m \in 0..Len(r.subscribers) : s \in [1..m -> Range(r.subscribers)]
    BY <1>2 DEF Selections
  <2>2. Range(r.subscribers) \subseteq Users
    BY <1>1, ElementOfSeq, LenProperties, SMT DEF Range
  <2>3. m \in Nat
    BY <1>1, <2>1, LenProperties, SMT
  <2> QED
    BY <2>1, <2>2, <2>3, SMT
<1>4. n \in Nat /\ \A i \in 1..n : r.admins[i] \in Users
  BY <1>1, LenProperties, ElementOfSeq
<1>5. \A i \in 1..n : 2 * i - 1 \in 1..2*n /\ 2 * i \in 1..2*n
                      /\ (2 * i - 1 + 1) \div 2 = i /\ (2 * i + 1) \div 2 = i
                      /\ (2 * i - 1) % 2 = 1 /\ (2 * i) % 2 = 0
  BY <1>4, SMT
<1>6. \A i \in 1..2*n : (i + 1) \div 2 \in 1..n
  BY <1>4, SMT
<1>7. /\ A \in [1..2*n -> Call]
      /\ \A i \in 1..2*n : /\ A[i].user = r.admins[(i + 1) \div 2]
                           /\ A[i].table = "members" /\ A[i].user = CreatedBy[r.conv]
                                => A[i].role = "owner"
  BY <1>4, <1>6 DEF AdminCalls, Member, Subscriber, Call, RoleOf, MemberRole
<1>8. \A i \in 1..n : /\ A[2 * i - 1].table = "members"
                      /\ A[2 * i - 1].user = r.admins[i]
                      /\ A[2 * i].table = "subscriptions"
                      /\ A[2 * i].user = r.admins[i]
  BY <1>4, <1>5, SMT DEF AdminCalls, Member, Subscriber
<1>9. A \in Seq(Call) /\ Len(A) = 2 * n
  BY <1>4, <1>7, SMT
<1>10. B \in Seq(Call) /\ \A i \in 1..Len(B) : B[i].table = "subscriptions"
  BY <1>3, SMT DEF Subscriber, Call
<1>11. /\ calls \in Seq(Call)
       /\ Len(calls) = 2 * n + Len(B)
       /\ \A i \in 1..2*n + Len(B) : calls[i] = IF i <= 2 * n THEN A[i] ELSE B[i - 2 * n]
  <2>1. calls = A \o B
    BY <1>2
  <2> HIDE DEF A, B
  <2>2. /\ A \o B \in Seq(Call)
        /\ Len(A \o B) = Len(A) + Len(B)
        /\ \A i \in 1..Len(A) + Len(B) : (A \o B)[i] = IF i <= Len(A) THEN A[i] ELSE B[i - Len(A)]
    BY <1>9, <1>10, ConcatProperties
  <2> QED
    BY <1>9, <2>1, <2>2
<1>12. Len(B) \in Nat /\ DOMAIN calls = 1..2*n + Len(B)
  BY <1>10, <1>11, LenProperties
<1> HIDE DEF A, B
<1>13. Plan(r.conv, calls)
  <2>1. ASSUME NEW i \in 1..Len(calls), calls[i].table = "members",
               calls[i].user = CreatedBy[r.conv]
        PROVE  calls[i].role = "owner"
    <3>1. CASE i <= 2 * n
      <4>1. i \in 1..2*n /\ calls[i] = A[i]
        BY <1>4, <1>11, <1>12, <3>1, SMT
      <4> QED
        BY <1>7, <2>1, <4>1
    <3>2. CASE ~ (i <= 2 * n)
      <4>1. i - 2 * n \in 1..Len(B) /\ calls[i] = B[i - 2 * n]
        BY <1>4, <1>11, <1>12, <3>2, SMT
      <4> QED
        BY <1>10, <2>1, <4>1
    <3> QED
      BY <3>1, <3>2
  <2> QED
    BY <1>11, <2>1 DEF Plan
<1>14. \A i \in 1..n : Has(calls, "members", r.admins[i])
                       /\ Has(calls, "subscriptions", r.admins[i])
  <2>1. ASSUME NEW k \in 1..2*n PROVE k \in 1..Len(calls) /\ calls[k] = A[k]
    BY <1>4, <1>11, <1>12, SMT
  <2>2. ASSUME NEW i \in 1..n
        PROVE  Has(calls, "members", r.admins[i]) /\ Has(calls, "subscriptions", r.admins[i])
    <3>1. /\ 2 * i - 1 \in 1..Len(calls) /\ calls[2 * i - 1] = A[2 * i - 1]
          /\ 2 * i \in 1..Len(calls) /\ calls[2 * i] = A[2 * i]
      BY <1>5, <2>1
    <3>2. /\ calls[2 * i - 1].table = "members" /\ calls[2 * i - 1].user = r.admins[i]
          /\ calls[2 * i].table = "subscriptions" /\ calls[2 * i].user = r.admins[i]
      BY <1>8, <3>1
    <3> QED
      BY <3>1, <3>2 DEF Has
  <2> QED
    BY <2>2
<1>15. Has(calls, "members", CreatedBy[r.conv])
  BY <1>1, <1>14, LenProperties DEF CreateChannel, Range
<1>16. ASSUME NEW i \in DOMAIN calls PROVE Has(calls, "subscriptions", calls[i].user)
  <2>1. CASE i <= 2 * n
    <3>1. i \in 1..2*n /\ calls[i] = A[i]
      BY <1>4, <1>11, <1>12, <2>1, SMT
    <3> QED
      BY <1>6, <1>7, <1>14, <3>1
  <2>2. CASE ~ (i <= 2 * n)
    <3>1. i \in 1..Len(calls) /\ i - 2 * n \in 1..Len(B) /\ calls[i] = B[i - 2 * n]
      BY <1>4, <1>11, <1>12, <2>2, SMT
    <3> QED
      BY <1>10, <3>1 DEF Has
  <2> QED
    BY <2>1, <2>2
<1> QED
  BY <1>13, <1>15, <1>16

\* So every creation has a call that makes its creator the owner, and one in the
\* right table for every participant.
LEMMA CallsFacts ==
  ASSUME NEW r \in CreateRequests, NEW calls \in Calls(r)
  PROVE  /\ Plan(r.conv, calls)
         /\ Has(calls, "members", CreatedBy[r.conv])
         /\ \A i \in DOMAIN calls : Has(calls, ParticipantTable(r.conv), calls[i].user)
         /\ ConvType[r.conv] = "group" => Len(calls) <= MaxGroup
<1>1. ConvType[r.conv] \in {"dm", "group", "channel"}
  BY CreateAssumption, TypesAssumption DEF ConversationType
<1>2. CASE ConvType[r.conv] = "dm"
  BY <1>2, DmCalls DEF Calls, ParticipantTable
<1>3. CASE ConvType[r.conv] = "group"
  BY <1>3, GroupCalls DEF Calls, ParticipantTable
<1>4. CASE ConvType[r.conv] = "channel"
  BY <1>4, ChannelCalls DEF Calls, ParticipantTable
<1> QED
  BY <1>1, <1>2, <1>3, <1>4

----------------------------------------------------------------------------
(* The inductive invariant. *)

HandlerLabels ==
  {"count", "add", "remove", "subscribe", "unsubscribe",
   "purge_rows", "purge_devices", "purge_queue"}
PurgeLabels == {"purge_rows", "purge_devices", "purge_queue"}

\* A thread runs a membership handler or has a duty, never both, and the
\* conversation of either has its row.
BusyInv ==
  /\ DOMAIN duty = Workers
  /\ created \subseteq conversations
  /\ \A w \in Workers :
       /\ duty[w].do \in {"none", "create", "version", "members", "notify"}
       /\ duty[w].do = "none" => duty[w] = NoDuty
       /\ duty[w].do # "none" => pc[w] = "idle" /\ duty[w].conv \in conversations
       /\ duty[w].do = "notify" => duty[w].devs \subseteq Devices
       /\ pc[w] # "idle" =>
            /\ pc[w] \in HandlerLabels
            /\ req[w] \in AddRequest \cup RemoveRequest \cup SubscriptionRequest
            /\ req[w].conv \in conversations
       /\ pc[w] \in {"count", "add"} => req[w] \in AddRequest

\* The creator is the owner, unless a handler has changed that.
OwnerKept(c) ==
  \/ CreatedBy[c] \in left[c]
  \/ c \in regraded
  \/ conversation_members[c][CreatedBy[c]] = "owner"

\* Who was asked for is in, has left or is among the calls; and so is the owner.
Covered(c, calls) ==
  /\ \A u \in wanted[c] :
       u \in Participants(c) \/ u \in left[c] \/ Has(calls, ParticipantTable(c), u)
  /\ OwnerKept(c) \/ Has(calls, "members", CreatedBy[c])

\* What a creation has not added yet, it still has a call for.
PlanInv ==
  \A w \in Workers :
    duty[w].do = "create" =>
      /\ duty[w].conv \notin created
      /\ \A v \in Workers : duty[v].do = "create" /\ duty[v].conv = duty[w].conv => v = w
      /\ Plan(duty[w].conv, duty[w].calls)
      /\ Covered(duty[w].conv, duty[w].calls)

Creates(w, c) == duty[w].do = "create" /\ duty[w].conv = c
Adding(c) == {w \in Workers : pc[w] = "add" /\ req[w].conv = c}
Limit == MaxGroup + MaxGroup + Cardinality(Workers) - 3

\* A thread that has passed the count inserts one member, a creation one for
\* each of its calls; and nobody can add to a group before its first call.
Room(c) ==
  /\ c \notin conversations => GetMembers(c) = {}
  /\ GetMemberCount(c) + Cardinality(Adding(c)) <= Limit
  /\ \A w \in Workers :
       Creates(w, c) =>
         /\ GetMemberCount(c) + Cardinality(Adding(c)) + Len(duty[w].calls) <= Limit
         /\ Len(duty[w].calls) <= MaxGroup
         /\ \/ Len(duty[w].calls) < MaxGroup
            \/ /\ GetMembers(c) = {}
               /\ \A v \in Workers : pc[v] \in {"count", "add"} => req[v].conv # c

RoomInv == \A c \in Conversations : ConvType[c] = "group" => Room(c)

\* Thread w is about to read the current version of c for an event.
Announces(w, c) ==
  \/ pc[w] \in PurgeLabels /\ req[w].conv = c
  \/ duty[w].do = "version" /\ duty[w].conv = c

\* Thread w still has to send device d an event of c with the current version.
Owes(w, c, d) ==
  \/ Announces(w, c)
  \/ duty[w].do = "members" /\ duty[w].conv = c /\ duty[w].version = membership_version[c]
  \/ /\ duty[w].do = "notify" /\ duty[w].conv = c /\ duty[w].version = membership_version[c]
     /\ \/ Owner[d] \in duty[w].users
        \/ d \in duty[w].devs
        \/ /\ duty[w].list = "members" /\ ConvType[c] = "channel"
           /\ Owner[d] \notin duty[w].seen

\* No event has a version that the conversation has not reached.
VersionInv ==
  /\ crashes \in Nat
  /\ connected = Devices
  /\ \A c \in Conversations, d \in Devices : announced[c][d] <= membership_version[c]
  /\ \A w \in Workers :
       duty[w].do \in {"members", "notify"} =>
         duty[w].version \in Nat /\ duty[w].version <= membership_version[duty[w].conv]

\* A device without the current version is still owed it.
AnnounceInv ==
  crashes = 0 =>
    \A c \in created, d \in Devices :
      (devices[d] = "active" /\ Owner[d] \in Participants(c)) =>
        announced[c][d] = membership_version[c] \/ \E w \in Workers : Owes(w, c, d)

CreationInv ==
  CreationTypeOK /\ BusyInv /\ PlanInv /\ CreationWhole /\ VersionInv /\ AnnounceInv

----------------------------------------------------------------------------
(* What the membership handlers do, seen from a creation. *)

\* A handler under way has a request with a conversation and a user.
LEMMA RequestTyped ==
  ASSUME CreationTypeOK, BusyInv, NEW w \in Workers, pc[w] # "idle"
  PROVE  /\ req[w].conv \in conversations /\ req[w].conv \in Conversations
         /\ req[w].user \in Users
         /\ pc[w] = "add" => req[w].role \in MemberRole
BY DEF BusyInv, CreationTypeOK, AddRequest, RemoveRequest, SubscriptionRequest

\* A handler starts on a free thread, for a conversation that has its row, and
\* AddMember for an actor who may manage it.
LEMMA BeginFacts ==
  ASSUME NEW w \in Workers, HandlerBegin(w)
  PROVE  /\ \E r \in Requests, label \in {"count", "remove", "subscribe", "unsubscribe"} :
              /\ Begin(w, r, label)
              /\ r \in AddRequest \cup RemoveRequest \cup SubscriptionRequest
              /\ req'[w].conv \in conversations
              /\ label = "count" => r \in AddRequest /\ HasAdminRole(r.conv, r.actor)
         /\ Free(w)
         /\ UNCHANGED <<conversation_vars, device_vars, envelope_vars, delivery_vars,
                        conversations, duty, announced, crashes, history_vars>>
<1>1. CASE ManageBegin(w, "add", "count")
  BY <1>1, RequestsAssumption DEF HandlerBegin, ManageBegin, ActorCanManageMembers, Request,
     SendRequest, AddRequest, RemoveRequest, SubscriptionRequest
<1>2. CASE ManageBegin(w, "remove", "remove")
  BY <1>2, RequestsAssumption DEF HandlerBegin, ManageBegin, Request,
     SendRequest, AddRequest, RemoveRequest, SubscriptionRequest
<1>3. CASE SubscribeChannelBegin(w)
  BY <1>3, RequestsAssumption DEF HandlerBegin, SubscribeChannelBegin, Request,
     SendRequest, AddRequest, RemoveRequest, SubscriptionRequest
<1>4. CASE UnsubscribeChannelBegin(w)
  BY <1>4, RequestsAssumption DEF HandlerBegin, UnsubscribeChannelBegin, Request,
     SendRequest, AddRequest, RemoveRequest, SubscriptionRequest
<1> QED
  BY <1>1, <1>2, <1>3, <1>4 DEF HandlerBegin, AddMemberBegin, RemoveMemberBegin

\* Between its first and its last call a handler changes no table of a creation.
LEMMA StepFacts ==
  ASSUME NEW w \in Workers, HandlerStep(w)
  PROVE  /\ \/ pc[w] = "count" /\ Finish(w)
            \/ /\ pc[w] = "count" /\ Continue(w, "add")
               /\ ~ (GetMemberCount(req[w].conv) >= MaxGroup)
            \/ /\ pc[w] \in PurgeLabels
               /\ UNCHANGED pc \/ \E label \in PurgeLabels : pc' = [pc EXCEPT ![w] = label]
               /\ \/ UNCHANGED devs
                  \/ devs' = [devs EXCEPT ![w] = GetDevicesForUser(req[w].user)]
                  \/ \E d \in devs[w] : devs' = [devs EXCEPT ![w] = @ \ {d}]
               /\ UNCHANGED <<req, ts, targets, offline>>
         /\ UNCHANGED <<conversation_vars, device_vars, connected,
                        conversations, duty, announced, crashes, history_vars>>
<1>1. CASE AddMemberCount(w)
  BY <1>1 DEF HandlerStep, AddMemberCount, delivery_vars
<1>2. CASE PurgeRows(w)
  BY <1>2 DEF HandlerStep, PurgeRows, Continue, Goto, delivery_vars, PurgeLabels
<1>3. CASE PurgeDevices(w)
  BY <1>3 DEF HandlerStep, PurgeDevices, Goto, delivery_vars, PurgeLabels
<1>4. CASE PurgeQueue(w)
  BY <1>4 DEF HandlerStep, PurgeQueue, PurgeConversationFromDeviceQueue, PurgeLabels
<1> QED
  BY <1>1, <1>2, <1>3, <1>4 DEF HandlerStep

\* Every step keeps the types of the tables.
LEMMA CreationTablesStep ==
  ASSUME CreationTypeOK, BusyInv, PlanInv, CreationNext
  PROVE  ConversationTypeOK' /\ DeviceTypeOK'
<1>t. ConversationTypeOK /\ DeviceTypeOK
  BY DEF CreationTypeOK
<1>k. UNCHANGED <<conversation_vars, device_vars>> => ConversationTypeOK' /\ DeviceTypeOK'
  BY <1>t DEF ConversationTypeOK, DeviceTypeOK, conversation_vars, device_vars
<1>1. ASSUME NEW w \in Workers, CreateConversation(w) \/ CreateDone(w)
      PROVE  UNCHANGED <<conversation_vars, device_vars>>
  BY <1>1 DEF CreateConversation, CreateDone
<1>2. ASSUME NEW w \in Workers, CreateCall(w) PROVE ConversationTypeOK' /\ DeviceTypeOK'
  <2>1. UNCHANGED device_vars
    BY <1>2 DEF CreateCall
  <2>2. CASE UNCHANGED conversation_vars
    BY <1>k, <2>1, <2>2
  <2>3. CASE StoreCall(duty[w].conv, Head(duty[w].calls))
    <3> DEFINE call == Head(duty[w].calls)
               c == duty[w].conv
    <3>1. call \in Call /\ c \in Conversations
      BY <1>2, HeadTailProperties DEF CreateCall, PlanInv, Plan, BusyInv, CreationTypeOK
    <3>2. CASE AddMember(c, call.user, call.role) /\ call.table = "members"
      BY <1>t, <2>1, <3>1, <3>2, SMT DEF AddMember, BumpMembershipVersion, ConversationTypeOK,
         DeviceTypeOK, device_vars, Call
    <3>3. CASE Subscribe(c, call.user)
      BY <1>t, <2>1, <3>1, <3>3, SMT DEF Subscribe, BumpMembershipVersion, ConversationTypeOK,
         DeviceTypeOK, device_vars, Call
    <3> QED
      BY <2>3, <3>2, <3>3 DEF StoreCall
  <2> QED
    BY <1>2, <2>2, <2>3 DEF CreateCall
<1>3. ASSUME NEW w \in Workers, HandlerBegin(w) \/ HandlerStep(w)
      PROVE  UNCHANGED <<conversation_vars, device_vars>>
  BY <1>3, BeginFacts, StepFacts
<1>4. ASSUME NEW w \in Workers, HandlerLeaves(w) PROVE ConversationTypeOK' /\ DeviceTypeOK'
  <2>1. req[w].conv \in Conversations /\ req[w].user \in Users
    BY <1>4, RequestTyped DEF HandlerLeaves, RemoveMemberStore, UnsubscribeChannelStore
  <2>2. CASE RemoveMemberStore(w)
    BY <1>t, <2>1, <2>2, SMT DEF RemoveMemberStore, RemoveMember, BumpMembershipVersion,
       ConversationTypeOK, DeviceTypeOK, device_vars
  <2>3. CASE UnsubscribeChannelStore(w)
    <3>1. PICK k, u : k = req[w].conv /\ u = req[w].user
      OBVIOUS
    <3>2. Unsubscribe(k, u) /\ UNCHANGED device_vars
      BY <2>3, <3>1 DEF UnsubscribeChannelStore
    <3> QED
      BY <1>t, <2>1, <3>1, <3>2, SMT DEF Unsubscribe, BumpMembershipVersion, ConversationTypeOK,
         DeviceTypeOK, device_vars
  <2> QED
    BY <1>4, <2>2, <2>3 DEF HandlerLeaves
<1>5. ASSUME NEW w \in Workers, HandlerDone(w) PROVE ConversationTypeOK' /\ DeviceTypeOK'
  <2>1. /\ req[w].conv \in Conversations /\ req[w].user \in Users
        /\ pc[w] = "add" => req[w].role \in MemberRole
    BY <1>5, RequestTyped DEF HandlerDone, AddMemberStore, SubscribeChannelStore, PurgeDone
  <2>2. CASE AddMemberStore(w)
    <3>1. CASE AddMember(req[w].conv, req[w].user, req[w].role)
      BY <1>t, <2>1, <2>2, <3>1, SMT DEF AddMemberStore, AddMember, BumpMembershipVersion,
         ConversationTypeOK, DeviceTypeOK, device_vars
    <3> QED
      BY <1>k, <2>2, <3>1 DEF AddMemberStore
  <2>3. CASE SubscribeChannelStore(w)
    BY <1>t, <1>k, <2>1, <2>3, SMT DEF SubscribeChannelStore, Subscribe, BumpMembershipVersion,
       ConversationTypeOK, DeviceTypeOK, device_vars
  <2>4. CASE PurgeDone(w)
    BY <1>k, <2>4 DEF PurgeDone
  <2> QED
    BY <1>5, <2>2, <2>3, <2>4 DEF HandlerDone
<1>6. ASSUME NEW w \in Workers,
             NotifyVersion(w) \/ NotifyMembers(w) \/ NotifyDevices(w) \/ NotifyDevice(w)
               \/ NotifySubscribers(w)
      PROVE  UNCHANGED <<conversation_vars, device_vars>>
  BY <1>6 DEF NotifyVersion, NotifyMembers, NotifyDevices, NotifyDevice, NotifySubscribers,
     Notifying, Duty
<1>7. ASSUME NEW u \in Users, AccountDeleted(u) PROVE ConversationTypeOK' /\ DeviceTypeOK'
  BY <1>t, <1>7 DEF AccountDeleted, ConversationTypeOK, DeviceTypeOK
<1>8. CASE CreationCrash
  BY <1>k, <1>8 DEF CreationCrash
<1> QED
  BY <1>k, <1>1, <1>2, <1>3, <1>4, <1>5, <1>6, <1>7, <1>8 DEF CreationNext

\* Every step keeps the types of the threads.
LEMMA CreationWorkersStep ==
  ASSUME CreationTypeOK, BusyInv, CreationNext
  PROVE  WorkerTypeOK'
<1>t. WorkerTypeOK /\ DeviceTypeOK
  BY DEF CreationTypeOK
<1>k. UNCHANGED worker_vars => WorkerTypeOK'
  BY <1>t DEF WorkerTypeOK, worker_vars
<1>f. ASSUME NEW w \in Workers, Finish(w) PROVE WorkerTypeOK'
  BY <1>t, <1>f DEF WorkerTypeOK, Finish, Goto, Labels
<1>c. ASSUME NEW w \in Workers, NEW label \in Labels, Continue(w, label) PROVE WorkerTypeOK'
  BY <1>t, <1>c DEF WorkerTypeOK, Continue, Goto
<1>1. ASSUME NEW w \in Workers,
             \/ CreateConversation(w) \/ CreateCall(w) \/ CreateDone(w)
             \/ NotifyVersion(w) \/ NotifyMembers(w) \/ NotifyDevices(w) \/ NotifyDevice(w)
             \/ NotifySubscribers(w)
      PROVE  UNCHANGED worker_vars
  BY <1>1 DEF CreateConversation, CreateCall, CreateDone, NotifyVersion, NotifyMembers,
     NotifyDevices, NotifyDevice, NotifySubscribers, Notifying, Duty
<1>2. ASSUME NEW w \in Workers, HandlerBegin(w) PROVE WorkerTypeOK'
  <2>1. PICK r \in Requests, label \in Labels : Begin(w, r, label)
    BY <1>2, BeginFacts DEF Labels
  <2> QED
    BY <1>t, <2>1 DEF WorkerTypeOK, Begin, Goto
<1>3. ASSUME NEW w \in Workers, HandlerStep(w) PROVE WorkerTypeOK'
  <2>1. CASE Finish(w)
    BY <1>f, <2>1
  <2>2. CASE Continue(w, "add")
    BY <1>c, <2>2 DEF Labels
  <2>3. CASE /\ UNCHANGED pc \/ \E label \in PurgeLabels : pc' = [pc EXCEPT ![w] = label]
             /\ \/ UNCHANGED devs
                \/ devs' = [devs EXCEPT ![w] = GetDevicesForUser(req[w].user)]
                \/ \E d \in devs[w] : devs' = [devs EXCEPT ![w] = @ \ {d}]
             /\ UNCHANGED <<req, ts, targets, offline>>
    <3>1. pc' \in [Workers -> Labels]
      BY <1>t, <2>3 DEF WorkerTypeOK, PurgeLabels, Labels
    <3>2. devs' \in [Workers -> SUBSET Devices]
      BY <1>t, <2>3 DEF WorkerTypeOK, GetDevicesForUser, DevicesOf
    <3> QED
      BY <1>t, <2>3, <3>1, <3>2 DEF WorkerTypeOK
  <2> QED
    BY <1>3, <2>1, <2>2, <2>3, StepFacts
<1>4. ASSUME NEW w \in Workers, HandlerLeaves(w) PROVE WorkerTypeOK'
  BY <1>4, <1>c DEF HandlerLeaves, RemoveMemberStore, UnsubscribeChannelStore, Labels
<1>5. ASSUME NEW w \in Workers, HandlerDone(w) PROVE WorkerTypeOK'
  BY <1>5, <1>f DEF HandlerDone, AddMemberStore, SubscribeChannelStore, PurgeDone
<1>6. ASSUME NEW u \in Users, AccountDeleted(u) PROVE UNCHANGED worker_vars
  BY <1>6 DEF AccountDeleted
<1>7. CASE CreationCrash
  BY <1>t, <1>7 DEF CreationCrash, WorkerTypeOK, Labels
<1> QED
  BY <1>k, <1>1, <1>2, <1>3, <1>4, <1>5, <1>6, <1>7 DEF CreationNext

\* Every step keeps the types of the events and of the history.
LEMMA CreationOtherStep ==
  ASSUME CreationTypeOK, BusyInv, PlanInv, VersionInv, CreationNext
  PROVE  /\ conversations' \cup created' \cup regraded' \subseteq Conversations
         /\ announced' \in [Conversations -> [Devices -> Nat]]
         /\ wanted' \in [Conversations -> SUBSET Users]
         /\ left' \in [Conversations -> SUBSET Users]
<1> DEFINE Kept == UNCHANGED <<conversations, announced, created, wanted, left, regraded>>
           Typed == /\ conversations' \cup created' \cup regraded' \subseteq Conversations
                    /\ announced' \in [Conversations -> [Devices -> Nat]]
                    /\ wanted' \in [Conversations -> SUBSET Users]
                    /\ left' \in [Conversations -> SUBSET Users]
<1>t. /\ conversations \cup created \cup regraded \subseteq Conversations
      /\ announced \in [Conversations -> [Devices -> Nat]]
      /\ wanted \in [Conversations -> SUBSET Users]
      /\ left \in [Conversations -> SUBSET Users]
  BY DEF CreationTypeOK
<1>k. Kept => Typed
  BY <1>t
<1>1. ASSUME NEW w \in Workers, CreateConversation(w) PROVE Typed
  <2>1. PICK r \in CreateRequests : \E calls \in Calls(r) :
          /\ conversations' = conversations \cup {r.conv}
          /\ wanted' = [wanted EXCEPT ![r.conv] = {calls[i].user : i \in DOMAIN calls}]
    BY <1>1 DEF CreateConversation
  <2>2. PICK calls \in Calls(r) :
          wanted' = [wanted EXCEPT ![r.conv] = {calls[i].user : i \in DOMAIN calls}]
    BY <2>1
  <2>3. calls \in Seq(Call) /\ r.conv \in Conversations
    BY CallsFacts, CreateAssumption DEF Plan
  <2>4. {calls[i].user : i \in DOMAIN calls} \subseteq Users
    BY <2>3, LenProperties, ElementOfSeq, SMT DEF Call
  <2>5. wanted' \in [Conversations -> SUBSET Users]
    BY <1>t, <2>2, <2>3, <2>4
  <2> QED
    BY <1>1, <1>t, <2>1, <2>3, <2>5 DEF CreateConversation
<1>2. ASSUME NEW w \in Workers, CreateCall(w) PROVE Kept
  BY <1>2 DEF CreateCall, history_vars
<1>3. ASSUME NEW w \in Workers, CreateDone(w) PROVE Typed
  BY <1>3, <1>t DEF CreateDone, BusyInv
<1>4. ASSUME NEW w \in Workers, HandlerBegin(w) \/ HandlerStep(w) PROVE Kept
  BY <1>4, BeginFacts, StepFacts DEF history_vars
<1>5. ASSUME NEW w \in Workers, HandlerLeaves(w) PROVE Typed
  <2>1. req[w].conv \in Conversations /\ req[w].user \in Users
    BY <1>5, RequestTyped DEF HandlerLeaves, RemoveMemberStore, UnsubscribeChannelStore
  <2> QED
    BY <1>5, <1>t, <2>1 DEF HandlerLeaves
<1>6. ASSUME NEW w \in Workers, HandlerDone(w) PROVE Typed
  <2>1. req[w].conv \in Conversations
    BY <1>6, RequestTyped DEF HandlerDone, AddMemberStore, SubscribeChannelStore, PurgeDone
  <2> QED
    BY <1>6, <1>t, <2>1 DEF HandlerDone
<1>7. ASSUME NEW w \in Workers,
             NotifyVersion(w) \/ NotifyMembers(w) \/ NotifyDevices(w) \/ NotifySubscribers(w)
      PROVE  Kept
  BY <1>7 DEF NotifyVersion, NotifyMembers, NotifyDevices, NotifySubscribers,
     Notifying, Duty, history_vars
<1>8. ASSUME NEW w \in Workers, NotifyDevice(w) PROVE Typed
  <2>1. PICK d \in duty[w].devs :
          \/ UNCHANGED announced
          \/ announced' = [announced EXCEPT ![duty[w].conv][d] = duty[w].version]
    BY <1>8 DEF NotifyDevice
  <2>2. d \in Devices /\ duty[w].version \in Nat /\ duty[w].conv \in Conversations
    BY <1>8, <1>t DEF NotifyDevice, BusyInv, VersionInv
  <2>3. UNCHANGED <<conversations, created, wanted, left, regraded>>
    BY <1>8 DEF NotifyDevice, Notifying, Duty, history_vars
  <2>4. announced' \in [Conversations -> [Devices -> Nat]]
    <3>1. ASSUME NEW c \in Conversations, NEW v \in Nat,
                 announced' = [announced EXCEPT ![c][d] = v]
          PROVE  announced' \in [Conversations -> [Devices -> Nat]]
      BY <1>t, <2>2, <3>1
    <3> QED
      BY <1>t, <2>1, <2>2, <3>1
  <2> QED
    BY <1>t, <2>3, <2>4
<1>9. ASSUME NEW u \in Users, AccountDeleted(u) PROVE Typed
  BY <1>9, <1>t DEF AccountDeleted
<1>10. ASSUME CreationCrash PROVE Kept
  BY <1>10 DEF CreationCrash, history_vars
<1> HIDE DEF Kept, Typed
<1>11. Typed
  BY <1>k, <1>1, <1>2, <1>3, <1>4, <1>5, <1>6, <1>7, <1>8, <1>9, <1>10 DEF CreationNext
<1> QED
  BY <1>11 DEF Typed

\* Every step keeps threads and duties apart.
LEMMA BusyStep ==
  ASSUME CreationTypeOK, BusyInv, PlanInv, CreationNext
  PROVE  BusyInv'
<1>t. WorkerTypeOK /\ DOMAIN duty = Workers
  BY DEF CreationTypeOK, BusyInv
<1>1. ASSUME NEW w \in Workers, CreateConversation(w) PROVE BusyInv'
  BY <1>1, <1>t, SMT DEF CreateConversation, BusyInv, Free, Creating, worker_vars, NoDuty
<1>2. ASSUME NEW w \in Workers, CreateCall(w) PROVE BusyInv'
  BY <1>2, <1>t, SMT DEF CreateCall, BusyInv, Creating, worker_vars, history_vars, NoDuty
<1>3. ASSUME NEW w \in Workers, CreateDone(w) PROVE BusyInv'
  BY <1>3, <1>t DEF CreateDone, BusyInv, Announce, worker_vars, NoDuty
<1>4. ASSUME NEW w \in Workers, HandlerBegin(w) PROVE BusyInv'
  <2>1. PICK r \in Requests, label \in {"count", "remove", "subscribe", "unsubscribe"} :
          /\ Begin(w, r, label)
          /\ r \in AddRequest \cup RemoveRequest \cup SubscriptionRequest
          /\ req'[w].conv \in conversations
          /\ label = "count" => r \in AddRequest
    BY <1>4, BeginFacts
  <2>2. Free(w) /\ UNCHANGED <<conversations, duty, history_vars>>
    BY <1>4, BeginFacts
  <2>3. pc' = [pc EXCEPT ![w] = label] /\ req' = [req EXCEPT ![w] = r]
    BY <2>1 DEF Begin, Goto
  <2> QED
    BY <1>t, <2>1, <2>2, <2>3, SMT DEF BusyInv, WorkerTypeOK, Free, NoDuty, history_vars,
       HandlerLabels
<1>5. ASSUME NEW w \in Workers, HandlerStep(w) PROVE BusyInv'
  <2>1. UNCHANGED <<conversations, duty, history_vars>>
    BY <1>5, StepFacts
  <2>2. CASE pc[w] = "count" /\ Finish(w)
    BY <1>t, <2>1, <2>2 DEF Finish, Goto, BusyInv, WorkerTypeOK, history_vars
  <2>3. CASE pc[w] = "count" /\ Continue(w, "add")
    BY <1>t, <2>1, <2>3 DEF Continue, Goto, BusyInv, WorkerTypeOK, history_vars, HandlerLabels
  <2>4. CASE /\ pc[w] \in PurgeLabels
             /\ UNCHANGED pc \/ \E label \in PurgeLabels : pc' = [pc EXCEPT ![w] = label]
             /\ UNCHANGED req
    BY <1>t, <2>1, <2>4 DEF BusyInv, WorkerTypeOK, history_vars, HandlerLabels, PurgeLabels
  <2> QED
    BY <1>5, <2>2, <2>3, <2>4, StepFacts
<1>6. ASSUME NEW w \in Workers, HandlerLeaves(w) PROVE BusyInv'
  BY <1>6, <1>t DEF HandlerLeaves, RemoveMemberStore, UnsubscribeChannelStore, Continue, Goto,
     BusyInv, WorkerTypeOK, HandlerLabels
<1>7. ASSUME NEW w \in Workers, HandlerDone(w) PROVE BusyInv'
  <2>1. req[w].conv \in conversations /\ duty[w].do = "none"
    BY <1>7, RequestTyped DEF HandlerDone, AddMemberStore, SubscribeChannelStore, PurgeDone,
       BusyInv
  <2>2. pc' = [pc EXCEPT ![w] = "idle"] /\ req' = [req EXCEPT ![w] = NoRequest]
    BY <1>7 DEF HandlerDone, AddMemberStore, SubscribeChannelStore, PurgeDone, Finish, Goto
  <2>3. UNCHANGED <<conversations, created>>
    BY <1>7 DEF HandlerDone
  <2>4. CASE UNCHANGED duty
    BY <1>t, <2>1, <2>2, <2>3, <2>4 DEF BusyInv, WorkerTypeOK
  <2>5. CASE duty' = [duty EXCEPT ![w] = Announce(req[w].conv)]
    BY <1>t, <2>1, <2>2, <2>3, <2>5 DEF BusyInv, WorkerTypeOK, Announce
  <2> QED
    BY <1>7, <2>4, <2>5 DEF HandlerDone
<1>8. ASSUME NEW w \in Workers, NotifyVersion(w) PROVE BusyInv'
  BY <1>8, <1>t DEF NotifyVersion, Duty, BusyInv, worker_vars, history_vars, NoDuty
<1>9. ASSUME NEW w \in Workers, NotifyMembers(w) PROVE BusyInv'
  BY <1>9, <1>t DEF NotifyMembers, Notifying, Duty, BusyInv, worker_vars, history_vars, NoDuty
<1>10. ASSUME NEW w \in Workers, NotifyDevices(w) PROVE BusyInv'
  BY <1>10, <1>t, SMT DEF NotifyDevices, Notifying, Duty, BusyInv, worker_vars, history_vars,
     NoDuty,
     GetDevicesForUser, DevicesOf
<1>11. ASSUME NEW w \in Workers, NotifyDevice(w) PROVE BusyInv'
  BY <1>11, <1>t, SMT DEF NotifyDevice, Notifying, Duty, BusyInv, worker_vars, history_vars, NoDuty
<1>12. ASSUME NEW w \in Workers, NotifySubscribers(w) PROVE BusyInv'
  BY <1>12, <1>t, SMT DEF NotifySubscribers, Notifying, Duty, BusyInv, worker_vars, history_vars,
     NoDuty
<1>13. ASSUME NEW u \in Users, AccountDeleted(u) PROVE BusyInv'
  BY <1>13 DEF AccountDeleted, BusyInv, worker_vars
<1>14. CASE CreationCrash
  BY <1>14 DEF CreationCrash, BusyInv, history_vars, NoDuty
<1> QED
  BY <1>1, <1>2, <1>3, <1>4, <1>5, <1>6, <1>7, <1>8, <1>9, <1>10, <1>11, <1>12, <1>13, <1>14
     DEF CreationNext

\* Nobody who is in a conversation is missing after a step without having left,
\* and a creator who was the owner has left or was given another role.
LEMMA NobodyLost ==
  ASSUME CreationTypeOK, BusyInv, PlanInv, CreationNext, NEW c \in conversations
  PROVE  /\ wanted'[c] = wanted[c]
         /\ left[c] \subseteq left'[c]
         /\ Participants(c) \subseteq Participants(c)' \cup left'[c]
         /\ OwnerKept(c) => OwnerKept(c)'
<1> DEFINE Safe == /\ wanted'[c] = wanted[c]
                   /\ left[c] \subseteq left'[c]
                   /\ Participants(c) \subseteq Participants(c)' \cup left'[c]
                   /\ OwnerKept(c) => OwnerKept(c)'
           Kept == UNCHANGED <<conversation_vars, wanted, left, regraded>>
<1>t. /\ c \in Conversations /\ ConversationTypeOK /\ CreatedBy[c] \in Users
      /\ left \in [Conversations -> SUBSET Users]
      /\ wanted \in [Conversations -> SUBSET Users]
  BY TypesAssumption DEF CreationTypeOK
<1>k. Kept => Safe
  BY DEF conversation_vars, Participants, GetMembers, GetSubscribers, OwnerKept
<1>1. ASSUME NEW w \in Workers, CreateConversation(w) PROVE Safe
  <2>1. PICK r \in CreateRequests :
          /\ r.conv \notin conversations
          /\ \E S : wanted' = [wanted EXCEPT ![r.conv] = S]
    BY <1>1 DEF CreateConversation
  <2>2. wanted'[c] = wanted[c]
    BY <1>t, <2>1
  <2>3. UNCHANGED <<conversation_vars, left, regraded>>
    BY <1>1 DEF CreateConversation
  <2> QED
    BY <2>2, <2>3 DEF conversation_vars, Participants, GetMembers, GetSubscribers, OwnerKept
<1>2. ASSUME NEW w \in Workers, CreateCall(w) PROVE Safe
  <2>1. UNCHANGED <<wanted, left, regraded>>
    BY <1>2 DEF CreateCall, history_vars
  <2>2. CASE UNCHANGED conversation_vars
    BY <1>k, <2>1, <2>2
  <2>3. CASE StoreCall(duty[w].conv, Head(duty[w].calls))
    <3>1. PICK k, call : k = duty[w].conv /\ call = Head(duty[w].calls)
      OBVIOUS
    <3>2. /\ duty[w].calls \in Seq(Call) /\ duty[w].calls # <<>>
          /\ 1 \in 1..Len(duty[w].calls) /\ call = duty[w].calls[1]
      BY <1>2, <3>1, HeadTailProperties, EmptySeq, SMT DEF CreateCall, PlanInv, Plan
    <3>3. /\ call \in Call /\ k \in Conversations
          /\ call.table = "members" /\ call.user = CreatedBy[k] => call.role = "owner"
      BY <1>2, <3>1, <3>2, ElementOfSeq, SMT DEF CreateCall, PlanInv, Plan, BusyInv, CreationTypeOK
    <3>4. CASE AddMember(k, call.user, call.role) /\ call.table = "members"
      <4>1. call.role # "none" /\ call.user \in Users
        BY <3>3, <3>4 DEF Call, MemberRole
      <4> QED
        BY <1>t, <2>1, <3>3, <3>4, <4>1 DEF AddMember, Participants, GetMembers, GetSubscribers,
           OwnerKept, ConversationTypeOK
    <3>5. CASE Subscribe(k, call.user)
      BY <1>t, <2>1, <3>3, <3>5 DEF Subscribe, Participants, GetMembers, GetSubscribers,
         OwnerKept, ConversationTypeOK
    <3> QED
      BY <2>3, <3>1, <3>4, <3>5 DEF StoreCall
  <2> QED
    BY <1>2, <2>2, <2>3 DEF CreateCall
<1>3. ASSUME NEW w \in Workers, CreateDone(w) PROVE Kept
  BY <1>3 DEF CreateDone
<1>4. ASSUME NEW w \in Workers, HandlerBegin(w) \/ HandlerStep(w) PROVE Kept
  BY <1>4, BeginFacts, StepFacts DEF history_vars
<1>5. ASSUME NEW w \in Workers, HandlerLeaves(w) PROVE Safe
  <2>1. PICK k, u : k = req[w].conv /\ u = req[w].user
    OBVIOUS
  <2>2. k \in Conversations /\ u \in Users
    BY <1>5, <2>1, RequestTyped DEF HandlerLeaves, RemoveMemberStore, UnsubscribeChannelStore
  <2>3. left' = [left EXCEPT ![k] = @ \cup {u}] /\ UNCHANGED <<wanted, regraded>>
    BY <1>5, <2>1 DEF HandlerLeaves
  <2>4. CASE RemoveMember(k, u)
    BY <1>t, <2>2, <2>3, <2>4 DEF RemoveMember, Participants, GetMembers, GetSubscribers,
       OwnerKept, ConversationTypeOK
  <2>5. CASE Unsubscribe(k, u)
    BY <1>t, <2>2, <2>3, <2>5 DEF Unsubscribe, Participants, GetMembers, GetSubscribers,
       OwnerKept, ConversationTypeOK
  <2> QED
    BY <1>5, <2>1, <2>4, <2>5 DEF HandlerLeaves, RemoveMemberStore, UnsubscribeChannelStore
<1>6. ASSUME NEW w \in Workers, HandlerDone(w) PROVE Safe
  <2>1. PICK k, u, role : k = req[w].conv /\ u = req[w].user /\ role = req[w].role
    OBVIOUS
  <2>2. k \in Conversations /\ u \in Users /\ (pc[w] = "add" => role \in MemberRole)
    BY <1>6, <2>1, RequestTyped DEF HandlerDone, AddMemberStore, SubscribeChannelStore, PurgeDone
  <2>3. /\ UNCHANGED <<wanted, left>>
        /\ regraded' = IF pc[w] = "add" /\ u = CreatedBy[k] THEN regraded \cup {k} ELSE regraded
    BY <1>6, <2>1 DEF HandlerDone
  <2>4. CASE AddMember(k, u, role) /\ pc[w] = "add"
    <3>1. role # "none"
      BY <2>2, <2>4 DEF MemberRole
    <3> QED
      BY <1>t, <2>2, <2>3, <2>4, <3>1 DEF AddMember, Participants, GetMembers, GetSubscribers,
         OwnerKept, ConversationTypeOK
  <2>5. CASE Subscribe(k, u)
    BY <1>t, <2>2, <2>3, <2>5 DEF Subscribe, Participants, GetMembers, GetSubscribers,
       OwnerKept, ConversationTypeOK
  <2>6. CASE UNCHANGED conversation_vars
    BY <2>3, <2>6 DEF conversation_vars, Participants, GetMembers, GetSubscribers, OwnerKept
  <2> QED
    BY <1>6, <2>1, <2>4, <2>5, <2>6 DEF HandlerDone, AddMemberStore, SubscribeChannelStore,
       PurgeDone
<1>7. ASSUME NEW w \in Workers,
             NotifyVersion(w) \/ NotifyMembers(w) \/ NotifyDevices(w) \/ NotifyDevice(w)
               \/ NotifySubscribers(w)
      PROVE  Kept
  BY <1>7 DEF NotifyVersion, NotifyMembers, NotifyDevices, NotifyDevice, NotifySubscribers,
     Notifying, Duty, history_vars
<1>8. ASSUME NEW u \in Users, AccountDeleted(u) PROVE Safe
  <2>1. CreatedBy[c] # u
    BY <1>8 DEF AccountDeleted
  <2> QED
    BY <1>8, <1>t, <2>1 DEF AccountDeleted, Participants, GetMembers, GetSubscribers,
       OwnerKept, ConversationTypeOK
<1>9. ASSUME CreationCrash PROVE Kept
  BY <1>9 DEF CreationCrash, history_vars
<1> HIDE DEF Kept, Safe
<1>10. Safe
  BY <1>k, <1>1, <1>2, <1>3, <1>4, <1>5, <1>6, <1>7, <1>8, <1>9 DEF CreationNext
<1> QED
  BY <1>10 DEF Safe

\* So what was covered by some calls stays so.
LEMMA CoveredKept ==
  ASSUME CreationTypeOK, BusyInv, PlanInv, CreationNext,
         NEW c \in conversations, NEW calls, Covered(c, calls)
  PROVE  Covered(c, calls)'
BY NobodyLost DEF Covered

\* A store call of a creation adds whom it is for, in the table it names.
LEMMA CallCovers ==
  ASSUME CreationTypeOK, NEW c \in Conversations, NEW calls, Plan(c, calls), calls # <<>>,
         Covered(c, calls), StoreCall(c, Head(calls)), UNCHANGED <<wanted, left, regraded>>
  PROVE  Plan(c, Tail(calls)) /\ Covered(c, Tail(calls))'
<1>t. ConversationTypeOK /\ CreatedBy[c] \in Users
  BY TypesAssumption DEF CreationTypeOK
<1>1. /\ calls \in Seq(Call) /\ Len(calls) \in Nat /\ Tail(calls) \in Seq(Call)
      /\ Len(Tail(calls)) = Len(calls) - 1
      /\ \A i \in 1..Len(Tail(calls)) : Tail(calls)[i] = calls[i + 1]
      /\ 1 \in 1..Len(calls) /\ Head(calls) = calls[1]
  BY HeadTailProperties, EmptySeq, LenProperties, SMT DEF Plan
<1>2. \A i \in 1..Len(calls) : i # 1 => i - 1 \in 1..Len(Tail(calls)) /\ calls[i] = Tail(calls)[i - 1]
  BY <1>1, SMT
<1>3. Plan(c, Tail(calls))
  BY <1>1, SMT DEF Plan
<1>4. \A t, u : Has(calls, t, u) => \/ Has(Tail(calls), t, u)
                                    \/ Head(calls).table = t /\ Head(calls).user = u
  BY <1>1, <1>2 DEF Has
<1>5. PICK call : call = Head(calls)
  OBVIOUS
<1>6. /\ call \in Call
      /\ call.table = "members" /\ call.user = CreatedBy[c] => call.role = "owner"
  BY <1>1, <1>5, ElementOfSeq DEF Plan
<1>7. /\ Participants(c) \subseteq Participants(c)'
      /\ OwnerKept(c) => OwnerKept(c)'
      /\ call.table = ParticipantTable(c) => call.user \in Participants(c)'
      /\ call.table = "members" /\ call.user = CreatedBy[c] => OwnerKept(c)'
  <2>1. CASE AddMember(c, call.user, call.role) /\ call.table = "members"
    <3>1. call.role # "none" /\ call.user \in Users
      BY <1>6, <2>1 DEF Call, MemberRole
    <3> QED
      BY <1>t, <1>6, <2>1, <3>1 DEF AddMember, Participants, GetMembers, GetSubscribers,
         OwnerKept, ConversationTypeOK, ParticipantTable
  <2>2. CASE Subscribe(c, call.user) /\ call.table # "members"
    BY <1>t, <1>6, <2>2 DEF Subscribe, Participants, GetMembers, GetSubscribers,
       OwnerKept, ConversationTypeOK, ParticipantTable
  <2> QED
    BY <1>5, <2>1, <2>2 DEF StoreCall
<1>8. Covered(c, Tail(calls))'
  BY <1>4, <1>5, <1>7 DEF Covered
<1> QED
  BY <1>3, <1>8

\* Every step keeps the creations under way covered.
LEMMA PlanStep ==
  ASSUME CreationTypeOK, BusyInv, PlanInv, CreationNext
  PROVE  PlanInv'
<1>t. DOMAIN duty = Workers /\ created \subseteq conversations /\ conversations \subseteq Conversations
  BY DEF BusyInv, CreationTypeOK
<1>s. ASSUME NEW v \in Workers, duty[v].do = "create", duty'[v] = duty[v]
      PROVE  Plan(duty[v].conv, duty[v].calls)' /\ Covered(duty[v].conv, duty[v].calls)'
  <2>1. PICK c, calls : c = duty[v].conv /\ calls = duty[v].calls
    OBVIOUS
  <2>2. c \in conversations /\ Plan(c, calls) /\ Covered(c, calls)
    BY <1>s, <2>1 DEF BusyInv, PlanInv
  <2>3. Covered(c, calls)'
    BY <2>2, CoveredKept
  <2>4. c = duty'[v].conv /\ calls = duty'[v].calls
    BY <1>s, <2>1
  <2> QED
    BY <2>2, <2>3, <2>4 DEF Plan
<1>k. ASSUME \A v \in Workers : duty'[v].do = "create" => duty'[v] = duty[v], UNCHANGED created
      PROVE  PlanInv'
  BY <1>k, <1>s DEF PlanInv
<1>1. ASSUME NEW w \in Workers, CreateConversation(w) PROVE PlanInv'
  <2>0. PICK r \in CreateRequests :
          /\ r.conv \notin conversations
          /\ \E calls \in Calls(r) :
               /\ duty' = [duty EXCEPT ![w] = Creating(r.conv, calls)]
               /\ wanted' = [wanted EXCEPT ![r.conv] = {calls[i].user : i \in DOMAIN calls}]
    BY <1>1 DEF CreateConversation
  <2>1. PICK calls \in Calls(r) :
          /\ r.conv \notin conversations
          /\ duty' = [duty EXCEPT ![w] = Creating(r.conv, calls)]
          /\ wanted' = [wanted EXCEPT ![r.conv] = {calls[i].user : i \in DOMAIN calls}]
    BY <2>0
  <2>2. /\ Plan(r.conv, calls) /\ Has(calls, "members", CreatedBy[r.conv])
        /\ \A i \in DOMAIN calls : Has(calls, ParticipantTable(r.conv), calls[i].user)
    BY CallsFacts
  <2>3. wanted'[r.conv] = {calls[i].user : i \in DOMAIN calls}
    BY <2>1, CreateAssumption DEF CreationTypeOK
  <2>4. Covered(r.conv, calls)'
    BY <2>2, <2>3 DEF Covered
  <2>5. duty'[w].conv = r.conv /\ duty'[w].calls = calls /\ duty'[w].do = "create"
    BY <1>t, <2>1 DEF Creating
  <2>6. \A v \in Workers \ {w} : duty'[v] = duty[v]
    BY <1>t, <2>1
  <2>7. UNCHANGED created
    BY <1>1 DEF CreateConversation
  <2>8. \A v \in Workers : duty[v].do = "create" => duty[v].conv # r.conv
    BY <2>1 DEF BusyInv
  <2>9. r.conv \notin created
    BY <1>t, <2>1
  <2>10. Plan(duty'[w].conv, duty'[w].calls) /\ Covered(duty[w].conv, duty[w].calls)'
    BY <2>2, <2>4, <2>5
  <2> QED
    BY <1>s, <2>5, <2>6, <2>7, <2>8, <2>9, <2>10, SMT DEF PlanInv, Plan
<1>2. ASSUME NEW w \in Workers, CreateCall(w) PROVE PlanInv'
  <2>1. UNCHANGED <<created, wanted, left, regraded>>
    BY <1>2 DEF CreateCall, history_vars
  <2>2. CASE duty' = [duty EXCEPT ![w] = NoDuty]
    BY <1>t, <1>k, <2>1, <2>2 DEF NoDuty
  <2>3. CASE /\ StoreCall(duty[w].conv, Head(duty[w].calls))
             /\ duty' = [duty EXCEPT ![w] = Creating(duty[w].conv, Tail(duty[w].calls))]
    <3>1. PICK c, calls : c = duty[w].conv /\ calls = duty[w].calls
      OBVIOUS
    <3>2. /\ c \in Conversations /\ Plan(c, calls) /\ calls # <<>> /\ Covered(c, calls)
          /\ c \notin created
      BY <1>2, <1>t, <3>1 DEF CreateCall, PlanInv, BusyInv
    <3>3. Plan(c, Tail(calls)) /\ Covered(c, Tail(calls))'
      BY <2>1, <2>3, <3>1, <3>2, CallCovers
    <3>4. duty'[w].conv = c /\ duty'[w].calls = Tail(calls) /\ duty'[w].do = "create"
      BY <1>t, <2>3, <3>1 DEF Creating
    <3>5. \A v \in Workers \ {w} : duty'[v] = duty[v]
      BY <1>t, <2>3
    <3>6. \A v \in Workers : duty[v].do = "create" /\ duty[v].conv = c => v = w
      BY <1>2, <3>1 DEF CreateCall, PlanInv
    <3>7. Plan(duty[w].conv, duty[w].calls)' /\ Covered(duty[w].conv, duty[w].calls)'
      BY <3>3, <3>4 DEF Plan
    <3>8. ASSUME NEW v \in Workers, duty'[v].do = "create"
          PROVE  /\ duty'[v].conv \notin created'
                 /\ \A x \in Workers :
                      duty'[x].do = "create" /\ duty'[x].conv = duty'[v].conv => x = v
      BY <2>1, <3>2, <3>4, <3>5, <3>6, <3>8 DEF PlanInv
    <3>9. ASSUME NEW v \in Workers, duty'[v].do = "create"
          PROVE  Plan(duty[v].conv, duty[v].calls)' /\ Covered(duty[v].conv, duty[v].calls)'
      <4>1. CASE v = w
        BY <3>7, <4>1
      <4>2. CASE v # w
        <5>1. duty'[v] = duty[v] /\ duty[v].do = "create"
          BY <3>5, <3>9, <4>2
        <5> QED
          BY <1>s, <5>1
      <4> QED
        BY <4>1, <4>2
    <3> QED
      BY <3>8, <3>9 DEF PlanInv
  <2> QED
    BY <1>2, <2>2, <2>3 DEF CreateCall
<1>3. ASSUME NEW w \in Workers, CreateDone(w) PROVE PlanInv'
  <2>1. /\ duty' = [duty EXCEPT ![w] = Announce(duty[w].conv)]
        /\ created' = created \cup {duty[w].conv} /\ duty[w].do = "create"
    BY <1>3 DEF CreateDone
  <2>2. duty'[w].do # "create" /\ \A v \in Workers \ {w} : duty'[v] = duty[v]
    BY <1>t, <2>1 DEF Announce
  <2>3. \A v \in Workers \ {w} : duty[v].do = "create" => duty[v].conv \notin created'
    BY <2>1 DEF PlanInv
  <2> QED
    BY <1>s, <2>2, <2>3 DEF PlanInv
<1>4. ASSUME NEW w \in Workers, HandlerBegin(w) \/ HandlerStep(w) PROVE PlanInv'
  BY <1>4, <1>k, BeginFacts, StepFacts DEF history_vars
<1>5. ASSUME NEW w \in Workers, HandlerLeaves(w) PROVE PlanInv'
  BY <1>5, <1>k DEF HandlerLeaves
<1>6. ASSUME NEW w \in Workers, HandlerDone(w) PROVE PlanInv'
  BY <1>6, <1>k, <1>t DEF HandlerDone, Announce
<1>7. ASSUME NEW w \in Workers,
             NotifyVersion(w) \/ NotifyMembers(w) \/ NotifyDevices(w) \/ NotifyDevice(w)
               \/ NotifySubscribers(w)
      PROVE  PlanInv'
  <2>1. UNCHANGED created /\ \E next : next.do # "create" /\ duty' = [duty EXCEPT ![w] = next]
    BY <1>7 DEF NotifyVersion, NotifyMembers, NotifyDevices, NotifyDevice, NotifySubscribers,
       Notifying, Duty, history_vars, NoDuty
  <2> QED
    BY <1>k, <1>t, <2>1
<1>8. ASSUME NEW u \in Users, AccountDeleted(u) PROVE PlanInv'
  BY <1>8, <1>k DEF AccountDeleted
<1>9. CASE CreationCrash
  BY <1>9, <1>k DEF CreationCrash, history_vars, NoDuty
<1> QED
  BY <1>1, <1>2, <1>3, <1>4, <1>5, <1>6, <1>7, <1>8, <1>9 DEF CreationNext

\* Every step keeps the answered creations whole.
LEMMA WholeStep ==
  ASSUME CreationTypeOK, BusyInv, PlanInv, CreationWhole, CreationNext
  PROVE  CreationWhole'
<1>1. \A t, u : ~ Has(<<>>, t, u)
  BY EmptySeq, SMT DEF Has
<1>2. ASSUME NEW c \in conversations PROVE Covered(c, <<>>) => Covered(c, <<>>)'
  BY CoveredKept
<1>3. ASSUME NEW c PROVE Covered(c, <<>>) <=> /\ wanted[c] \ left[c] \subseteq Participants(c)
                                             /\ OwnerKept(c)
  BY <1>1 DEF Covered
<1>4. ASSUME NEW c PROVE Covered(c, <<>>)' <=> /\ (wanted[c] \ left[c])' \subseteq Participants(c)'
                                              /\ OwnerKept(c)'
  BY <1>1 DEF Covered
<1>5. ASSUME NEW c \in created PROVE Covered(c, <<>>)'
  BY <1>2, <1>3 DEF CreationWhole, OwnerKept, BusyInv
<1>6. ASSUME NEW c \in created', c \notin created PROVE Covered(c, <<>>)'
  <2>1. PICK w \in Workers : CreateDone(w)
    <3>1. \/ \E w \in Workers : CreateDone(w)
          \/ UNCHANGED created
      BY BeginFacts, StepFacts DEF CreationNext, CreateConversation, CreateCall, HandlerLeaves,
         HandlerDone, NotifyVersion, NotifyMembers, NotifyDevices, NotifyDevice,
         NotifySubscribers, Notifying, Duty, history_vars, AccountDeleted, CreationCrash
    <3> QED
      BY <1>6, <3>1
  <2>2. c = duty[w].conv /\ duty[w].do = "create" /\ duty[w].calls = <<>>
    BY <1>6, <2>1 DEF CreateDone
  <2>3. Covered(c, <<>>) /\ c \in conversations
    BY <2>2 DEF PlanInv, BusyInv
  <2> QED
    BY <1>2, <2>3
<1> QED
  BY <1>4, <1>5, <1>6 DEF CreationWhole, OwnerKept

----------------------------------------------------------------------------
(* The events. *)

\* The version of an answered conversation grows only where an event follows, and
\* stays only where nobody was added.
LEMMA VersionMoves ==
  ASSUME CreationTypeOK, BusyInv, PlanInv, CreationNext, NEW c \in Conversations
  PROVE  \/ /\ membership_version'[c] = membership_version[c]
            /\ Participants(c)' \subseteq Participants(c)
         \/ /\ membership_version'[c] = membership_version[c] + 1
            /\ c \notin created' \/ \E w \in Workers : Announces(w, c)'
<1> DEFINE Stays == /\ membership_version'[c] = membership_version[c]
                    /\ Participants(c)' \subseteq Participants(c)
           Grows == /\ membership_version'[c] = membership_version[c] + 1
                    /\ c \notin created' \/ \E w \in Workers : Announces(w, c)'
<1>t. /\ ConversationTypeOK /\ WorkerTypeOK /\ DOMAIN duty = Workers
      /\ conversations \subseteq Conversations
  BY DEF CreationTypeOK, BusyInv
<1>k. UNCHANGED conversation_vars => Stays
  BY DEF conversation_vars, Participants, GetMembers, GetSubscribers
<1>1. ASSUME NEW w \in Workers, CreateConversation(w) \/ CreateDone(w)
      PROVE  UNCHANGED conversation_vars
  BY <1>1 DEF CreateConversation, CreateDone
<1>2. ASSUME NEW w \in Workers, CreateCall(w) PROVE Stays \/ Grows
  <2>1. CASE UNCHANGED conversation_vars
    BY <1>k, <2>1
  <2>2. CASE StoreCall(duty[w].conv, Head(duty[w].calls))
    <3>1. PICK k, call : k = duty[w].conv /\ call = Head(duty[w].calls)
      OBVIOUS
    <3>2. k \in Conversations /\ k \notin created'
      BY <1>2, <1>t, <3>1 DEF CreateCall, PlanInv, BusyInv, history_vars
    <3>3. CASE AddMember(k, call.user, call.role)
      BY <1>t, <3>2, <3>3 DEF AddMember, BumpMembershipVersion, ConversationTypeOK, Participants,
         GetMembers, GetSubscribers
    <3>4. CASE Subscribe(k, call.user)
      BY <1>t, <3>2, <3>4 DEF Subscribe, BumpMembershipVersion, ConversationTypeOK, Participants,
         GetMembers, GetSubscribers
    <3> QED
      BY <2>2, <3>1, <3>3, <3>4 DEF StoreCall
  <2> QED
    BY <1>2, <2>1, <2>2 DEF CreateCall
<1>3. ASSUME NEW w \in Workers, HandlerBegin(w) \/ HandlerStep(w)
      PROVE  UNCHANGED conversation_vars
  BY <1>3, BeginFacts, StepFacts
<1>4. ASSUME NEW w \in Workers, HandlerLeaves(w) PROVE Stays \/ Grows
  <2>1. PICK k, u : k = req[w].conv /\ u = req[w].user
    OBVIOUS
  <2>2. k \in Conversations /\ u \in Users
    BY <1>4, <2>1, RequestTyped DEF HandlerLeaves, RemoveMemberStore, UnsubscribeChannelStore
  <2>3. Announces(w, k)'
    BY <1>4, <1>t, <2>1 DEF HandlerLeaves, RemoveMemberStore, UnsubscribeChannelStore, Continue,
       Goto, Announces, PurgeLabels, WorkerTypeOK
  <2>4. CASE RemoveMember(k, u)
    BY <1>t, <2>2, <2>3, <2>4 DEF RemoveMember, BumpMembershipVersion, Participants, GetMembers,
       GetSubscribers, ConversationTypeOK
  <2>5. CASE Unsubscribe(k, u)
    BY <1>t, <2>2, <2>3, <2>5 DEF Unsubscribe, BumpMembershipVersion, Participants, GetMembers,
       GetSubscribers, ConversationTypeOK
  <2> QED
    BY <1>4, <2>1, <2>4, <2>5 DEF HandlerLeaves, RemoveMemberStore, UnsubscribeChannelStore
<1>5. ASSUME NEW w \in Workers, HandlerDone(w) PROVE Stays \/ Grows
  <2>1. PICK k, u, role : k = req[w].conv /\ u = req[w].user /\ role = req[w].role
    OBVIOUS
  <2>2. k \in Conversations /\ u \in Users
    BY <1>5, <2>1, RequestTyped DEF HandlerDone, AddMemberStore, SubscribeChannelStore, PurgeDone
  <2>3. CASE UNCHANGED conversation_vars
    BY <1>k, <2>3
  <2>4. CASE u \in users /\ (AddMember(k, u, role) \/ Subscribe(k, u))
    <3>1. Announces(w, k)'
      BY <1>5, <1>t, <2>1, <2>4 DEF HandlerDone, Announces, Announce
    <3>2. CASE AddMember(k, u, role)
      BY <1>t, <2>2, <3>1, <3>2 DEF AddMember, BumpMembershipVersion, ConversationTypeOK,
         Participants, GetMembers, GetSubscribers
    <3>3. CASE Subscribe(k, u)
      BY <1>t, <2>2, <3>1, <3>3 DEF Subscribe, BumpMembershipVersion, ConversationTypeOK,
         Participants, GetMembers, GetSubscribers
    <3> QED
      BY <2>4, <3>2, <3>3
  <2> QED
    BY <1>5, <2>1, <2>3, <2>4 DEF HandlerDone, AddMemberStore, SubscribeChannelStore, PurgeDone
<1>6. ASSUME NEW w \in Workers,
             NotifyVersion(w) \/ NotifyMembers(w) \/ NotifyDevices(w) \/ NotifyDevice(w)
               \/ NotifySubscribers(w)
      PROVE  UNCHANGED conversation_vars
  BY <1>6 DEF NotifyVersion, NotifyMembers, NotifyDevices, NotifyDevice, NotifySubscribers,
     Notifying, Duty
<1>7. ASSUME NEW u \in Users, AccountDeleted(u) PROVE Stays
  BY <1>7, <1>t DEF AccountDeleted, Participants, GetMembers, GetSubscribers, ConversationTypeOK
<1>8. ASSUME CreationCrash PROVE UNCHANGED conversation_vars
  BY <1>8 DEF CreationCrash
<1> HIDE DEF Stays, Grows
<1>9. Stays \/ Grows
  BY <1>k, <1>1, <1>2, <1>3, <1>4, <1>5, <1>6, <1>7, <1>8 DEF CreationNext
<1> QED
  BY <1>9 DEF Stays, Grows

\* Every step keeps the versions of the events below that of the conversation.
LEMMA VersionStep ==
  ASSUME CreationTypeOK, BusyInv, PlanInv, VersionInv, CreationNext
  PROVE  VersionInv'
<1>t. /\ announced \in [Conversations -> [Devices -> Nat]]
      /\ membership_version \in [Conversations -> Nat] /\ DOMAIN duty = Workers
      /\ conversations \subseteq Conversations
      /\ \A w \in Workers : duty[w].do # "none" => duty[w].conv \in Conversations
  BY DEF CreationTypeOK, ConversationTypeOK, BusyInv
<1>g. \A c \in Conversations : /\ membership_version'[c] \in Nat
                               /\ membership_version'[c] >= membership_version[c]
  BY <1>t, VersionMoves, SMT
<1> DEFINE Calm == /\ crashes' \in Nat /\ UNCHANGED <<connected, announced>>
                   /\ \A v \in Workers :
                        duty'[v] = duty[v] \/ duty'[v].do \notin {"members", "notify"}
<1>k. Calm => VersionInv'
  BY <1>t, <1>g, SMT DEF VersionInv
<1>1. ASSUME NEW w \in Workers, CreateConversation(w) PROVE Calm
  BY <1>1, <1>t, SMT DEF CreateConversation, other_vars, delivery_vars, Creating, VersionInv
<1>2. ASSUME NEW w \in Workers, CreateCall(w) PROVE Calm
  BY <1>2, <1>t, SMT DEF CreateCall, other_vars, delivery_vars, Creating, NoDuty, VersionInv
<1>3. ASSUME NEW w \in Workers, CreateDone(w) PROVE Calm
  BY <1>3, <1>t DEF CreateDone, other_vars, delivery_vars, Announce, VersionInv
<1>4. ASSUME NEW w \in Workers, HandlerBegin(w) \/ HandlerStep(w) PROVE Calm
  BY <1>4, BeginFacts, StepFacts DEF delivery_vars, VersionInv
<1>5. ASSUME NEW w \in Workers, HandlerLeaves(w) PROVE Calm
  BY <1>5 DEF HandlerLeaves, RemoveMemberStore, UnsubscribeChannelStore, delivery_vars, VersionInv
<1>6. ASSUME NEW w \in Workers, HandlerDone(w) PROVE Calm
  BY <1>6, <1>t DEF HandlerDone, AddMemberStore, SubscribeChannelStore, PurgeDone, delivery_vars,
     Announce, VersionInv
<1>7. ASSUME NEW w \in Workers, NotifyVersion(w) PROVE VersionInv'
  <2>1. PICK c : c = duty[w].conv
    OBVIOUS
  <2>2. /\ duty' = [duty EXCEPT ![w] = [do |-> "members", conv |-> c,
                                        version |-> membership_version[c]]]
        /\ UNCHANGED <<crashes, connected, announced, membership_version>> /\ c \in Conversations
    BY <1>7, <1>t, <2>1 DEF NotifyVersion, Duty, other_vars, delivery_vars, conversation_vars
  <2> QED
    BY <1>t, <2>2, SMT DEF VersionInv
<1>8. ASSUME NEW w \in Workers,
             NotifyMembers(w) \/ NotifyDevices(w) \/ NotifyDevice(w) \/ NotifySubscribers(w)
      PROVE  VersionInv'
  <2>1. UNCHANGED <<crashes, connected, membership_version>>
    BY <1>8 DEF NotifyMembers, NotifyDevices, NotifyDevice, NotifySubscribers,
       Notifying, Duty, other_vars, delivery_vars, conversation_vars
  <2>2. duty[w].do \in {"members", "notify"} /\ duty[w].conv \in Conversations
    BY <1>8, <1>t DEF NotifyMembers, NotifyDevices, NotifyDevice, NotifySubscribers
  <2>3. /\ duty'[w].do \in {"none", "notify"}
        /\ duty'[w].do = "notify" =>
             duty'[w].conv = duty[w].conv /\ duty'[w].version = duty[w].version
    <3>1. ASSUME NEW list, NEW us, NEW ds, NEW seen, Notifying(w, list, us, ds, seen)
          PROVE  /\ duty'[w].do = "notify"
                 /\ duty'[w].conv = duty[w].conv /\ duty'[w].version = duty[w].version
      BY <1>t, <3>1 DEF Notifying, Duty
    <3>2. Duty(w, NoDuty) => duty'[w].do = "none"
      BY <1>t, SMT DEF Duty, NoDuty
    <3> QED
      BY <1>8, <3>1, <3>2 DEF NotifyMembers, NotifyDevices, NotifyDevice, NotifySubscribers
  <2>4. \A v \in Workers \ {w} : duty'[v] = duty[v]
    BY <1>8, <1>t DEF NotifyMembers, NotifyDevices, NotifyDevice, NotifySubscribers,
       Notifying, Duty
  <2>5. \A c \in Conversations, d \in Devices : announced'[c][d] <= membership_version[c]
    <3>1. CASE UNCHANGED announced
      BY <3>1 DEF VersionInv
    <3>2. ASSUME NEW e, announced' = [announced EXCEPT ![duty[w].conv][e] = duty[w].version]
          PROVE  \A c \in Conversations, d \in Devices : announced'[c][d] <= membership_version[c]
      BY <1>t, <2>2, <3>2 DEF VersionInv
    <3> QED
      BY <1>8, <3>1, <3>2 DEF NotifyMembers, NotifyDevices, NotifyDevice, NotifySubscribers
  <2> QED
    BY <2>1, <2>2, <2>3, <2>4, <2>5 DEF VersionInv
<1>9. ASSUME NEW u \in Users, AccountDeleted(u) PROVE Calm
  BY <1>9 DEF AccountDeleted, other_vars, delivery_vars, VersionInv
<1>10. ASSUME CreationCrash PROVE Calm
  BY <1>10, SMT DEF CreationCrash, delivery_vars, NoDuty, VersionInv
<1> HIDE DEF Calm
<1> QED
  BY <1>k, <1>1, <1>2, <1>3, <1>4, <1>5, <1>6, <1>7, <1>8, <1>9, <1>10 DEF CreationNext

\* A thread that owes a device the current version still does, or has sent it.
LEMMA OwesKept ==
  ASSUME CreationTypeOK, BusyInv, VersionInv, CreationNext, ~ CreationCrash,
         NEW v \in Workers, NEW c \in Conversations, NEW d \in Devices,
         Owes(v, c, d), membership_version'[c] = membership_version[c],
         devices[d] = "active", Owner[d] \in Participants(c)
  PROVE  Owes(v, c, d)' \/ announced'[c][d] = membership_version[c]
<1>t. WorkerTypeOK /\ DOMAIN duty = Workers
  BY DEF CreationTypeOK, BusyInv
<1>k. UNCHANGED <<pc, req, duty>> => Owes(v, c, d)'
  BY DEF Owes, Announces
<1>1. ASSUME NEW w \in Workers, CreateConversation(w) PROVE Owes(v, c, d)'
  BY <1>1, <1>t, SMT DEF CreateConversation, Free, NoDuty, Owes, Announces, PurgeLabels, worker_vars
<1>2. ASSUME NEW w \in Workers, CreateCall(w) PROVE Owes(v, c, d)'
  BY <1>2, <1>t DEF CreateCall, BusyInv, Owes, Announces, PurgeLabels, worker_vars
<1>3. ASSUME NEW w \in Workers, CreateDone(w) PROVE Owes(v, c, d)'
  BY <1>3, <1>t DEF CreateDone, BusyInv, Owes, Announces, PurgeLabels, worker_vars
<1>4. ASSUME NEW w \in Workers, HandlerBegin(w) PROVE Owes(v, c, d)'
  <2>1. Free(w) /\ UNCHANGED duty /\ \E r, label : Begin(w, r, label)
    BY <1>4, BeginFacts
  <2> QED
    BY <1>t, <2>1 DEF Free, NoDuty, Begin, Goto, WorkerTypeOK, Owes, Announces, PurgeLabels
<1>5. ASSUME NEW w \in Workers, HandlerStep(w) PROVE Owes(v, c, d)'
  <2>1. UNCHANGED duty
    BY <1>5, StepFacts
  <2>2. CASE pc[w] = "count" /\ (Finish(w) \/ Continue(w, "add"))
    BY <1>t, <2>1, <2>2 DEF Finish, Continue, Goto, WorkerTypeOK, BusyInv, Owes, Announces,
       PurgeLabels
  <2>3. CASE /\ UNCHANGED pc \/ \E label \in PurgeLabels : pc' = [pc EXCEPT ![w] = label]
             /\ UNCHANGED req /\ pc[w] \in PurgeLabels
    BY <1>t, <2>1, <2>3 DEF WorkerTypeOK, Owes, Announces
  <2> QED
    BY <1>5, <2>2, <2>3, StepFacts
<1>6. ASSUME NEW w \in Workers, HandlerLeaves(w) PROVE Owes(v, c, d)'
  BY <1>6, <1>t DEF HandlerLeaves, RemoveMemberStore, UnsubscribeChannelStore, Continue, Goto,
     WorkerTypeOK, BusyInv, Owes, Announces, PurgeLabels
<1>7. ASSUME NEW w \in Workers, HandlerDone(w) PROVE Owes(v, c, d)'
  <2>1. pc' = [pc EXCEPT ![w] = "idle"] /\ req' = [req EXCEPT ![w] = NoRequest]
    BY <1>7 DEF HandlerDone, AddMemberStore, SubscribeChannelStore, PurgeDone, Finish, Goto
  <2>2. pc[w] \in {"add", "subscribe", "purge_queue"} /\ duty[w].do = "none"
    BY <1>7 DEF HandlerDone, AddMemberStore, SubscribeChannelStore, PurgeDone, BusyInv
  <2>3. CASE v # w
    BY <1>7, <1>t, <2>1, <2>3 DEF HandlerDone, WorkerTypeOK, Owes, Announces
  <2>4. CASE v = w
    <3>1. pc[w] = "purge_queue" /\ req[w].conv = c
      BY <2>2, <2>4 DEF Owes, Announces, PurgeLabels
    <3>2. duty'[w] = Announce(c)
      BY <1>7, <1>t, <3>1 DEF HandlerDone
    <3> QED
      BY <2>4, <3>2, SMT DEF Announce, Owes, Announces
  <2> QED
    BY <2>3, <2>4
<1>8. ASSUME NEW w \in Workers, NotifyVersion(w) PROVE Owes(v, c, d)'
  BY <1>8, <1>t DEF NotifyVersion, Duty, worker_vars, BusyInv, Owes, Announces, PurgeLabels
<1>9. ASSUME NEW w \in Workers, NotifyMembers(w) PROVE Owes(v, c, d)'
  <2>1. UNCHANGED <<pc, req>> /\ pc[w] = "idle"
    BY <1>9 DEF NotifyMembers, Notifying, Duty, worker_vars, BusyInv
  <2>2. CASE v # w
    BY <1>9, <1>t, <2>1, <2>2 DEF NotifyMembers, Notifying, Duty, Owes, Announces
  <2>3. CASE v = w
    <3>1. duty[w].conv = c /\ duty[w].version = membership_version[c]
      BY <1>9, <2>1, <2>3 DEF NotifyMembers, Owes, Announces, PurgeLabels
    <3>2. duty'[w] = [do |-> "notify", conv |-> c, version |-> duty[w].version,
                      list |-> "members", users |-> GetMembers(c), devs |-> {},
                      seen |-> GetMembers(c)]
      BY <1>9, <1>t, <3>1 DEF NotifyMembers, Notifying, Duty
    <3>3. Owner[d] \in GetMembers(c) \/ ConvType[c] = "channel"
      BY DEF Participants
    <3> QED
      BY <2>3, <3>1, <3>2, <3>3, SMT DEF Owes
  <2> QED
    BY <2>2, <2>3
<1>10. ASSUME NEW w \in Workers, NotifyDevices(w) \/ NotifyDevice(w) \/ NotifySubscribers(w)
       PROVE  Owes(v, c, d)' \/ announced'[c][d] = membership_version[c]
  <2>1. UNCHANGED <<pc, req>> /\ pc[w] = "idle" /\ duty[w].do = "notify"
    BY <1>10 DEF NotifyDevices, NotifyDevice, NotifySubscribers, Notifying, Duty, worker_vars,
       BusyInv
  <2>2. CASE v # w
    BY <1>10, <1>t, <2>1, <2>2 DEF NotifyDevices, NotifyDevice, NotifySubscribers, Notifying,
       Duty, Owes, Announces
  <2>3. CASE v = w
    <3>1. /\ duty[w].conv = c /\ duty[w].version = membership_version[c]
          /\ \/ Owner[d] \in duty[w].users
             \/ d \in duty[w].devs
             \/ /\ duty[w].list = "members" /\ ConvType[c] = "channel"
                /\ Owner[d] \notin duty[w].seen
      BY <2>1, <2>3 DEF Owes, Announces, PurgeLabels
    <3>2. CASE NotifyDevices(w)
      <4>1. PICK u \in duty[w].users :
              Notifying(w, duty[w].list, duty[w].users \ {u},
                        {x \in GetDevicesForUser(u) : devices[x] # "revoked"}, duty[w].seen)
        BY <3>2 DEF NotifyDevices
      <4>2. duty'[w] = [do |-> "notify", conv |-> c, version |-> duty[w].version,
                        list |-> duty[w].list, users |-> duty[w].users \ {u},
                        devs |-> {x \in GetDevicesForUser(u) : devices[x] # "revoked"},
                        seen |-> duty[w].seen]
        BY <1>t, <3>1, <4>1 DEF Notifying, Duty
      <4>3. Owner[d] = u => d \in {x \in GetDevicesForUser(u) : devices[x] # "revoked"}
        BY DEF GetDevicesForUser, DevicesOf
      <4>4. duty[w].devs = {}
        BY <3>2 DEF NotifyDevices
      <4> QED
        BY <2>3, <3>1, <4>2, <4>3, <4>4, SMT DEF Owes
    <3>3. CASE NotifyDevice(w)
      <4>1. PICK e \in duty[w].devs :
              /\ Notifying(w, duty[w].list, duty[w].users, duty[w].devs \ {e}, duty[w].seen)
              /\ announced' = IF /\ e \in connected
                                 /\ announced[duty[w].conv][e] < duty[w].version
                                THEN [announced EXCEPT ![duty[w].conv][e] = duty[w].version]
                                ELSE announced
        BY <3>3 DEF NotifyDevice
      <4>2. duty'[w] = [do |-> "notify", conv |-> c, version |-> duty[w].version,
                        list |-> duty[w].list, users |-> duty[w].users,
                        devs |-> duty[w].devs \ {e}, seen |-> duty[w].seen]
        BY <1>t, <3>1, <4>1 DEF Notifying, Duty
      <4>3. CASE e # d
        BY <2>3, <3>1, <4>2, <4>3, SMT DEF Owes
      <4>4. CASE e = d
        <5>1. /\ announced \in [Conversations -> [Devices -> Nat]]
              /\ d \in connected /\ announced[c][d] <= membership_version[c]
              /\ membership_version[c] \in Nat
          BY DEF CreationTypeOK, ConversationTypeOK, VersionInv
        <5> QED
          BY <3>1, <4>1, <4>4, <5>1, SMT
      <4> QED
        BY <4>3, <4>4
    <3>4. CASE NotifySubscribers(w)
      <4>1. /\ duty[w].list = "members" /\ ConvType[c] = "channel"
            /\ Owner[d] \notin duty[w].seen
        BY <3>1, <3>4 DEF NotifySubscribers
      <4>2. duty'[w] = [do |-> "notify", conv |-> c, version |-> duty[w].version,
                        list |-> "subscribers", users |-> GetSubscribers(c) \ duty[w].seen,
                        devs |-> {}, seen |-> duty[w].seen]
        BY <1>t, <3>1, <3>4, <4>1 DEF NotifySubscribers, Notifying, Duty
      <4>3. Owner[d] \in GetSubscribers(c)
        BY <4>1 DEF Participants
      <4>4. /\ duty'[w].do = "notify" /\ duty'[w].conv = c
            /\ duty'[w].version = membership_version'[c] /\ Owner[d] \in duty'[w].users
        BY <3>1, <4>1, <4>2, <4>3, SMT
      <4> QED
        BY <2>3, <4>4 DEF Owes
    <3> QED
      BY <1>10, <3>2, <3>3, <3>4
  <2> QED
    BY <2>2, <2>3
<1>11. ASSUME NEW u \in Users, AccountDeleted(u) PROVE Owes(v, c, d)'
  BY <1>11, <1>k DEF AccountDeleted, worker_vars
<1> QED
  BY <1>1, <1>2, <1>3, <1>4, <1>5, <1>6, <1>7, <1>8, <1>9, <1>10, <1>11 DEF CreationNext

\* Devices go with their account only, and only a crash is counted as one.
LEMMA OnlyDeletion ==
  ASSUME CreationNext
  PROVE  /\ UNCHANGED devices \/ \E u \in Users : AccountDeleted(u)
         /\ UNCHANGED crashes \/ CreationCrash
<1>1. ASSUME NEW w \in Workers, CreateConversation(w) \/ CreateCall(w) \/ CreateDone(w)
      PROVE  UNCHANGED <<devices, crashes>>
  BY <1>1 DEF CreateConversation, CreateCall, CreateDone, device_vars, other_vars
<1>2. ASSUME NEW w \in Workers, HandlerBegin(w) \/ HandlerStep(w)
      PROVE  UNCHANGED <<devices, crashes>>
  BY <1>2, BeginFacts, StepFacts DEF device_vars
<1>3. ASSUME NEW w \in Workers, HandlerLeaves(w) \/ HandlerDone(w)
      PROVE  UNCHANGED <<devices, crashes>>
  BY <1>3 DEF HandlerLeaves, RemoveMemberStore, UnsubscribeChannelStore, HandlerDone,
     AddMemberStore, SubscribeChannelStore, PurgeDone, device_vars
<1>4. ASSUME NEW w \in Workers,
             NotifyVersion(w) \/ NotifyMembers(w) \/ NotifyDevices(w) \/ NotifyDevice(w)
               \/ NotifySubscribers(w)
      PROVE  UNCHANGED <<devices, crashes>>
  BY <1>4 DEF NotifyVersion, NotifyMembers, NotifyDevices, NotifyDevice, NotifySubscribers,
     Notifying, Duty, device_vars, other_vars
<1>5. ASSUME NEW u \in Users, AccountDeleted(u) PROVE UNCHANGED crashes
  BY <1>5 DEF AccountDeleted, other_vars
<1>6. ASSUME CreationCrash PROVE UNCHANGED devices
  BY <1>6 DEF CreationCrash, device_vars
<1> QED
  BY <1>1, <1>2, <1>3, <1>4, <1>5, <1>6 DEF CreationNext

\* Every step keeps the devices owed what they have not been sent.
LEMMA AnnounceStep ==
  ASSUME CreationTypeOK, BusyInv, PlanInv, VersionInv, AnnounceInv, CreationNext
  PROVE  AnnounceInv'
<1> SUFFICES ASSUME crashes' = 0, NEW c \in created', NEW d \in Devices,
                    devices'[d] = "active", Owner[d] \in Participants(c)'
             PROVE  \/ announced'[c][d] = membership_version'[c]
                    \/ \E w \in Workers : Owes(w, c, d)'
  BY DEF AnnounceInv
<1>t. /\ DOMAIN duty = Workers /\ created \subseteq conversations
      /\ conversations \subseteq Conversations
      /\ announced \in [Conversations -> [Devices -> Nat]]
      /\ membership_version \in [Conversations -> Nat]
  BY DEF CreationTypeOK, ConversationTypeOK, BusyInv
<1>c. ~ CreationCrash /\ crashes = 0
  <2>1. ~ CreationCrash
    BY SMT DEF CreationCrash, VersionInv
  <2> QED
    BY <2>1, OnlyDeletion
<1>d. devices[d] = "active"
  BY OnlyDeletion DEF AccountDeleted
<1>a. c \notin created => \E w \in Workers : Owes(w, c, d)'
  <2>1. \/ \E w \in Workers : CreateDone(w)
        \/ UNCHANGED created
    BY BeginFacts, StepFacts DEF CreationNext, CreateConversation, CreateCall, HandlerLeaves,
       HandlerDone, NotifyVersion, NotifyMembers, NotifyDevices, NotifyDevice,
       NotifySubscribers, Notifying, Duty, history_vars, AccountDeleted, CreationCrash
  <2>2. ASSUME NEW w \in Workers, CreateDone(w), c \notin created PROVE Owes(w, c, d)'
    BY <1>t, <2>2 DEF CreateDone, Announce, Owes, Announces
  <2> QED
    BY <2>1, <2>2
<1>1. CASE c \in created /\ membership_version'[c] = membership_version[c]
  <2>1. c \in Conversations /\ membership_version[c] \in Nat
    BY <1>t, <1>1
  <2>2. Owner[d] \in Participants(c)
    BY <1>1, <2>1, VersionMoves, SMT
  <2>3. CASE announced[c][d] = membership_version[c]
    <3>1. \/ UNCHANGED announced
          \/ \E w \in Workers : \E e :
               /\ announced[duty[w].conv][e] < duty[w].version
               /\ duty[w].do = "notify" /\ e \in duty[w].devs
               /\ announced' = [announced EXCEPT ![duty[w].conv][e] = duty[w].version]
      BY BeginFacts, StepFacts DEF CreationNext, CreateConversation, CreateCall, CreateDone,
         HandlerLeaves, HandlerDone, NotifyVersion, NotifyMembers, NotifyDevices, NotifyDevice,
         NotifySubscribers, Notifying, Duty, AccountDeleted, CreationCrash
    <3>2. ASSUME NEW w \in Workers, NEW e, announced[duty[w].conv][e] < duty[w].version,
                 duty[w].do = "notify", e \in duty[w].devs,
                 announced' = [announced EXCEPT ![duty[w].conv][e] = duty[w].version]
          PROVE  announced'[c][d] = announced[c][d]
      <4>1. /\ duty[w].conv \in Conversations /\ e \in Devices /\ duty[w].version \in Nat
            /\ duty[w].version <= membership_version[duty[w].conv]
        BY <1>t, <3>2 DEF BusyInv, VersionInv
      <4>2. ~ (duty[w].conv = c /\ e = d)
        BY <2>1, <2>3, <3>2, <4>1, SMT
      <4> QED
        BY <1>t, <2>1, <3>2, <4>1, <4>2
    <3> QED
      BY <1>1, <2>3, <3>1, <3>2
  <2>4. CASE \E w \in Workers : Owes(w, c, d)
    BY <1>c, <1>d, <1>1, <2>1, <2>2, <2>4, OwesKept
  <2> QED
    BY <1>c, <1>d, <1>1, <2>2, <2>3, <2>4 DEF AnnounceInv
<1>2. CASE c \in created /\ membership_version'[c] # membership_version[c]
  <2>1. \E w \in Workers : Announces(w, c)'
    BY <1>t, <1>2, VersionMoves
  <2> QED
    BY <2>1 DEF Owes
<1> QED
  BY <1>a, <1>1, <1>2

----------------------------------------------------------------------------
(* The size of a group. *)

\* What Room counts is finite.
LEMMA RoomFinite ==
  ASSUME NEW c
  PROVE  /\ IsFiniteSet(GetMembers(c)) /\ IsFiniteSet(Adding(c)) /\ IsFiniteSet(Workers)
         /\ GetMemberCount(c) \in Nat /\ Cardinality(Adding(c)) \in Nat
         /\ Cardinality(Adding(c)) <= Cardinality(Workers) /\ Cardinality(Workers) \in Nat
<1>1. GetMembers(c) \in SUBSET Users /\ Adding(c) \in SUBSET Workers
  BY DEF GetMembers, Adding
<1> QED
  BY <1>1, CreateAssumption, FS_Subset, FS_CardinalityType DEF GetMemberCount

\* The same of the next state.
LEMMA RoomFiniteNext ==
  ASSUME NEW c
  PROVE  /\ IsFiniteSet(GetMembers(c)') /\ IsFiniteSet(Adding(c)')
         /\ GetMemberCount(c)' \in Nat /\ Cardinality(Adding(c)') \in Nat
         /\ Cardinality(Adding(c)') <= Cardinality(Workers)
<1>1. GetMembers(c)' \in SUBSET Users /\ Adding(c)' \in SUBSET Workers
  BY DEF GetMembers, Adding
<1> QED
  BY <1>1, CreateAssumption, FS_Subset, FS_CardinalityType DEF GetMemberCount

\* A set that grows by one element at most has one element more at most.
LEMMA OneMore ==
  ASSUME NEW S, NEW T, NEW x, IsFiniteSet(S), T \subseteq S \cup {x}
  PROVE  Cardinality(T) <= Cardinality(S) + 1
<1>1. /\ IsFiniteSet(S \cup {x}) /\ Cardinality(S) \in Nat
      /\ \/ Cardinality(S \cup {x}) = Cardinality(S)
         \/ Cardinality(S \cup {x}) = Cardinality(S) + 1
  BY FS_AddElement, FS_CardinalityType
<1>2. Cardinality(T) <= Cardinality(S \cup {x}) /\ IsFiniteSet(T) /\ Cardinality(T) \in Nat
  BY <1>1, FS_Subset, FS_CardinalityType
<1> QED
  BY <1>1, <1>2, SMT

\* A step that adds nothing to a group keeps its room.
LEMMA RoomShrinks ==
  ASSUME NEW c, Room(c), conversations \subseteq conversations',
         GetMembers(c)' \subseteq GetMembers(c), Adding(c)' \subseteq Adding(c),
         \A w \in Workers : Creates(w, c)' => Creates(w, c) /\ duty'[w] = duty[w],
         PlanInv,
         \A w \in Workers : pc'[w] \in {"count", "add"} /\ req'[w].conv = c =>
           (pc[w] \in {"count", "add"} /\ req[w].conv = c) \/ GetMembers(c) # {}
  PROVE  Room(c)'
<1>1. /\ GetMemberCount(c)' <= GetMemberCount(c)
      /\ Cardinality(Adding(c)') <= Cardinality(Adding(c))
  BY RoomFinite, RoomFiniteNext, FS_Subset DEF GetMemberCount
<1>2. MaxGroup \in Nat /\ Cardinality(Workers) \in Nat /\ Limit' = Limit /\ Limit \in Int
  BY RoomFinite, LimitsAssumption, SMT DEF Limit
<1>3. GetMemberCount(c)' + Cardinality(Adding(c)') <= GetMemberCount(c) + Cardinality(Adding(c))
  BY <1>1, RoomFinite, RoomFiniteNext, SMT
<1>4. (GetMemberCount(c) + Cardinality(Adding(c)) <= Limit)'
  BY <1>2, <1>3, RoomFinite, RoomFiniteNext, SMT DEF Room
<1>5. ASSUME NEW w \in Workers, Creates(w, c)'
      PROVE  /\ GetMemberCount(c)' + Cardinality(Adding(c)') + Len(duty'[w].calls) <= Limit'
             /\ Len(duty'[w].calls) <= MaxGroup
             /\ \/ Len(duty'[w].calls) < MaxGroup
                \/ /\ GetMembers(c)' = {}
                   /\ \A v \in Workers : pc'[v] \in {"count", "add"} => req'[v].conv # c
  <2>1. /\ duty'[w] = duty[w] /\ Creates(w, c)
        /\ Len(duty[w].calls) \in Nat
    BY <1>5, LenProperties DEF PlanInv, Plan, Creates
  <2>2. GetMemberCount(c)' + Cardinality(Adding(c)') + Len(duty'[w].calls) <= Limit'
    BY <1>2, <1>3, <2>1, RoomFinite, RoomFiniteNext, SMT DEF Room
  <2> QED
    BY <2>1, <2>2 DEF Room
<1> QED
  BY <1>4, <1>5 DEF Room

\* The row of a new group comes before all of its members.
LEMMA RoomCreated ==
  ASSUME CreationTypeOK, BusyInv, MaxGroup >= 2, NEW c \in Conversations, ConvType[c] = "group",
         Room(c), NEW w \in Workers, CreateConversation(w), c \in conversations' \ conversations
  PROVE  Room(c)'
<1>1. PICK r \in CreateRequests :
        /\ conversations' = conversations \cup {r.conv}
        /\ \E calls \in Calls(r) : duty' = [duty EXCEPT ![w] = Creating(r.conv, calls)]
  BY DEF CreateConversation
<1>2. PICK calls \in Calls(r) : duty' = [duty EXCEPT ![w] = Creating(c, calls)]
  BY <1>1
<1>3. Len(calls) <= MaxGroup /\ Len(calls) \in Nat
  BY <1>1, CallsFacts, LenProperties DEF Plan
<1>4. UNCHANGED <<conversation_members, pc, req>>
  BY DEF CreateConversation, conversation_vars, worker_vars
<1>5. GetMembers(c)' = {} /\ GetMembers(c) = {}
  BY <1>4 DEF Room, GetMembers
<1>6. \A v \in Workers : pc'[v] \in {"count", "add"} => req'[v].conv # c
  BY <1>4 DEF BusyInv
<1>7. Adding(c)' = {}
  BY <1>6 DEF Adding
<1>8. GetMemberCount(c)' = 0 /\ Cardinality(Adding(c)') = 0
  BY <1>5, <1>7, FS_EmptySet DEF GetMemberCount
<1>9. Cardinality(Workers) >= 1
  BY CreateAssumption, FS_EmptySet, FS_CardinalityType, SMT
<1>10. Cardinality(Workers) \in Nat /\ MaxGroup \in Nat
  BY RoomFinite, LimitsAssumption
<1>11. \A v \in Workers : Creates(v, c)' => duty'[v].calls = calls
  BY <1>2 DEF Creates, BusyInv, Creating
<1>12. 0 + 0 + Len(calls) <= Limit /\ 0 + 0 <= Limit /\ Limit' = Limit
  BY <1>3, <1>9, <1>10, SMT DEF Limit
<1>13. (GetMemberCount(c) + Cardinality(Adding(c)) <= Limit)'
  BY <1>8, <1>12
<1>14. ASSUME NEW v \in Workers, Creates(v, c)'
       PROVE  /\ (GetMemberCount(c) + Cardinality(Adding(c)) + Len(duty[v].calls) <= Limit)'
              /\ Len(duty'[v].calls) <= MaxGroup
  BY <1>3, <1>8, <1>11, <1>12, <1>14
<1> QED
  BY <1>5, <1>6, <1>13, <1>14 DEF Room

\* A store call of a creation takes the place of a call still to come.
LEMMA RoomCalled ==
  ASSUME CreationTypeOK, BusyInv, PlanInv, NEW c \in Conversations, ConvType[c] = "group",
         Room(c), NEW w \in Workers, CreateCall(w), duty[w].conv = c,
         duty' = [duty EXCEPT ![w] = Creating(c, Tail(duty[w].calls))],
         StoreCall(c, Head(duty[w].calls))
  PROVE  Room(c)'
<1>1. PICK calls : calls = duty[w].calls
  OBVIOUS
<1>2. /\ calls \in Seq(Call) /\ calls # <<>> /\ Creates(w, c)
      /\ \A v \in Workers : Creates(v, c) => v = w
  BY <1>1 DEF CreateCall, PlanInv, Plan, Creates
<1>3. Len(calls) \in Nat /\ Len(Tail(calls)) = Len(calls) - 1
  BY <1>2, HeadTailProperties, LenProperties
<1>4. UNCHANGED <<pc, req, conversations>>
  BY DEF CreateCall, worker_vars
<1>5. Adding(c)' = Adding(c)
  BY <1>4 DEF Adding
<1>6. GetMembers(c)' \subseteq GetMembers(c) \cup {Head(calls).user}
  BY <1>1, SMT DEF StoreCall, AddMember, Subscribe, GetMembers, CreationTypeOK, ConversationTypeOK
<1>7. GetMemberCount(c)' <= GetMemberCount(c) + 1
  BY <1>6, OneMore, RoomFinite DEF GetMemberCount
<1>8. \A v \in Workers : Creates(v, c)' => v = w
  BY <1>2 DEF Creates, BusyInv
<1>9. duty'[w].calls = Tail(calls)
  BY <1>1 DEF BusyInv, Creating
<1>10. MaxGroup \in Nat /\ Cardinality(Workers) \in Nat /\ Limit \in Int /\ Limit' = Limit
  BY RoomFinite, LimitsAssumption, SMT DEF Limit
<1>11. /\ GetMemberCount(c) + Cardinality(Adding(c)) + Len(calls) <= Limit
       /\ Len(calls) <= MaxGroup
  BY <1>1, <1>2 DEF Room
<1>12. c \in conversations'
  BY <1>4 DEF BusyInv, CreateCall
<1>13. /\ GetMemberCount(c)' + Cardinality(Adding(c)') <= Limit
       /\ GetMemberCount(c)' + Cardinality(Adding(c)') + Len(Tail(calls)) <= Limit
       /\ Len(Tail(calls)) <= MaxGroup /\ Len(Tail(calls)) < MaxGroup
  <2>1. Len(calls) >= 1
    BY <1>2, <1>3, EmptySeq, SMT
  <2> QED
    BY <1>3, <1>5, <1>7, <1>10, <1>11, <2>1, RoomFinite, RoomFiniteNext, SMT
<1> QED
  BY <1>8, <1>9, <1>10, <1>12, <1>13 DEF Room

\* A thread passes the count below the limit only, and after the first call of the
\* creation, whose own thread adds nothing besides.
LEMMA RoomCounted ==
  ASSUME CreationTypeOK, BusyInv, PlanInv, MaxGroup >= 2, NEW c \in Conversations,
         ConvType[c] = "group", Room(c), NEW w \in Workers, pc[w] = "count", req[w].conv = c,
         Continue(w, "add"), ~ (GetMemberCount(c) >= MaxGroup),
         UNCHANGED <<conversation_vars, conversations, duty>>
  PROVE  Room(c)'
<1>1. /\ GetMembers(c)' = GetMembers(c) /\ GetMemberCount(c)' = GetMemberCount(c)
      /\ \A v \in Workers : Creates(v, c)' <=> Creates(v, c)
  BY DEF conversation_vars, GetMembers, GetMemberCount, Creates
<1>2. GetMemberCount(c) <= MaxGroup - 1
  BY RoomFinite, LimitsAssumption, SMT
<1>3. MaxGroup \in Nat /\ Cardinality(Workers) \in Nat /\ Limit \in Int /\ Limit' = Limit
  BY RoomFinite, LimitsAssumption, SMT DEF Limit
<1>4. (GetMemberCount(c) + Cardinality(Adding(c)) <= Limit)'
  BY <1>1, <1>2, <1>3, RoomFinite, RoomFiniteNext, SMT DEF Limit
<1>5. ASSUME NEW v \in Workers, Creates(v, c)
      PROVE  /\ GetMemberCount(c)' + Cardinality(Adding(c)') + Len(duty'[v].calls) <= Limit
             /\ Len(duty'[v].calls) < MaxGroup
  <2>1. Len(duty[v].calls) < MaxGroup /\ Len(duty[v].calls) \in Nat
    BY <1>5, LenProperties DEF Room, PlanInv, Plan, Creates
  <2>2. v \notin Adding(c)'
    BY <1>5 DEF Creates, BusyInv, Adding, Continue, Goto, CreationTypeOK, WorkerTypeOK
  <2>3. Adding(c)' \subseteq Workers \ {v} /\ IsFiniteSet(Workers)
    BY <2>2, CreateAssumption DEF Adding
  <2>4. /\ IsFiniteSet(Workers \ {v})
        /\ Cardinality(Workers \ {v}) = Cardinality(Workers) - 1
    BY <2>3, FS_RemoveElement
  <2>5. Cardinality(Adding(c)') <= Cardinality(Workers) - 1
    BY <2>3, <2>4, FS_Subset, SMT
  <2>6. /\ GetMemberCount(c)' = GetMemberCount(c) /\ GetMemberCount(c) \in Nat
        /\ Cardinality(Adding(c)') \in Nat /\ duty'[v] = duty[v]
    BY <1>1, RoomFinite, RoomFiniteNext
  <2> QED
    BY <1>2, <1>3, <2>1, <2>5, <2>6, SMT DEF Limit
<1>6. ASSUME NEW v \in Workers, Creates(v, c)' PROVE Len(duty'[v].calls) <= MaxGroup
  <2>1. Len(duty'[v].calls) \in Nat
    BY <1>1, <1>6, LenProperties DEF PlanInv, Plan, Creates
  <2> QED
    BY <1>1, <1>3, <1>5, <1>6, <2>1, SMT
<1>7. c \notin conversations' => GetMembers(c)' = {}
  BY <1>1 DEF Room
<1> QED
  BY <1>1, <1>3, <1>4, <1>5, <1>6, <1>7 DEF Room

\* The insert takes the place of the thread that makes it.
LEMMA RoomAdded ==
  ASSUME CreationTypeOK, BusyInv, PlanInv, NEW c \in Conversations,
         Room(c), NEW w \in Workers, pc[w] = "add", req[w].conv = c, Finish(w),
         NEW u, GetMembers(c)' \subseteq GetMembers(c) \cup {u}, UNCHANGED conversations,
         \A v \in Workers : Creates(v, c)' => Creates(v, c) /\ duty'[v] = duty[v]
  PROVE  Room(c)'
<1>1. Adding(c)' \subseteq Adding(c) \ {w} /\ w \in Adding(c)
  BY DEF Adding, Finish, Goto, CreationTypeOK, WorkerTypeOK
<1>2. /\ IsFiniteSet(Adding(c) \ {w})
      /\ Cardinality(Adding(c) \ {w}) = Cardinality(Adding(c)) - 1
  BY <1>1, RoomFinite, FS_RemoveElement
<1>3. Cardinality(Adding(c)') <= Cardinality(Adding(c)) - 1
  BY <1>1, <1>2, FS_Subset, SMT
<1>4. GetMemberCount(c)' <= GetMemberCount(c) + 1
  BY OneMore, RoomFinite DEF GetMemberCount
<1>5. MaxGroup \in Nat /\ Cardinality(Workers) \in Nat /\ Limit \in Int /\ Limit' = Limit
  BY RoomFinite, LimitsAssumption, SMT DEF Limit
<1>6. GetMemberCount(c)' + Cardinality(Adding(c)') <= GetMemberCount(c) + Cardinality(Adding(c))
  BY <1>3, <1>4, RoomFinite, RoomFiniteNext, SMT
<1>7. (GetMemberCount(c) + Cardinality(Adding(c)) <= Limit)'
  BY <1>5, <1>6, RoomFinite, RoomFiniteNext, SMT DEF Room
<1>8. ASSUME NEW v \in Workers, Creates(v, c)'
      PROVE  /\ (GetMemberCount(c) + Cardinality(Adding(c)) + Len(duty[v].calls) <= Limit)'
             /\ Len(duty'[v].calls) <= MaxGroup /\ Len(duty'[v].calls) < MaxGroup
  <2>1. /\ duty'[v] = duty[v] /\ Creates(v, c) /\ Len(duty[v].calls) \in Nat
        /\ Len(duty[v].calls) < MaxGroup
    BY <1>8, LenProperties DEF PlanInv, Plan, Creates, Room
  <2>2. /\ GetMemberCount(c) + Cardinality(Adding(c)) + Len(duty[v].calls) <= Limit
        /\ GetMemberCount(c) \in Nat /\ Cardinality(Adding(c)) \in Nat
        /\ GetMemberCount(c)' \in Nat /\ Cardinality(Adding(c)') \in Nat
    BY <2>1, RoomFinite, RoomFiniteNext DEF Room
  <2> QED
    BY <1>5, <1>6, <2>1, <2>2, SMT
<1>9. c \in conversations'
  BY DEF BusyInv
<1> QED
  BY <1>7, <1>8, <1>9 DEF Room

\* Every step keeps the room of every group.
LEMMA RoomStep ==
  ASSUME CreationTypeOK, BusyInv, PlanInv, RoomInv, MaxGroup >= 2, CreationNext
  PROVE  RoomInv'
<1> SUFFICES ASSUME NEW c \in Conversations, ConvType[c] = "group" PROVE Room(c)'
  BY DEF RoomInv
<1>t. /\ Room(c) /\ ConversationTypeOK /\ WorkerTypeOK /\ DOMAIN duty = Workers
      /\ \A w \in Workers : duty[w].do # "none" => pc[w] = "idle" /\ duty[w].conv \in conversations
  BY DEF RoomInv, CreationTypeOK, BusyInv
<1> DEFINE Same == UNCHANGED conversation_members
           Quiet == /\ Adding(c)' \subseteq Adding(c)
                    /\ \A w \in Workers : pc'[w] \in {"count", "add"} /\ req'[w].conv = c =>
                         (pc[w] \in {"count", "add"} /\ req[w].conv = c) \/ GetMembers(c) # {}
           Idle == \A w \in Workers : Creates(w, c)' => Creates(w, c) /\ duty'[w] = duty[w]
<1>m. Same => GetMembers(c)' = GetMembers(c)
  BY DEF GetMembers
<1>q. UNCHANGED worker_vars => Quiet
  BY DEF worker_vars, Adding
<1>f. ASSUME NEW w \in Workers, Finish(w) PROVE Quiet
  BY <1>f, <1>t DEF Finish, Goto, WorkerTypeOK, Adding
<1>i. UNCHANGED duty => Idle
  BY DEF Creates
<1>k. ASSUME GetMembers(c)' \subseteq GetMembers(c), Quiet, Idle, conversations \subseteq conversations'
      PROVE  Room(c)'
  BY <1>k, <1>t, RoomShrinks
<1> HIDE DEF Quiet, Idle
<1>1. ASSUME NEW w \in Workers, CreateConversation(w) PROVE Room(c)'
  <2>1. CASE c \in conversations' \ conversations
    BY <1>1, <1>t, <2>1, RoomCreated
  <2>2. CASE c \notin conversations' \ conversations
    <3>1. Same /\ UNCHANGED worker_vars /\ conversations \subseteq conversations'
      BY <1>1 DEF CreateConversation, conversation_vars
    <3>2. PICK r \in CreateRequests : /\ conversations' = conversations \cup {r.conv}
                                      /\ r.conv \notin conversations
                                      /\ \E calls : duty' = [duty EXCEPT ![w] = Creating(r.conv, calls)]
      BY <1>1 DEF CreateConversation
    <3>3. Idle
      BY <1>t, <2>2, <3>2, SMT DEF Idle, Creates, Creating
    <3> QED
      BY <1>k, <1>m, <1>q, <3>1, <3>3
  <2> QED
    BY <2>1, <2>2
<1>2. ASSUME NEW w \in Workers, CreateCall(w) PROVE Room(c)'
  <2>0. UNCHANGED worker_vars /\ UNCHANGED conversations
    BY <1>2 DEF CreateCall
  <2>1. CASE duty' = [duty EXCEPT ![w] = NoDuty] /\ UNCHANGED conversation_vars
    <3>1. Idle
      BY <1>t, <2>1 DEF NoDuty, Idle, Creates
    <3> QED
      BY <1>k, <1>m, <1>q, <2>0, <2>1, <3>1 DEF conversation_vars
  <2>2. CASE /\ StoreCall(duty[w].conv, Head(duty[w].calls))
             /\ duty' = [duty EXCEPT ![w] = Creating(duty[w].conv, Tail(duty[w].calls))]
    <3>1. CASE duty[w].conv = c
      BY <1>2, <1>t, <2>2, <3>1, RoomCalled
    <3>2. CASE duty[w].conv # c
      <4>1. GetMembers(c)' = GetMembers(c)
        BY <1>t, <2>2, <3>2 DEF StoreCall, AddMember, Subscribe, GetMembers, ConversationTypeOK
      <4>2. Idle
        BY <1>t, <2>2, <3>2 DEF Creating, Idle, Creates
      <4> QED
        BY <1>k, <1>q, <2>0, <4>1, <4>2
    <3> QED
      BY <3>1, <3>2
  <2> QED
    BY <1>2, <2>1, <2>2 DEF CreateCall
<1>3. ASSUME NEW w \in Workers, CreateDone(w) PROVE Room(c)'
  <2>1. Same /\ UNCHANGED <<worker_vars, conversations>>
    BY <1>3 DEF CreateDone, conversation_vars
  <2>2. Idle
    BY <1>3, <1>t DEF CreateDone, Announce, Idle, Creates
  <2> QED
    BY <1>k, <1>m, <1>q, <2>1, <2>2
<1>4. ASSUME NEW w \in Workers, HandlerBegin(w) PROVE Room(c)'
  <2>1. PICK r \in Requests, label \in {"count", "remove", "subscribe", "unsubscribe"} :
          /\ Begin(w, r, label)
          /\ label = "count" => r \in AddRequest /\ HasAdminRole(r.conv, r.actor)
    BY <1>4, BeginFacts
  <2>2. Same /\ UNCHANGED <<conversations, duty>>
    BY <1>4, BeginFacts DEF conversation_vars
  <2>3. label = "count" /\ r.conv = c => GetMembers(c) # {}
    BY <2>1 DEF AddRequest, HasAdminRole, GetMembers
  <2>4. Quiet
    BY <1>t, <2>1, <2>3 DEF Begin, Goto, WorkerTypeOK, Quiet, Adding
  <2> QED
    BY <1>i, <1>k, <1>m, <2>2, <2>4
<1>5. ASSUME NEW w \in Workers, HandlerStep(w) PROVE Room(c)'
  <2>0. UNCHANGED <<conversation_vars, conversations, duty>>
    BY <1>5, StepFacts
  <2>1. GetMembers(c)' = GetMembers(c)
    BY <1>m, <2>0 DEF conversation_vars
  <2>2. CASE Finish(w)
    BY <1>f, <1>i, <1>k, <2>0, <2>1, <2>2
  <2>3. CASE /\ pc[w] = "count" /\ Continue(w, "add")
             /\ ~ (GetMemberCount(req[w].conv) >= MaxGroup)
    <3>1. CASE req[w].conv = c
      BY <1>t, <2>0, <2>3, <3>1, RoomCounted
    <3>2. CASE req[w].conv # c
      <4>1. Quiet
        BY <1>t, <2>3, <3>2 DEF Continue, Goto, WorkerTypeOK, Quiet, Adding
      <4> QED
        BY <1>i, <1>k, <2>0, <2>1, <4>1
    <3> QED
      BY <3>1, <3>2
  <2>4. CASE /\ pc[w] \in PurgeLabels
             /\ UNCHANGED pc \/ \E label \in PurgeLabels : pc' = [pc EXCEPT ![w] = label]
             /\ UNCHANGED req
    <3>1. Quiet
      BY <1>t, <2>4 DEF WorkerTypeOK, PurgeLabels, Quiet, Adding
    <3> QED
      BY <1>i, <1>k, <2>0, <2>1, <3>1
  <2> QED
    BY <1>5, <2>2, <2>3, <2>4, StepFacts
<1>6. ASSUME NEW w \in Workers, HandlerLeaves(w) PROVE Room(c)'
  <2>1. GetMembers(c)' \subseteq GetMembers(c)
    BY <1>6, <1>t, SMT DEF HandlerLeaves, RemoveMemberStore, UnsubscribeChannelStore, RemoveMember,
       Unsubscribe, GetMembers, ConversationTypeOK
  <2>2. Quiet
    BY <1>6, <1>t DEF HandlerLeaves, RemoveMemberStore, UnsubscribeChannelStore, Continue, Goto,
       WorkerTypeOK, Quiet, Adding
  <2>3. UNCHANGED <<conversations, duty>>
    BY <1>6 DEF HandlerLeaves
  <2> QED
    BY <1>i, <1>k, <2>1, <2>2, <2>3
<1>7. ASSUME NEW w \in Workers, HandlerDone(w) PROVE Room(c)'
  <2>1. Finish(w) /\ UNCHANGED conversations
    BY <1>7 DEF HandlerDone, AddMemberStore, SubscribeChannelStore, PurgeDone
  <2>2. Idle
    BY <1>7, <1>t DEF HandlerDone, Announce, Idle, Creates
  <2>3. CASE Same
    BY <1>f, <1>k, <1>m, <2>1, <2>2, <2>3
  <2>4. CASE pc[w] = "add" /\ AddMember(req[w].conv, req[w].user, req[w].role)
    <3>1. CASE req[w].conv = c
      <4>1. GetMembers(c)' \subseteq GetMembers(c) \cup {req[w].user}
        BY <1>t, <2>4, <3>1 DEF AddMember, GetMembers, ConversationTypeOK
      <4>2. \A v \in Workers : Creates(v, c)' => Creates(v, c) /\ duty'[v] = duty[v]
        BY <2>2 DEF Idle
      <4>3. PICK u : u = req[w].user
        OBVIOUS
      <4> QED
        BY <1>t, <2>1, <2>4, <3>1, <4>1, <4>2, <4>3, RoomAdded
    <3>2. CASE req[w].conv # c
      <4>1. GetMembers(c)' = GetMembers(c)
        BY <1>t, <2>4, <3>2 DEF AddMember, GetMembers, ConversationTypeOK
      <4> QED
        BY <1>f, <1>k, <2>1, <2>2, <4>1
    <3> QED
      BY <3>1, <3>2
  <2> QED
    BY <1>7, <2>3, <2>4 DEF HandlerDone, AddMemberStore, SubscribeChannelStore, PurgeDone,
       Subscribe, conversation_vars
<1>8. ASSUME NEW w \in Workers,
             NotifyVersion(w) \/ NotifyMembers(w) \/ NotifyDevices(w) \/ NotifyDevice(w)
               \/ NotifySubscribers(w)
      PROVE  Room(c)'
  <2>1. Same /\ UNCHANGED <<worker_vars, conversations>>
    BY <1>8 DEF NotifyVersion, NotifyMembers, NotifyDevices, NotifyDevice, NotifySubscribers,
       Notifying, Duty, conversation_vars
  <2>2. \E next : next.do # "create" /\ duty' = [duty EXCEPT ![w] = next]
    BY <1>8 DEF NotifyVersion, NotifyMembers, NotifyDevices, NotifyDevice, NotifySubscribers,
       Notifying, Duty, NoDuty
  <2>3. Idle
    BY <1>t, <2>2 DEF Idle, Creates
  <2> QED
    BY <1>k, <1>m, <1>q, <2>1, <2>3
<1>9. ASSUME NEW u \in Users, AccountDeleted(u) PROVE Room(c)'
  <2>1. GetMembers(c)' \subseteq GetMembers(c)
    BY <1>9, <1>t DEF AccountDeleted, GetMembers, ConversationTypeOK
  <2>2. UNCHANGED <<worker_vars, conversations, duty>>
    BY <1>9 DEF AccountDeleted
  <2> QED
    BY <1>i, <1>k, <1>q, <2>1, <2>2
<1>10. ASSUME CreationCrash PROVE Room(c)'
  <2>1. Same /\ UNCHANGED conversations
    BY <1>10 DEF CreationCrash, conversation_vars
  <2>2. Quiet /\ Idle
    BY <1>10 DEF CreationCrash, NoDuty, Quiet, Idle, Creates, Adding
  <2> QED
    BY <1>k, <1>m, <2>1, <2>2
<1> QED
  BY <1>1, <1>2, <1>3, <1>4, <1>5, <1>6, <1>7, <1>8, <1>9, <1>10 DEF CreationNext

----------------------------------------------------------------------------
(* The theorems. *)

\* Before the first request nothing exists.
LEMMA CreationStart == CreationInit => CreationInv /\ (MaxGroup >= 2 => RoomInv)
<1> SUFFICES ASSUME CreationInit PROVE CreationInv /\ (MaxGroup >= 2 => RoomInv)
  OBVIOUS
<1>1. CreationTypeOK
  BY CreateAssumption, TypesAssumption DEF CreationInit, CreationTypeOK, ConversationTypeOK,
     DeviceTypeOK, WorkerTypeOK, WorkerInit, Labels
<1>2. BusyInv /\ PlanInv /\ CreationWhole
  BY DEF CreationInit, WorkerInit, BusyInv, PlanInv, CreationWhole, NoDuty
<1>3. VersionInv /\ AnnounceInv
  <2>1. \A c \in Conversations, d \in Devices : announced[c][d] = 0 /\ membership_version[c] = 0
    BY DEF CreationInit
  <2>2. \A w \in Workers : duty[w].do = "none"
    BY DEF CreationInit, NoDuty
  <2>3. crashes = 0 /\ connected = Devices /\ created = {}
    BY DEF CreationInit
  <2> QED
    BY <2>1, <2>2, <2>3, SMT DEF VersionInv, AnnounceInv
<1>4. ASSUME MaxGroup >= 2 PROVE RoomInv
  <2> SUFFICES ASSUME NEW c \in Conversations PROVE Room(c)
    BY DEF RoomInv
  <2>1. GetMembers(c) = {} /\ Adding(c) = {}
    BY DEF CreationInit, WorkerInit, GetMembers, Adding
  <2>2. GetMemberCount(c) = 0 /\ Cardinality(Adding(c)) = 0
    BY <2>1, FS_EmptySet DEF GetMemberCount
  <2>3. \A w \in Workers : ~ Creates(w, c)
    BY DEF CreationInit, Creates, NoDuty
  <2>4. 0 + 0 <= Limit
    BY <1>4, RoomFinite, LimitsAssumption, SMT DEF Limit
  <2> QED
    BY <2>1, <2>2, <2>3, <2>4 DEF Room
<1> QED
  BY <1>1, <1>2, <1>3, <1>4 DEF CreationInv

\* A step that changes no variable keeps both invariants.
LEMMA CreationStutter ==
  ASSUME UNCHANGED creation_vars
  PROVE  (CreationInv => CreationInv') /\ (RoomInv => RoomInv')
<1> USE DEF creation_vars, conversation_vars, device_vars, worker_vars, envelope_vars,
   delivery_vars,
          other_vars, history_vars
<1>1. CreationTypeOK => CreationTypeOK'
  BY DEF CreationTypeOK, ConversationTypeOK, DeviceTypeOK, WorkerTypeOK
<1>2. BusyInv => BusyInv'
  BY DEF BusyInv
<1>3. PlanInv => PlanInv'
  BY SMT DEF PlanInv, Plan, Covered, Has, Participants, GetMembers, GetSubscribers, OwnerKept
<1>4. CreationWhole => CreationWhole'
  BY DEF CreationWhole, Participants, GetMembers, GetSubscribers
<1>5. VersionInv => VersionInv'
  <2>1. /\ crashes' = crashes /\ connected' = connected /\ duty' = duty
        /\ announced' = announced /\ membership_version' = membership_version
    OBVIOUS
  <2> HIDE DEF creation_vars, conversation_vars, device_vars, worker_vars, envelope_vars,
               delivery_vars, other_vars, history_vars
  <2> QED
    BY <2>1, Zenon DEF VersionInv
<1>6. AnnounceInv => AnnounceInv'
  BY SMT DEF AnnounceInv, Owes, Announces, Participants, GetMembers, GetSubscribers
<1>7. RoomInv => RoomInv'
  <2>1. /\ conversations' = conversations /\ duty' = duty /\ pc' = pc /\ req' = req
        /\ conversation_members' = conversation_members
    OBVIOUS
  <2> HIDE DEF creation_vars, conversation_vars, device_vars, worker_vars, envelope_vars,
               delivery_vars, other_vars, history_vars
  <2>2. ASSUME NEW c
        PROVE  /\ GetMembers(c)' = GetMembers(c) /\ GetMemberCount(c)' = GetMemberCount(c)
               /\ Adding(c)' = Adding(c) /\ Limit' = Limit
               /\ \A w \in Workers : Creates(w, c)' <=> Creates(w, c)
    BY <2>1 DEF GetMembers, GetMemberCount, Adding, Limit, Creates
  <2>3. ASSUME NEW c, Room(c) PROVE Room(c)'
    BY <2>1, <2>2, <2>3 DEF Room
  <2> QED
    BY <2>3 DEF RoomInv
<1> QED
  BY <1>1, <1>2, <1>3, <1>4, <1>5, <1>6, <1>7 DEF CreationInv

\* What the threads of CreateDm, CreateGroup and CreateChannel, of the membership
\* handlers and of NotifyMembershipChanged keep between them, for every number
\* of threads, users, devices and requests, across crashes.
THEOREM CreationInvariant == CreationSpec => []CreationInv
<1>1. CreationInit => CreationInv
  BY CreationStart
<1>2. CreationInv /\ [CreationNext]_creation_vars => CreationInv'
  <2> SUFFICES ASSUME CreationInv, [CreationNext]_creation_vars PROVE CreationInv'
    OBVIOUS
  <2>1. CASE UNCHANGED creation_vars
    BY <2>1, CreationStutter
  <2>2. CASE CreationNext
    <3>1. CreationTypeOK /\ BusyInv /\ PlanInv /\ CreationWhole /\ VersionInv /\ AnnounceInv
      BY DEF CreationInv
    <3>2. CreationTypeOK'
      BY <2>2, <3>1, CreationTablesStep, CreationWorkersStep, CreationOtherStep DEF CreationTypeOK
    <3>3. BusyInv' /\ PlanInv' /\ CreationWhole'
      BY <2>2, <3>1, BusyStep, PlanStep, WholeStep
    <3>4. VersionInv' /\ AnnounceInv'
      BY <2>2, <3>1, VersionStep, AnnounceStep
    <3> QED
      BY <3>2, <3>3, <3>4 DEF CreationInv
  <2> QED
    BY <2>1, <2>2
<1> QED
  BY <1>1, <1>2, PTL DEF CreationSpec

\* A conversation whose creation was answered with success has every participant
\* asked for who has not left since, and its owner unless a handler removed or
\* added the creator again, although the rows are written one statement at a time.
THEOREM CreationsWhole == CreationSpec => []CreationWhole
<1>1. CreationInv => CreationWhole
  BY DEF CreationInv
<1> QED
  BY <1>1, CreationInvariant, PTL

\* When no handler runs and the process has not crashed, every active device of a
\* participant has been sent the newest version, in whatever order the events of
\* concurrent handlers reached it.
THEOREM NewestStaysAnnounced == CreationSpec => []NewestAnnounced
<1>1. CreationInv => NewestAnnounced
  <2> SUFFICES ASSUME CreationInv, crashes = 0, \A w \in Workers : Free(w),
                      NEW c \in created, NEW d \in Devices,
                      devices[d] = "active", IsUserInConversation(c, Owner[d])
               PROVE  announced[c][d] = membership_version[c]
    BY DEF NewestAnnounced
  <2>1. Owner[d] \in Participants(c)
    BY DEF IsUserInConversation
  <2>2. \A w \in Workers : ~ Owes(w, c, d)
    BY SMT DEF Free, NoDuty, Owes, Announces, PurgeLabels
  <2> QED
    BY <2>1, <2>2 DEF CreationInv, AnnounceInv
<1> QED
  BY <1>1, CreationInvariant, PTL

\* However the additions of concurrent handlers interleave with a creation, a
\* group stays within twice max_group_size and the number of threads, less three.
\* With a max_group_size below two CreateGroup refuses every request.
THEOREM GroupSizeBounded ==
  ASSUME MaxGroup >= 2
  PROVE  CreationSpec => []CreationOvershoot
<1>1. CreationInit => RoomInv
  BY CreationStart
<1>2. CreationInv /\ RoomInv /\ [CreationNext]_creation_vars => RoomInv'
  BY RoomStep, CreationStutter DEF CreationInv
<1>3. RoomInv => CreationOvershoot
  <2> SUFFICES ASSUME RoomInv, NEW c \in Conversations, ConvType[c] = "group"
               PROVE  GetMemberCount(c) <= MaxGroup + (MaxGroup - 1) + (Cardinality(Workers) - 2)
    BY DEF CreationOvershoot
  <2>1. GetMemberCount(c) + Cardinality(Adding(c)) <= Limit
    BY DEF RoomInv, Room
  <2> QED
    BY <2>1, RoomFinite, LimitsAssumption, SMT DEF Limit
<1> QED
  BY <1>1, <1>2, <1>3, CreationInvariant, PTL DEF CreationSpec
=============================================================================
