----------------------- MODULE ConversationRepository -----------------------
(***************************************************************************)
(* lib/vox_store/conversation_repository: the tables conversation_members  *)
(* and channel_subscriptions and the column conversations.membership_      *)
(* version.  Every operator is one repository call.  A call takes the      *)
(* database mutex for its whole body, so each one is a single step; a      *)
(* service that makes several calls is interleaved between them.           *)
(***************************************************************************)
EXTENDS VoxTypes, FiniteSets

VARIABLES
  conversation_members,   \* [Conversations -> [Users -> role or "none"]]
  channel_subscriptions,  \* [Conversations -> SUBSET Users]
  membership_version      \* [Conversations -> Nat]

conversation_vars ==
  <<conversation_members, channel_subscriptions, membership_version>>

ConversationTypeOK ==
  /\ conversation_members \in
       [Conversations -> [Users -> MemberRole \cup {"none"}]]
  /\ channel_subscriptions \in [Conversations -> SUBSET Users]
  /\ membership_version \in [Conversations -> Nat]

----------------------------------------------------------------------------
(* Queries. *)

GetMembers(c) == {u \in Users : conversation_members[c][u] # "none"}

GetSubscribers(c) == channel_subscriptions[c]

GetMemberCount(c) == Cardinality(GetMembers(c))

\* A channel has subscribers, every other conversation has members.
Participants(c) ==
  IF ConvType[c] = "channel" THEN GetSubscribers(c) ELSE GetMembers(c)

IsUserInConversation(c, u) == u \in Participants(c)

\* GetMember returns a row and its role is owner or admin.
HasAdminRole(c, u) == conversation_members[c][u] \in {"owner", "admin"}

----------------------------------------------------------------------------
(* Updates. *)

BumpMembershipVersion(c) ==
  membership_version' = [membership_version EXCEPT ![c] = @ + 1]

\* The upsert revives a removed row, overwrites the role of an active one,
\* and bumps the version in either case.
AddMember(c, u, role) ==
  /\ conversation_members' = [conversation_members EXCEPT ![c][u] = role]
  /\ BumpMembershipVersion(c)
  /\ UNCHANGED channel_subscriptions

\* Mutant of RemoveMember: the removal is written into the role column.
RemoveMemberByRole(c, u) ==
  /\ conversation_members' = [conversation_members EXCEPT ![c][u] = "removed"]
  /\ BumpMembershipVersion(c)
  /\ UNCHANGED channel_subscriptions

\* Succeeds also when no active row matches; only then no bump.
RemoveMember(c, u) ==
  /\ conversation_members' = [conversation_members EXCEPT ![c][u] = "none"]
  /\ IF u \in GetMembers(c)
       THEN BumpMembershipVersion(c)
       ELSE UNCHANGED membership_version
  /\ UNCHANGED channel_subscriptions

Subscribe(c, u) ==
  /\ channel_subscriptions' = [channel_subscriptions EXCEPT ![c] = @ \cup {u}]
  /\ BumpMembershipVersion(c)
  /\ UNCHANGED conversation_members

Unsubscribe(c, u) ==
  /\ channel_subscriptions' = [channel_subscriptions EXCEPT ![c] = @ \ {u}]
  /\ IF u \in channel_subscriptions[c]
       THEN BumpMembershipVersion(c)
       ELSE UNCHANGED membership_version
  /\ UNCHANGED conversation_members
=============================================================================
