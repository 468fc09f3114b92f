------------------------------ MODULE VoxTypes ------------------------------
(***************************************************************************)
(* The identifiers of message relay (lib/vox_common/types): accounts and   *)
(* devices, conversations and envelopes.  An envelope_id is a              *)
(* client-generated UUID: it names one message of one sender, and sending  *)
(* it again is a retry of the same request.                                *)
(***************************************************************************)
EXTENDS Accounts

CONSTANTS
  Conversations,  \* conversation ids
  ConvType,       \* [Conversations -> ConversationType]
  CreatedBy,      \* [Conversations -> Users]: conversations.created_by
  Envelopes,      \* envelope ids
  EnvConv,        \* [Envelopes -> Conversations]: where the message is sent
  EnvSender       \* [Envelopes -> Devices]: the device that sends it

ConversationType == {"dm", "group", "channel"}

MemberRole == {"owner", "admin", "member"}

ASSUME TypesAssumption ==
  /\ ConvType \in [Conversations -> ConversationType]
  /\ CreatedBy \in [Conversations -> Users]
  /\ EnvConv \in [Envelopes -> Conversations]
  /\ EnvSender \in [Envelopes -> Devices]
=============================================================================
