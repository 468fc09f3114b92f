------------------------------ MODULE MCRelay ------------------------------
(***************************************************************************)
(* Instances of Relay for TLC: user u1 created the conversations, u2 joins *)
(* and leaves; d1 and d1b are u1's devices, d2 is u2's.                    *)
(***************************************************************************)
EXTENDS Relay

CONSTANTS u1, u2, u3, u4, d1, d1b, d2, e1, e2, g, ch, w1, w2

MCOwner == [d \in Devices |-> IF d = d2 THEN u2 ELSE u1]
MCConvType == [c \in Conversations |-> IF c = ch THEN "channel" ELSE "group"]
MCCreatedBy == [c \in Conversations |-> u1]
MCInitMembers == [c \in Conversations |-> {u1, u2}]
CreatorOnly == [c \in Conversations |-> {u1}]

\* Both envelopes go to the only conversation; u1 sends.
MCEnvConv == [e \in Envelopes |-> CHOOSE c \in Conversations : TRUE]
MCEnvSender == [e \in Envelopes |-> d1]

Sends == {[op |-> "send", env |-> e] : e \in Envelopes}
Add(u) == [op |-> "add", conv |-> g, actor |-> u1, user |-> u,
           role |-> "member"]
Remove(u) == [op |-> "remove", conv |-> g, actor |-> u1, user |-> u]

GroupRequests == Sends \cup {Add(u2), Remove(u2)}
JoinRequests ==
  Sends \cup {Add(u) : u \in Users \ {u1}}
ChannelRequests ==
  Sends \cup {[op |-> o, conv |-> ch, user |-> u2] :
                o \in {"subscribe", "unsubscribe"}}
=============================================================================
