----------------------------- MODULE MCContent -----------------------------
(***************************************************************************)
(* Creation and Attachments for TLC, side by side: in each behaviour one   *)
(* of them, chosen at the start, runs.  u1 creates the conversations and   *)
(* there is no account u5; d1 and d2 are devices of u1 and u2.  a1 and a2  *)
(* fit the quota one by one but not together, a3 is larger than one upload *)
(* may be and a4 is empty.                                                 *)
(***************************************************************************)
EXTENDS Creation, Attachments, TLC

CONSTANTS u1, u2, u3, u4, u5, d1, d2, dm, g, ch, w1, w2, a1, a2, a3, a4, k1, k2

MCOwner == [d \in Devices |-> IF d = d1 THEN u1 ELSE u2]
MCConvType ==
  [c \in Conversations |->
     CASE c = dm -> "dm" [] c = g -> "group" [] c = ch -> "channel"]
MCCreatedBy == [c \in Conversations |-> u1]
NoFunction == [e \in {} |-> e]

MCCreateRequests ==
  {[conv |-> dm, peer |-> u] : u \in {u1, u3}}
    \cup {[conv |-> g, members |-> U] : U \in {{u1, u2}, {u1, u5}, {u1, u2, u3}}}
    \cup {[conv |-> ch, admins |-> <<u3, u1>>, subscribers |-> <<u2, u1>>],
          [conv |-> ch, admins |-> <<u1>>, subscribers |-> <<u2, u5>>]}

MCRequests ==
  {[op |-> "add", conv |-> g, actor |-> u1, user |-> u, role |-> "member"] :
     u \in {u1, u2, u4, u5}}
    \cup {[op |-> "remove", conv |-> g, actor |-> u1, user |-> u] : u \in {u1, u2}}
    \cup {[op |-> o, conv |-> ch, user |-> u2] : o \in {"subscribe", "unsubscribe"}}

VARIABLE part    \* the component that runs

MCUploader == [a \in Uploads |-> u1]
MCSize == [a \in Uploads |-> CASE a = a3 -> 3 [] a = a4 -> 0 [] OTHER -> 2]

MCInit ==
  /\ part \in {"creation", "attachments"}
  /\ CreationInit /\ UploadInit

MCNext ==
  /\ UNCHANGED part
  /\ \/ part = "creation" /\ CreationNext /\ UNCHANGED upload_vars
     \/ part = "attachments" /\ UploadNext /\ UNCHANGED creation_vars

MCSpec == MCInit /\ [][MCNext]_<<part, creation_vars, upload_vars>>

\* Threads are interchangeable, and so are the chunks.
MCSymmetry == Permutations(Workers) \cup Permutations(Chunks)

----------------------------------------------------------------------------
\* The tables, the files, the handlers and the histories have their types.
ContentTypeOK ==
  CASE part = "creation" -> CreationTypeOK
    [] part = "attachments" -> UploadTypeOK
=============================================================================
