------------------------------ MODULE MCFeeds ------------------------------
(***************************************************************************)
(* SyncRecords and History for TLC, side by side: in each behaviour one of *)
(* them, chosen at the start, runs.  dr is the device that reads, ds the   *)
(* one that sends; two of the limits make limit + 1 fit size_t barely and  *)
(* not at all.                                                             *)
(***************************************************************************)
EXTENDS MCSync, History

CONSTANTS ur, us, dr, ds, cv

VARIABLE part    \* the component that runs

MCOwner == [d \in Devices |-> IF d = dr THEN ur ELSE us]
MCConvType == [c \in Conversations |-> "dm"]
MCCreatedBy == [c \in Conversations |-> us]
MCEnvelopes == 1..3
MCEnvConv == [e \in Envelopes |-> cv]
MCEnvSender == [e \in Envelopes |-> ds]

MCInit ==
  /\ part \in {"records", "history"}
  /\ Init /\ HistoryInit
  /\ part # "history" => route = "pending" /\ ~ encodes

MCNext ==
  /\ UNCHANGED part
  /\ \/ part = "records" /\ Next /\ UNCHANGED history_vars
     \/ part = "history" /\ HistoryNext /\ UNCHANGED vars

all_vars == <<part, vars, history_vars>>

\* The fairness is that of FairSpec.
MCSpec ==
  /\ MCInit /\ [][MCNext]_all_vars
  /\ \A c \in Clients :
       WF_all_vars(part = "records" /\ PollSome(c) /\ UNCHANGED <<part, history_vars>>)

----------------------------------------------------------------------------
\* The tables, the clients and the histories have their types.
FeedsTypeOK ==
  CASE part = "records" -> TypeOK [] part = "history" -> HistoryTypeOK
=============================================================================
