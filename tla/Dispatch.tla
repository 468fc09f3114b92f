------------------------------ MODULE Dispatch ------------------------------
(***************************************************************************)
(* The storage_pool threads that run the HTTP handlers (DispatchHttp), and *)
(* what a handler remembers between two calls into the store.  A thread    *)
(* runs one handler at a time; handlers of different threads interleave    *)
(* at every repository or delivery-queue call.                             *)
(***************************************************************************)
EXTENDS VoxTypes, FiniteSets

CONSTANTS
  Workers,    \* threads of storage_pool
  Requests    \* the requests clients send, a subset of Request

SendRequest == [op : {"send"}, env : Envelopes]
AddRequest ==
  [op : {"add"}, conv : Conversations, actor : Users, user : Users,
   role : MemberRole]
RemoveRequest ==
  [op : {"remove"}, conv : Conversations, actor : Users, user : Users]
SubscriptionRequest ==
  [op : {"subscribe", "unsubscribe"}, conv : Conversations, user : Users]

Request ==
  SendRequest \cup AddRequest \cup RemoveRequest \cup SubscriptionRequest

NoRequest == [op |-> "none"]

ASSUME RequestsAssumption == Requests \subseteq Request

VARIABLES
  pc,        \* [Workers -> label of the next call]
  req,       \* [Workers -> the request being handled]
  ts,        \* [Workers -> Nat]: `now` of SendEnvelope
  targets,   \* [Workers -> SUBSET Users]: target_users not yet visited
  devs,      \* [Workers -> SUBSET Devices]: devices not yet visited
  offline    \* [Workers -> SUBSET Devices]: the device whose queue was full

worker_vars == <<pc, req, ts, targets, devs, offline>>

Labels ==
  {"idle", "policy", "duplicate", "store", "targets", "fanout",
   "count", "add", "remove", "subscribe", "unsubscribe",
   "purge_rows", "purge_devices", "purge_queue"}

WorkerTypeOK ==
  /\ pc \in [Workers -> Labels]
  /\ req \in [Workers -> Requests \cup {NoRequest}]
  /\ ts \in [Workers -> Nat]
  /\ targets \in [Workers -> SUBSET Users]
  /\ devs \in [Workers -> SUBSET Devices]
  /\ offline \in [Workers -> SUBSET Devices]

WorkerInit ==
  /\ pc = [w \in Workers |-> "idle"]
  /\ req = [w \in Workers |-> NoRequest]
  /\ ts = [w \in Workers |-> 0]
  /\ targets = [w \in Workers |-> {}]
  /\ devs = [w \in Workers |-> {}]
  /\ offline = [w \in Workers |-> {}]

Goto(w, label) == pc' = [pc EXCEPT ![w] = label]

\* A free thread takes a request off the pool's queue.
Begin(w, r, label) ==
  /\ pc[w] = "idle"
  /\ req' = [req EXCEPT ![w] = r]
  /\ Goto(w, label)
  /\ UNCHANGED <<ts, targets, devs, offline>>

\* The handler goes on to its next call and remembers nothing new.
Continue(w, label) ==
  /\ Goto(w, label)
  /\ UNCHANGED <<req, ts, targets, devs, offline>>

\* The handler returns, its locals are gone.
Finish(w) ==
  /\ Goto(w, "idle")
  /\ req' = [req EXCEPT ![w] = NoRequest]
  /\ ts' = [ts EXCEPT ![w] = 0]
  /\ targets' = [targets EXCEPT ![w] = {}]
  /\ devs' = [devs EXCEPT ![w] = {}]
  /\ offline' = [offline EXCEPT ![w] = {}]

\* A handler that is a single store call needs a free thread for one step.
SomeWorkerIdle == \E w \in Workers : pc[w] = "idle"
=============================================================================
