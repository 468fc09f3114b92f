-------------------------- MODULE DeliveryManager --------------------------
(***************************************************************************)
(* lib/vox_relay/delivery_manager: one bounded in-memory FIFO per device,  *)
(* each under its own mutex, and the hook (bin/main.cpp) that hands every  *)
(* queued envelope to the device's WebSocket session, if one is            *)
(* registered.  A missing queue and an empty one behave alike.  The queues *)
(* and the registry are lost when the process stops.                       *)
(***************************************************************************)
EXTENDS EnvelopeRepository, Sequences, Functions

CONSTANT MaxQueue   \* max_queue_depth_per_device

ASSUME QueueAssumption == MaxQueue \in Nat

VARIABLES
  pending,     \* [Devices -> Seq(Envelopes)]: DeviceQueue::pending
  connected,   \* SUBSET Devices: keys of WsPushRegistry::senders_
  pushed       \* SUBSET (Envelopes \X Devices): handed to a session so far

delivery_vars == <<pending, connected, pushed>>

DeliveryTypeOK ==
  /\ pending \in [Devices -> Seq(Envelopes)]
  /\ connected \subseteq Devices
  /\ pushed \subseteq Envelopes \X Devices

QueueFull(d) == Len(pending[d]) >= MaxQueue

\* WsPushRegistry::Notify: the sender of the device's session, if there is one.
Notify(e, d) == pushed' = IF d \in connected THEN pushed \cup {<<e, d>>} ELSE pushed

\* Mutant of Enqueue: push_front.
EnqueueFront(e, d) ==
  /\ ~ QueueFull(d)
  /\ pending' = [pending EXCEPT ![d] = <<e>> \o @]
  /\ Notify(e, d)
  /\ UNCHANGED connected

\* push_back and the hook, under the queue's mutex.
Enqueue(e, d) ==
  /\ ~ QueueFull(d)
  /\ pending' = [pending EXCEPT ![d] = Append(@, e)]
  /\ Notify(e, d)
  /\ UNCHANGED connected

\* The subsequence of s of the elements in keep, in their order: what
\* std::stable_partition followed by erase leaves in the deque.
Selections(s, keep) ==
  {q \in UNION {[1..n -> Range(s)] : n \in 0..Len(s)} :
     \E f \in [DOMAIN q -> DOMAIN s] :
       /\ \A i, j \in DOMAIN q : i < j => f[i] < f[j]
       /\ \A i \in DOMAIN q : q[i] = s[f[i]]
       /\ Range(f) = {k \in DOMAIN s : s[k] \in keep}}

\* Mutant of PurgeConversationFromDeviceQueue: partitioned but not erased.
PurgeNotErased(c, d) == UNCHANGED delivery_vars

PurgeConversationFromDeviceQueue(c, d) ==
  /\ \E q \in Selections(pending[d], {e \in Envelopes : EnvConv[e] # c}) :
       pending' = [pending EXCEPT ![d] = q]
  /\ UNCHANGED <<connected, pushed>>

Queued(e, d) == e \in Range(pending[d])
=============================================================================
