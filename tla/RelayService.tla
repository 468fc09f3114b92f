---------------------------- MODULE RelayService ----------------------------
(***************************************************************************)
(* lib/vox_relay/relay_service: SendEnvelope, one action per call it makes *)
(* that other handlers can interleave with.  A request refused before      *)
(* anything was written leaves no trace, so the first checks are guards.   *)
(***************************************************************************)
EXTENDS ConversationRepository, DeliveryManager, Dispatch

CONSTANT MaxClock   \* bound on the clock

ASSUME ClockAssumption == MaxClock \in Nat

VARIABLE clock      \* system_clock, in seconds

Env(w) == req[w].env
Conv(w) == EnvConv[Env(w)]
SenderUser(w) == Owner[EnvSender[Env(w)]]

\* Sender device row (revoked or not) and membership.
SendBegin(w) ==
  \E r \in Requests :
    /\ r.op = "send"
    /\ DeviceFound(EnvSender[r.env])
    /\ IsUserInConversation(EnvConv[r.env], Owner[EnvSender[r.env]])
    /\ Begin(w, r, IF ConvType[EnvConv[r.env]] = "channel"
                     THEN "policy" ELSE "duplicate")
    /\ UNCHANGED <<conversation_vars, device_vars, envelope_vars,
                   delivery_vars, clock>>

\* CreateChannel writes the policy "admins_only" and nothing changes policy_blob,
\* so that the branch of the policy "everyone" is never taken.
SendPolicy(w) ==
  /\ pc[w] = "policy"
  /\ IF /\ IsUserInConversation(Conv(w), SenderUser(w))
        /\ HasAdminRole(Conv(w), SenderUser(w))
       THEN Continue(w, "duplicate")
       ELSE Finish(w)
  /\ UNCHANGED <<conversation_vars, device_vars, envelope_vars,
                 delivery_vars, clock>>

\* CheckDuplicate, then the timestamp of the envelope is taken.
SendDuplicate(w) ==
  /\ pc[w] = "duplicate"
  /\ IF CheckDuplicate(Env(w))
       THEN Finish(w)
       ELSE /\ Goto(w, "store")
            /\ ts' = [ts EXCEPT ![w] = clock]
            /\ UNCHANGED <<req, targets, devs, offline>>
  /\ UNCHANGED <<conversation_vars, device_vars, envelope_vars,
                 delivery_vars, clock>>

SendStore(w) ==
  /\ pc[w] = "store"
  /\ IF StoreAllowed(Env(w))
       THEN /\ StoreEnvelope(Env(w), ts[w])
            /\ Continue(w, "targets")
       ELSE /\ Finish(w)
            /\ UNCHANGED envelope_vars
  /\ UNCHANGED <<conversation_vars, device_vars, delivery_vars, clock>>

\* GetSubscribers for a channel, GetMembers otherwise.
SendTargets(w) ==
  /\ pc[w] = "targets"
  /\ Goto(w, "fanout")
  /\ targets' = [targets EXCEPT ![w] = Participants(Conv(w))]
  /\ UNCHANGED <<req, ts, devs, offline>>
  /\ UNCHANGED <<conversation_vars, device_vars, envelope_vars,
                 delivery_vars, clock>>

\* Mutants of FanOutDevices: devices of everyone, revoked ones too.
FanOutDevicesOfAll(w, u) ==
  {d \in Devices : devices[d] = "active" /\ d # EnvSender[Env(w)]}

FanOutDevicesRevoked(w, u) == GetDevicesForUser(u) \ {EnvSender[Env(w)]}

\* The devices of u the envelope goes to: not revoked, not the sender.
FanOutDevices(w, u) ==
  {d \in GetDevicesForUser(u) :
     devices[d] # "revoked" /\ d # EnvSender[Env(w)]}

FanOutUser(w) ==
  /\ pc[w] = "fanout"
  /\ devs[w] = {}
  /\ offline[w] = {}
  /\ \E u \in targets[w] :
       /\ targets' = [targets EXCEPT ![w] = @ \ {u}]
       /\ devs' = [devs EXCEPT ![w] = FanOutDevices(w, u)]
  /\ UNCHANGED <<pc, req, ts, offline>>
  /\ UNCHANGED <<conversation_vars, device_vars, envelope_vars,
                 delivery_vars, clock>>

FanOutEnqueue(w) ==
  /\ pc[w] = "fanout"
  /\ offline[w] = {}
  /\ \E d \in devs[w] :
       /\ devs' = [devs EXCEPT ![w] = @ \ {d}]
       /\ \/ /\ Enqueue(Env(w), d)
             /\ UNCHANGED offline
          \/ /\ QueueFull(d)
             /\ offline' = [offline EXCEPT ![w] = {d}]
             /\ UNCHANGED delivery_vars
  /\ UNCHANGED <<pc, req, ts, targets>>
  /\ UNCHANGED <<conversation_vars, device_vars, envelope_vars, clock>>

\* Mutants of FanOutOffline: the envelope is dropped; the loop retries for ever.
FanOutOfflineDrops(w) ==
  /\ pc[w] = "fanout"
  /\ offline[w] # {}
  /\ offline' = [offline EXCEPT ![w] = {}]
  /\ UNCHANGED <<pc, req, ts, targets, devs>>
  /\ UNCHANGED <<conversation_vars, device_vars, envelope_vars, delivery_vars,
                 clock>>

FanOutOfflineRetries(w) ==
  /\ pc[w] = "fanout"
  /\ \E d \in offline[w] : AddDeliveryState(Env(w), d)
  /\ UNCHANGED <<worker_vars, conversation_vars, device_vars, delivery_vars,
                 clock>>

\* The queue was full: fall back to a delivery_state row.  A failure is
\* logged and the loop goes on.
FanOutOffline(w) ==
  /\ pc[w] = "fanout"
  /\ \E d \in offline[w] : AddDeliveryState(Env(w), d)
  /\ offline' = [offline EXCEPT ![w] = {}]
  /\ UNCHANGED <<pc, req, ts, targets, devs>>
  /\ UNCHANGED <<conversation_vars, device_vars, delivery_vars, clock>>

\* Mutant of FanOutDone: the loop ends after the first user.
FanOutDoneEarly(w) == pc[w] = "fanout" /\ devs[w] = {} /\ offline[w] = {}

\* The loop is over and the request answered with 200.
FanOutDone(w) ==
  /\ pc[w] = "fanout"
  /\ targets[w] = {}
  /\ devs[w] = {}
  /\ offline[w] = {}

SendDone(w) ==
  /\ FanOutDone(w)
  /\ Finish(w)
  /\ UNCHANGED <<conversation_vars, device_vars, envelope_vars,
                 delivery_vars, clock>>
=============================================================================
