-------------------------- MODULE WebSocketSession --------------------------
(***************************************************************************)
(* The sessions of GET /v1/ws (lib/vox_net/http_session.cpp): accept,      *)
(* authentication by header or by first frame against a timer, pushes      *)
(* through an outbound queue with one write at a time, and the close.      *)
(*                                                                         *)
(* The executor is the bare io_context, so the handlers of one session run *)
(* on any network thread and overlap; they share plain members.  Where     *)
(* another handler of the same session can come in between, a handler is   *)
(* split at its reads and writes of those members.  Not modelled: torn     *)
(* reads of a std::deque or std::string.                                   *)
(*                                                                         *)
(* async_write is given a buffer over a local string that dies when        *)
(* PumpOutbound returns: only a write that needs nothing of it later sends *)
(* what was pushed.                                                        *)
(***************************************************************************)
EXTENDS WsPushRegistry, Sequences

CONSTANTS
  Bearer,        \* SUBSET Sessions: the upgrade carries the token
  IoThreads,     \* threads in ioc.run()
  Notifiers,     \* pool threads that call Notify
  Messages,      \* pushes
  To,            \* [Messages -> Devices]
  MaxOutbound,   \* max_ws_outbound_queue, 0 for no limit
  MaxPushes,     \* bound on the calls of Notify
  Garbled        \* what is sent from a dead buffer or an empty queue

ASSUME WsAssumption ==
  /\ Device \in [Sessions -> Devices]
  /\ To \in [Messages -> Devices]
  /\ IsFiniteSet(IoThreads)
  /\ MaxOutbound \in Nat
  /\ MaxPushes \in Nat

VARIABLES
  phase,         \* [Sessions -> what the session's accept or read waits for]
  socket,        \* [Sessions -> "up" or "down"]
  identified,    \* [Sessions -> BOOLEAN]: device_id_ is not empty
  deferred,      \* [Sessions -> BOOLEAN]: deferred_auth_active_
  timer,         \* [Sessions -> "off", "armed" or "expired"]
  posted,        \* [Sessions -> Seq(Messages)]: closures of PostSend
  outbound,      \* [Sessions -> Seq(Messages)]
  in_progress,   \* [Sessions -> BOOLEAN]: write_in_progress_
  writing,       \* [Sessions -> Seq(frames)]: async_writes begun
  thread,        \* [IoThreads -> the handler it is in]
  notifier,      \* [Notifiers -> the Notify it is in]
  pushes,        \* number of calls of Notify so far
  sent,          \* history, [Sessions -> SUBSET frames]: written
  displaced,     \* history, SUBSET Sessions: overwritten or erased in the
                 \* registry by another session of the device
  overlapped     \* history, SUBSET Sessions: two handlers had both tested the
                 \* length of the queue before either pushed

ws_conn == <<phase, socket, identified, deferred, timer>>
ws_out == <<posted, outbound, in_progress, writing>>
ws_history == <<pushes, sent, displaced, overlapped>>
ws_vars == <<senders, ws_conn, ws_out, thread, notifier, ws_history>>

Idle == [at |-> "idle"]

WsInit ==
  /\ RegistryInit
  /\ phase = [s \in Sessions |-> "none"]
  /\ socket = [s \in Sessions |-> "up"]
  /\ identified = [s \in Sessions |-> FALSE]
  /\ deferred = [s \in Sessions |-> FALSE]
  /\ timer = [s \in Sessions |-> "off"]
  /\ posted = [s \in Sessions |-> <<>>]
  /\ outbound = [s \in Sessions |-> <<>>]
  /\ in_progress = [s \in Sessions |-> FALSE]
  /\ writing = [s \in Sessions |-> <<>>]
  /\ thread = [t \in IoThreads |-> Idle]
  /\ notifier = [n \in Notifiers |-> Idle]
  /\ pushes = 0
  /\ sent = [s \in Sessions |-> {}]
  /\ displaced = {}
  /\ overlapped = {}

----------------------------------------------------------------------------
(* Steps of handlers: thread t is at a point of a handler of session s. *)

Stands(t, here) == thread[t].at = here
Turns(t, there, s) == thread' = [thread EXCEPT ![t] = [at |-> there, session |-> s]]
Returns(t) == thread' = [thread EXCEPT ![t] = Idle]
Self(t) == thread[t].session

\* A handler has a reference to its session, and so has every handler pending.
Alive(s) ==
  \/ phase[s] \in {"accept", "first", "open"}
  \/ timer[s] # "off"
  \/ posted[s] # <<>> \/ writing[s] # <<>>
  \/ \E t \in IoThreads : thread[t] # Idle /\ Self(t) = s

\* HttpSession hands the stream over and Run calls async_accept.
Run(s) ==
  /\ phase[s] = "none"
  /\ phase' = [phase EXCEPT ![s] = "accept"]
  /\ UNCHANGED <<senders, socket, identified, deferred, timer, ws_out, thread,
                 notifier, ws_history>>

\* The peer closes, resets or vanishes.
PeerGone(s) ==
  /\ phase[s] # "none"
  /\ socket[s] = "up"
  /\ socket' = [socket EXCEPT ![s] = "down"]
  /\ UNCHANGED <<senders, phase, identified, deferred, timer, ws_out, thread,
                 notifier, ws_history>>

\* FinishAuth with a valid token: DoRead is pending afterwards.
FinishAuth(s) ==
  /\ identified' = [identified EXCEPT ![s] = TRUE]
  /\ Register(s)
  /\ displaced' = displaced \cup (senders[Device[s]] \ {s})
  /\ phase' = [phase EXCEPT ![s] = "open"]
  /\ UNCHANGED socket

\* FailTcpConnection, also with an invalid token: nothing is read any more.
FailTcpConnection(s) ==
  /\ phase' = [phase EXCEPT ![s] = "over"]
  /\ socket' = [socket EXCEPT ![s] = "down"]
  /\ UNCHANGED <<senders, identified, displaced>>

\* A failed handshake leaves nothing behind.
OnAcceptError(t, s) ==
  /\ Stands(t, "idle")
  /\ phase[s] = "accept"
  /\ socket[s] = "down"
  /\ phase' = [phase EXCEPT ![s] = "over"]
  /\ UNCHANGED <<senders, socket, identified, deferred, timer, ws_out, thread,
                 notifier, ws_history>>

OnAcceptBearer(t, s) ==
  /\ Stands(t, "idle")
  /\ phase[s] = "accept"
  /\ s \in Bearer
  /\ FinishAuth(s) \/ FailTcpConnection(s)
  /\ UNCHANGED <<deferred, timer, ws_out, thread, notifier, pushes, sent, overlapped>>

OnAcceptDeferred(t, s) ==
  /\ Stands(t, "idle")
  /\ phase[s] = "accept"
  /\ s \notin Bearer
  /\ deferred' = [deferred EXCEPT ![s] = TRUE]
  /\ timer' = [timer EXCEPT ![s] = "armed"]
  /\ phase' = [phase EXCEPT ![s] = "first"]
  /\ UNCHANGED <<senders, socket, identified, ws_out, thread, notifier, ws_history>>

----------------------------------------------------------------------------
(* The deferred authentication: the timer against the first frame. *)

Expire(s) ==
  /\ timer[s] = "armed"
  /\ timer' = [timer EXCEPT ![s] = "expired"]
  /\ UNCHANGED <<senders, phase, socket, identified, deferred, ws_out, thread,
                 notifier, ws_history>>

OnTimer(t, s) ==
  /\ Stands(t, "idle")
  /\ timer[s] = "expired"
  /\ timer' = [timer EXCEPT ![s] = "off"]
  /\ IF deferred[s] THEN Turns(t, "expire", s) ELSE UNCHANGED thread
  /\ UNCHANGED <<senders, phase, socket, identified, deferred, ws_out, notifier,
                 ws_history>>

OnTimerShut(t) ==
  /\ Stands(t, "expire")
  /\ deferred' = [deferred EXCEPT ![Self(t)] = FALSE]
  /\ socket' = [socket EXCEPT ![Self(t)] = "down"]
  /\ Returns(t)
  /\ UNCHANGED <<senders, phase, identified, timer, ws_out, notifier, ws_history>>

\* The first read ends, with a frame only while the socket is up.
OnFirstRead(t, s) ==
  /\ Stands(t, "idle")
  /\ phase[s] = "first"
  /\ phase' = [phase EXCEPT ![s] = "over"]
  /\ IF deferred[s]
       THEN Turns(t, "refuse", s) \/ (socket[s] = "up" /\ Turns(t, "auth", s))
       ELSE UNCHANGED thread
  /\ UNCHANGED <<senders, socket, identified, deferred, timer, ws_out, notifier,
                 ws_history>>

\* cancel() does not stop a handler that is queued already.
CancelTimer(s) ==
  /\ deferred' = [deferred EXCEPT ![s] = FALSE]
  /\ timer' = [timer EXCEPT ![s] = IF @ = "armed" THEN "off" ELSE @]

\* An error, another frame than an auth message, or an invalid token.
OnFirstRefused(t) ==
  /\ Stands(t, "refuse")
  /\ CancelTimer(Self(t))
  /\ FailTcpConnection(Self(t))
  /\ Returns(t)
  /\ UNCHANGED <<ws_out, notifier, pushes, sent, overlapped>>

OnFirstAuth(t) ==
  /\ Stands(t, "auth")
  /\ CancelTimer(Self(t))
  /\ FinishAuth(Self(t))
  /\ Returns(t)
  /\ UNCHANGED <<ws_out, notifier, pushes, sent, overlapped>>

----------------------------------------------------------------------------
(* Pushes: Notify on a pool thread, then the closure of PostSend, then     *)
(* PumpOutbound and the completion of its write.                           *)

NotifyFinds(n, m) ==
  /\ notifier[n] = Idle
  /\ pushes < MaxPushes
  /\ pushes' = pushes + 1
  /\ \/ senders[To[m]] = {} /\ UNCHANGED notifier
     \/ \E s \in senders[To[m]] :
          notifier' = [notifier EXCEPT ![n] =
                         [at |-> "call", session |-> s, msg |-> m]]
  /\ UNCHANGED <<senders, ws_conn, ws_out, thread, sent, displaced, overlapped>>

\* The sender holds a weak_ptr.
NotifyCalls(n) ==
  LET s == notifier[n].session
  IN /\ notifier[n].at = "call"
     /\ posted' = IF Alive(s)
                    THEN [posted EXCEPT ![s] = Append(@, notifier[n].msg)]
                    ELSE posted
     /\ notifier' = [notifier EXCEPT ![n] = Idle]
     /\ UNCHANGED <<senders, ws_conn, outbound, in_progress, writing, thread,
                    ws_history>>

\* Mutant of OnPosted: the length is not looked at.
OnPostedUnbounded(t, s) ==
  /\ Stands(t, "idle")
  /\ posted[s] # <<>>
  /\ posted' = [posted EXCEPT ![s] = Tail(@)]
  /\ thread' = [thread EXCEPT ![t] =
       [at |-> "push", session |-> s, msg |-> Head(posted[s])]]
  /\ UNCHANGED <<senders, ws_conn, outbound, in_progress, writing, notifier,
                 ws_history>>

OnPosted(t, s) ==
  /\ Stands(t, "idle")
  /\ posted[s] # <<>>
  /\ posted' = [posted EXCEPT ![s] = Tail(@)]
  /\ thread' = [thread EXCEPT ![t] =
       [at |-> IF MaxOutbound > 0 /\ Len(outbound[s]) >= MaxOutbound
                 THEN "shutdown" ELSE "push",
        session |-> s, msg |-> Head(posted[s])]]
  /\ UNCHANGED <<senders, ws_conn, outbound, in_progress, writing, notifier,
                 ws_history>>

PushBack(t) ==
  LET s == Self(t)
  IN /\ Stands(t, "push")
     /\ outbound' = [outbound EXCEPT ![s] = Append(@, thread[t].msg)]
     /\ overlapped' = IF \E u \in IoThreads \ {t} : Stands(u, "push") /\ Self(u) = s
                        THEN overlapped \cup {s} ELSE overlapped
     /\ Turns(t, "pump", s)
     /\ UNCHANGED <<senders, ws_conn, posted, in_progress, writing, notifier,
                    pushes, sent, displaced>>

PumpTest(t) ==
  LET s == Self(t)
  IN /\ Stands(t, "pump")
     /\ IF in_progress[s] \/ outbound[s] = <<>>
          THEN Returns(t) ELSE Turns(t, "write", s)
     /\ UNCHANGED <<senders, ws_conn, ws_out, notifier, ws_history>>

\* The frames a write of chunk can put on the wire: chunk if all of it is sent
\* at once, something else if the write has to wait for the socket or for
\* another write.
Frames(s, chunk) == {Garbled} \cup IF writing[s] = <<>> THEN {chunk} ELSE {}

PumpWrite(t) ==
  LET s == Self(t)
      chunk == IF outbound[s] = <<>> THEN Garbled ELSE Head(outbound[s])
  IN /\ Stands(t, "write")
     /\ in_progress' = [in_progress EXCEPT ![s] = TRUE]
     /\ outbound' = [outbound EXCEPT ![s] = IF @ = <<>> THEN @ ELSE Tail(@)]
     /\ \E f \in Frames(s, chunk) :
          writing' = [writing EXCEPT ![s] = Append(@, f)]
     /\ Returns(t)
     /\ UNCHANGED <<senders, ws_conn, posted, notifier, ws_history>>

OnWritten(t, s) ==
  /\ Stands(t, "idle")
  /\ writing[s] # <<>>
  /\ in_progress' = [in_progress EXCEPT ![s] = FALSE]
  /\ writing' = [writing EXCEPT ![s] = Tail(@)]
  /\ IF socket[s] = "up"
       THEN /\ sent' = [sent EXCEPT ![s] = @ \cup {Head(writing[s])}]
            /\ Turns(t, "pump", s)
       ELSE Turns(t, "shutdown", s) /\ UNCHANGED sent
  /\ UNCHANGED <<senders, ws_conn, posted, outbound, notifier, pushes, displaced,
                 overlapped>>

----------------------------------------------------------------------------
(* DoRead and Shutdown.  Frames from the client are dropped. *)

\* Mutant of OnReadError: the session only stops to read.
OnReadErrorSilent(t, s) ==
  /\ Stands(t, "idle")
  /\ phase[s] = "open"
  /\ socket[s] = "down"
  /\ phase' = [phase EXCEPT ![s] = "over"]
  /\ UNCHANGED <<senders, socket, identified, deferred, timer, ws_out, thread,
                 notifier, ws_history>>

OnReadError(t, s) ==
  /\ Stands(t, "idle")
  /\ phase[s] = "open"
  /\ socket[s] = "down"
  /\ phase' = [phase EXCEPT ![s] = "over"]
  /\ Turns(t, "shutdown", s)
  /\ UNCHANGED <<senders, socket, identified, deferred, timer, ws_out, notifier,
                 ws_history>>

ShutdownTest(t) ==
  /\ Stands(t, "shutdown")
  /\ Turns(t, IF identified[Self(t)] THEN "unregister" ELSE "close", Self(t))
  /\ UNCHANGED <<senders, ws_conn, ws_out, notifier, ws_history>>

ShutdownUnregister(t) ==
  LET s == Self(t)
  IN /\ Stands(t, "unregister")
     /\ Unregister(s)
     /\ identified' = [identified EXCEPT ![s] = FALSE]
     /\ displaced' = displaced \cup (senders[Device[s]] \ {s})
     /\ Turns(t, "close", s)
     /\ UNCHANGED <<phase, socket, deferred, timer, ws_out, notifier, pushes, sent, overlapped>>

\* close() blocks the thread until the peer has answered or is gone.
ShutdownClose(t) ==
  /\ Stands(t, "close")
  /\ socket' = [socket EXCEPT ![Self(t)] = "down"]
  /\ Returns(t)
  /\ UNCHANGED <<senders, phase, identified, deferred, timer, ws_out, notifier,
                 ws_history>>

----------------------------------------------------------------------------
Begins(t, s) ==
  \/ OnAcceptError(t, s) \/ OnAcceptBearer(t, s) \/ OnAcceptDeferred(t, s)
  \/ OnTimer(t, s) \/ OnFirstRead(t, s) \/ OnPosted(t, s)
  \/ OnWritten(t, s) \/ OnReadError(t, s)

Continues(t) ==
  \/ OnTimerShut(t) \/ OnFirstRefused(t) \/ OnFirstAuth(t)
  \/ PushBack(t) \/ PumpTest(t) \/ PumpWrite(t)
  \/ ShutdownTest(t) \/ ShutdownUnregister(t) \/ ShutdownClose(t)

WsNext ==
  \/ \E s \in Sessions :
       Run(s) \/ PeerGone(s) \/ Expire(s) \/ \E t \in IoThreads : Begins(t, s)
  \/ \E t \in IoThreads : Continues(t)
  \/ \E n \in Notifiers : NotifyCalls(n) \/ \E m \in Messages : NotifyFinds(n, m)

WsSpec == WsInit /\ [][WsNext]_ws_vars

----------------------------------------------------------------------------
Registered(s) == s \in senders[Device[s]]
InHandler(s, points) ==
  \E t \in IoThreads : thread[t].at \in points /\ Self(t) = s

\* Types of the members of the sessions and of the registry.
WsTypeOK ==
  /\ senders \in [Devices -> SUBSET Sessions]
  /\ phase \in [Sessions -> {"none", "accept", "first", "open", "over"}]
  /\ socket \in [Sessions -> {"up", "down"}]
  /\ identified \in [Sessions -> BOOLEAN]
  /\ deferred \in [Sessions -> BOOLEAN]
  /\ in_progress \in [Sessions -> BOOLEAN]
  /\ timer \in [Sessions -> {"off", "armed", "expired"}]
  /\ posted \in [Sessions -> Seq(Messages)]
  /\ outbound \in [Sessions -> Seq(Messages)]
  /\ writing \in [Sessions -> Seq(Messages \cup {Garbled})]
  /\ sent \in [Sessions -> SUBSET (Messages \cup {Garbled})]
  /\ pushes \in 0..MaxPushes
  /\ displaced \subseteq Sessions
  /\ overlapped \subseteq Sessions

\* The registry has exactly the sessions it should: a session that reads
\* frames is the one pushes go to, unless another session of its device has
\* registered or closed since; and one that was shut down is never in it,
\* however its handlers overlap.
RegistryExact ==
  \A s \in Sessions :
    /\ identified[s] /\ s \notin displaced => Registered(s)
    /\ Registered(s) => identified[s]

\* max_ws_outbound_queue is tested before the push: the queue outgrows it only
\* when handlers of one session overlap, and then by at most one frame for each
\* other network thread.
OutboundOvershoot ==
  MaxOutbound > 0 =>
    \A s \in Sessions :
      /\ Len(outbound[s]) <= MaxOutbound + Cardinality(IoThreads) - 1
      /\ Len(outbound[s]) > MaxOutbound => s \in overlapped

\* No session is left behind: one that pushes go to has a read pending or a
\* Shutdown under way that takes it out of the registry, so it leaves when its
\* connection goes, also when the timer and the first frame were both let
\* through; and one that waits for its first frame has a timer, or its socket is
\* shut or about to be.
SessionsAttended ==
  \A s \in Sessions :
    /\ Registered(s) =>
         phase[s] = "open" \/ InHandler(s, {"shutdown", "unregister"})
    /\ phase[s] = "first" =>
         timer[s] # "off" \/ socket[s] = "down" \/ InHandler(s, {"expire"})

\* What API.md says of a push: each message is one JSON object in a text frame,
\* so what is written to a client is one of the messages pushed.
FramesIntact == \A s \in Sessions : sent[s] \subseteq Messages
=============================================================================
