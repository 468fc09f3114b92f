----------------------------- MODULE MCNetwork -----------------------------
(***************************************************************************)
(* Server, WebSocketSession, RateLimiter and Schema for TLC, side by side: *)
(* in each behaviour one of them, chosen at the start, runs.  Two network  *)
(* threads and a pool thread with a queue of one serve two connections; a  *)
(* device has two WebSocket sessions, of which ws1 authenticates by its    *)
(* first frame; two processes are started on one database file.            *)
(***************************************************************************)
EXTENDS MCServer, WebSocketSession, RateLimiter, Schema

CONSTANTS ws1, ws2, d, p, x, addr, q1, q2

VARIABLE part    \* the component that runs

MCDevice == [s \in Sessions |-> d]
MCTo == [y \in Messages |-> d]

MCInit ==
  /\ part \in {"server", "websocket", "limiter", "database"}
  /\ ServerInit /\ WsInit /\ LimiterInit /\ SchemaInit
  /\ part = "database" \/ table["devices"] = "none"

MCNext ==
  /\ UNCHANGED part
  /\ \/ /\ part = "server" /\ ServerNext
        /\ UNCHANGED <<ws_vars, limiter_vars, schema_vars>>
     \/ /\ part = "websocket" /\ WsNext
        /\ UNCHANGED <<server_vars, limiter_vars, schema_vars>>
     \/ /\ part = "limiter" /\ LimiterNext
        /\ UNCHANGED <<server_vars, ws_vars, schema_vars>>
     \/ /\ part = "database" /\ SchemaNext
        /\ UNCHANGED <<server_vars, ws_vars, limiter_vars>>

all_vars == <<part, server_vars, ws_vars, limiter_vars, schema_vars>>

ServerStep(A) ==
  part = "server" /\ A /\ UNCHANGED <<part, ws_vars, limiter_vars, schema_vars>>

\* The fairness is that of ServerFair.
MCSpec ==
  /\ MCInit /\ [][MCNext]_all_vars
  /\ \A n \in NetThreads :
       WF_all_vars(ServerStep(OnReadBlocks(n) \/ OnReadSubmits(n) \/ RunReturns(n)))
  /\ \A c \in Conns :
       WF_all_vars(ServerStep(\E n \in NetThreads : WriteResponse(n, c)))
  /\ \A t \in Threads : WF_all_vars(ServerStep(PoolThread(t)))
  /\ WF_all_vars(ServerStep(MaintenanceSubmits \/ MaintenanceBlocks \/ MaintenanceExits))
  /\ WF_all_vars(ServerStep(Main))

----------------------------------------------------------------------------
\* Connections, threads, sessions, windows and tables have their types.
NetworkTypeOK ==
  CASE part = "server" -> ServerTypeOK
    [] part = "websocket" -> WsTypeOK
    [] part = "limiter" -> LimiterTypeOK
    [] part = "database" -> SchemaTypeOK
=============================================================================
