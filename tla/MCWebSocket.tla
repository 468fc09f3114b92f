---------------------------- MODULE MCWebSocket ----------------------------
(* A device with two sessions, one of which authenticates by its first     *)
(* frame.                                                                  *)
EXTENDS WebSocketSession

CONSTANTS s1, s2, d, n1, n2, p, m

MCDevice == [s \in Sessions |-> d]
MCTo == [x \in Messages |-> d]
=============================================================================
