------------------------------ MODULE MCServer ------------------------------
(* Two network threads, one pool thread with a queue of one.               *)
EXTENDS Server

CONSTANTS t1, t2, n1, n2, m, c1, c2
=============================================================================
