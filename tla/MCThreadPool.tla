---------------------------- MODULE MCThreadPool ----------------------------
(* Two workers (as storage_worker_count and cpu_worker_count have) and two  *)
(* producers.                                                               *)
EXTENDS ThreadPool

CONSTANTS t1, t2, p1, p2
=============================================================================
