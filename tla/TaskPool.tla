------------------------------ MODULE TaskPool ------------------------------
(***************************************************************************)
(* What a thread pool promises, without threads, locks or a bound: tasks   *)
(* are accepted while it is open, are started in the order in which they   *)
(* were accepted, each once, and finish after they have started.  When it  *)
(* is stopped it has been closed and every accepted task has finished.     *)
(***************************************************************************)
EXTENDS Naturals, Sequences

CONSTANT Task

VARIABLES
  accepted,   \* the tasks accepted, in order
  started,    \* how many of them have been started
  finished,   \* the tasks that have finished
  phase       \* "open", "closed" or "stopped"

pool_vars == <<accepted, started, finished, phase>>

PoolInit ==
  /\ accepted = <<>>
  /\ started = 0
  /\ finished = {}
  /\ phase = "open"

Accept(t) ==
  /\ phase = "open"
  /\ \A i \in DOMAIN accepted : accepted[i] # t
  /\ accepted' = Append(accepted, t)
  /\ UNCHANGED <<started, finished, phase>>

Start ==
  /\ phase # "stopped"
  /\ started < Len(accepted)
  /\ started' = started + 1
  /\ UNCHANGED <<accepted, finished, phase>>

FinishTask(t) ==
  /\ phase # "stopped"
  /\ t \notin finished
  /\ \E i \in 1..started : accepted[i] = t
  /\ finished' = finished \cup {t}
  /\ UNCHANGED <<accepted, started, phase>>

Close ==
  /\ phase = "open"
  /\ phase' = "closed"
  /\ UNCHANGED <<accepted, started, finished>>

Stop ==
  /\ phase = "closed"
  /\ \A i \in DOMAIN accepted : accepted[i] \in finished
  /\ phase' = "stopped"
  /\ UNCHANGED <<accepted, started, finished>>

PoolNext ==
  \/ \E t \in Task : Accept(t) \/ FinishTask(t)
  \/ Start \/ Close \/ Stop

PoolSpec == PoolInit /\ [][PoolNext]_pool_vars
=============================================================================
