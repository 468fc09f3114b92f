---------------------------- MODULE BoundedQueue ----------------------------
(***************************************************************************)
(* lib/vox_common/bounded_queue.hpp: a FIFO under one mutex with two       *)
(* condition variables.  A critical section is one step.  A thread whose   *)
(* predicate is false goes to sleep in the same step (wait releases the    *)
(* mutex atomically); notify_one wakes an arbitrary sleeper, which tests   *)
(* its predicate again when it next gets the mutex.                        *)
(***************************************************************************)
EXTENDS Naturals, Sequences, FiniteSets

CONSTANT Capacity

ASSUME CapacityAssumption == Capacity \in Nat \ {0}

VARIABLES
  queue,       \* queue_
  closed,      \* shutdown_
  not_full,    \* threads asleep in Push
  not_empty    \* threads asleep in Pop

queue_vars == <<queue, closed, not_full, not_empty>>

QueueInit ==
  /\ queue = <<>>
  /\ closed = FALSE
  /\ not_full = {}
  /\ not_empty = {}

\* The sleepers left after notify_one.
NotifyOne(sleepers, left) ==
  \/ sleepers = {} /\ left = {}
  \/ \E t \in sleepers : left = sleepers \ {t}

\* Mutant of PushReady: off by one.
PushReadyLate == Len(queue) <= Capacity \/ closed

PushReady == Len(queue) < Capacity \/ closed

PushSleep(t) ==
  /\ ~ PushReady
  /\ not_full' = not_full \cup {t}
  /\ UNCHANGED <<queue, closed, not_empty>>

PushRefused ==
  /\ closed
  /\ UNCHANGED queue_vars

\* Mutants of Push: newest first; without notify_one.
PushFront(item) ==
  /\ PushReady
  /\ ~ closed
  /\ queue' = <<item>> \o queue
  /\ NotifyOne(not_empty, not_empty')
  /\ UNCHANGED <<closed, not_full>>

PushSilent(item) ==
  /\ PushReady
  /\ ~ closed
  /\ queue' = Append(queue, item)
  /\ UNCHANGED <<closed, not_full, not_empty>>

Push(item) ==
  /\ PushReady
  /\ ~ closed
  /\ queue' = Append(queue, item)
  /\ NotifyOne(not_empty, not_empty')
  /\ UNCHANGED <<closed, not_full>>

PopSleep(t) ==
  /\ queue = <<>>
  /\ ~ closed
  /\ not_empty' = not_empty \cup {t}
  /\ UNCHANGED <<queue, closed, not_full>>

\* std::nullopt: shut down and drained.
PopNothing ==
  /\ queue = <<>>
  /\ closed
  /\ UNCHANGED queue_vars

\* Mutant of Pop: without notify_one.
PopSilent ==
  /\ queue # <<>>
  /\ queue' = Tail(queue)
  /\ UNCHANGED <<closed, not_full, not_empty>>

Pop ==
  /\ queue # <<>>
  /\ queue' = Tail(queue)
  /\ NotifyOne(not_full, not_full')
  /\ UNCHANGED <<closed, not_empty>>

\* Mutant of QueueShutdown: without notify_all.
QueueShutdownSilent ==
  /\ closed' = TRUE
  /\ UNCHANGED <<queue, not_full, not_empty>>

QueueShutdown ==
  /\ closed' = TRUE
  /\ not_empty' = {}
  /\ not_full' = {}
  /\ UNCHANGED queue
=============================================================================
