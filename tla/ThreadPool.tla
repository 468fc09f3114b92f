----------------------------- MODULE ThreadPool -----------------------------
(***************************************************************************)
(* lib/vox_common/thread_pool: worker threads that pop tasks from one      *)
(* BoundedQueue, producers that Submit, one thread that calls WaitForIdle  *)
(* and one that calls Shutdown (the destructor).                           *)
(*                                                                         *)
(* active_tasks_ is an atomic counter and the workers notify idle_cv_      *)
(* without idle_mutex_, so WaitForIdle's predicate, its going to sleep and *)
(* every step of a worker are separate.                                    *)
(***************************************************************************)
EXTENDS BoundedQueue

CONSTANTS
  Threads,     \* the pool's worker threads
  Producers,   \* threads that submit tasks
  MaxTasks     \* tasks each producer submits

ASSUME PoolAssumption ==
  /\ MaxTasks \in Nat
  /\ IsFiniteSet(Threads) /\ Threads # {}
  /\ Threads \cap Producers = {}

VARIABLES
  loop,          \* [Threads -> where in WorkerLoop]
  task,          \* [Threads -> the task popped, or NoTask]
  active_tasks,  \* the atomic counter
  submit,        \* [Producers -> state of Submit]
  count,         \* [Producers -> tasks submitted so far]
  waiter,        \* where in WaitForIdle
  shut,          \* where in Shutdown; its own shutdown_ is set from "queue" on
  log,           \* history: tasks accepted by Push, in order
  taken,         \* history: how many of them were popped
  ran,           \* history: tasks whose function has returned
  seen           \* history: Len(log) when WaitForIdle was called

history == <<log, taken, ran, seen>>
thread_vars == <<loop, task, active_tasks>>
vars == <<queue_vars, thread_vars, submit, count, waiter, shut, history>>

Task == Producers \X (1..MaxTasks)
NoTask == <<>>

Init ==
  /\ QueueInit
  /\ loop = [t \in Threads |-> "pop"]
  /\ task = [t \in Threads |-> NoTask]
  /\ active_tasks = 0
  /\ submit = [p \in Producers |-> "ready"]
  /\ count = [p \in Producers |-> 0]
  /\ waiter = "call"
  /\ shut = "call"
  /\ log = <<>>
  /\ taken = 0
  /\ ran = {}
  /\ seen = 0

----------------------------------------------------------------------------
(* Submit.  A refused Push makes Submit throw; the producer gives up. *)

Asleep(t) == t \in not_full \cup not_empty

SubmitAccepted(p) ==
  LET t == <<p, count[p] + 1>>
  IN /\ submit[p] = "ready" /\ ~ Asleep(p)
     /\ count[p] < MaxTasks
     /\ Push(t)
     /\ count' = [count EXCEPT ![p] = @ + 1]
     /\ log' = Append(log, t)
     /\ UNCHANGED <<thread_vars, submit, waiter, shut, taken, ran, seen>>

SubmitBlocks(p) ==
  /\ submit[p] = "ready" /\ ~ Asleep(p)
  /\ count[p] < MaxTasks
  /\ PushSleep(p)
  /\ UNCHANGED <<thread_vars, submit, count, waiter, shut, history>>

SubmitThrows(p) ==
  /\ submit[p] = "ready" /\ ~ Asleep(p)
  /\ count[p] < MaxTasks
  /\ PushRefused
  /\ submit' = [submit EXCEPT ![p] = "threw"]
  /\ UNCHANGED <<thread_vars, count, waiter, shut, history>>

----------------------------------------------------------------------------
(* WorkerLoop. *)

At(t, here) == loop[t] = here /\ ~ Asleep(t)
GoOn(t, there) == loop' = [loop EXCEPT ![t] = there]

WorkerPop(t) ==
  /\ At(t, "pop")
  /\ Pop
  /\ task' = [task EXCEPT ![t] = Head(queue)]
  /\ taken' = taken + 1
  /\ GoOn(t, "popped")
  /\ UNCHANGED <<active_tasks, submit, count, waiter, shut, log, ran, seen>>

WorkerSleep(t) ==
  /\ At(t, "pop")
  /\ PopSleep(t)
  /\ UNCHANGED <<thread_vars, submit, count, waiter, shut, history>>

WorkerExit(t) ==
  /\ At(t, "pop")
  /\ PopNothing
  /\ GoOn(t, "exited")
  /\ UNCHANGED <<task, active_tasks, submit, count, waiter, shut, history>>

\* active_tasks_.fetch_add(1)
WorkerCount(t) ==
  /\ At(t, "popped")
  /\ active_tasks' = active_tasks + 1
  /\ GoOn(t, "run")
  /\ UNCHANGED <<queue_vars, task, submit, count, waiter, shut, history>>

\* The task returns, or throws and is caught.
WorkerRun(t) ==
  /\ At(t, "run")
  /\ ran' = ran \cup {task[t]}
  /\ task' = [task EXCEPT ![t] = NoTask]
  /\ GoOn(t, "uncount")
  /\ UNCHANGED <<queue_vars, active_tasks, submit, count, waiter, shut, log,
                 taken, seen>>

\* active_tasks_.fetch_sub(1)
WorkerUncount(t) ==
  /\ At(t, "uncount")
  /\ active_tasks' = active_tasks - 1
  /\ GoOn(t, "notify")
  /\ UNCHANGED <<queue_vars, task, submit, count, waiter, shut, history>>

\* idle_cv_.notify_all() wakes the waiter only if it is asleep by now.
NotifyIdle == waiter' = IF waiter = "asleep" THEN "active" ELSE waiter

WorkerNotify(t) ==
  /\ At(t, "notify")
  /\ NotifyIdle
  /\ GoOn(t, "pop")
  /\ UNCHANGED <<queue_vars, task, active_tasks, submit, count, shut, history>>

----------------------------------------------------------------------------
(* WaitForIdle.  idle_mutex_ is held from the first read of the predicate  *)
(* to the return or to the sleep, which releases it.                       *)

HoldsIdleMutex == waiter \in {"size", "sleep"}
ShutdownSet == shut \in {"queue", "join", "notify", "done"}

\* active_tasks_.load() == 0
WaitReadActive ==
  /\ waiter \in {"call", "active"}
  /\ seen' = IF waiter = "call" THEN Len(log) ELSE seen
  /\ waiter' = IF active_tasks = 0 THEN "size"
               ELSE IF ShutdownSet THEN "returned" ELSE "sleep"
  /\ UNCHANGED <<queue_vars, thread_vars, submit, count, shut, log, taken, ran>>

\* queue_.Size() == 0
WaitReadSize ==
  /\ waiter = "size"
  /\ waiter' = IF queue = <<>> \/ ShutdownSet THEN "returned" ELSE "sleep"
  /\ UNCHANGED <<queue_vars, thread_vars, submit, count, shut, history>>

WaitSleep ==
  /\ waiter = "sleep"
  /\ waiter' = "asleep"
  /\ UNCHANGED <<queue_vars, thread_vars, submit, count, shut, history>>

Wait == WaitReadActive \/ WaitReadSize \/ WaitSleep

----------------------------------------------------------------------------
(* Shutdown.  A second call returns at once and changes nothing. *)

ShutdownFlag ==
  /\ shut = "call"
  /\ ~ HoldsIdleMutex
  /\ shut' = "queue"
  /\ UNCHANGED <<queue_vars, thread_vars, submit, count, waiter, history>>

ShutdownQueue ==
  /\ shut = "queue"
  /\ QueueShutdown
  /\ shut' = "join"
  /\ UNCHANGED <<thread_vars, submit, count, waiter, history>>

ShutdownJoin ==
  /\ shut = "join"
  /\ \A t \in Threads : loop[t] = "exited"
  /\ shut' = "notify"
  /\ UNCHANGED <<queue_vars, thread_vars, submit, count, waiter, history>>

ShutdownNotify ==
  /\ shut = "notify"
  /\ NotifyIdle
  /\ shut' = "done"
  /\ UNCHANGED <<queue_vars, thread_vars, submit, count, history>>

Shutdown == ShutdownFlag \/ ShutdownQueue \/ ShutdownJoin \/ ShutdownNotify

----------------------------------------------------------------------------
Submit(p) == SubmitAccepted(p) \/ SubmitBlocks(p) \/ SubmitThrows(p)

WorkerLoop(t) ==
  \/ WorkerPop(t) \/ WorkerSleep(t) \/ WorkerExit(t) \/ WorkerCount(t)
  \/ WorkerRun(t) \/ WorkerUncount(t) \/ WorkerNotify(t)

Next ==
  \/ \E p \in Producers : Submit(p)
  \/ \E t \in Threads : WorkerLoop(t)
  \/ Wait
  \/ Shutdown

Spec == Init /\ [][Next]_vars

\* The operating system schedules every runnable thread, and mutexes are
\* handed over: every thread that can step does.  Nobody has to call Shutdown;
\* once called it goes on.
FairSpec ==
  /\ Spec
  /\ \A p \in Producers : WF_vars(Submit(p))
  /\ \A t \in Threads : WF_vars(WorkerLoop(t))
  /\ WF_vars(Wait)
  /\ WF_vars(ShutdownQueue \/ ShutdownJoin \/ ShutdownNotify)

----------------------------------------------------------------------------
Busy(t) == loop[t] \in {"popped", "run"}
Accepted(x) == \E i \in DOMAIN log : log[i] = x

\* Types of every variable of the pool and its queue; queue_ never grows past
\* capacity_ and active_tasks_ never wraps below zero.
TypeOK ==
  /\ queue \in Seq(Task) /\ Len(queue) <= Capacity
  /\ closed \in BOOLEAN
  /\ not_full \subseteq Producers
  /\ not_empty \subseteq Threads
  /\ loop \in [Threads -> {"pop", "popped", "run", "uncount", "notify", "exited"}]
  /\ task \in [Threads -> Task \cup {NoTask}]
  /\ active_tasks \in Nat
  /\ submit \in [Producers -> {"ready", "threw"}]
  /\ count \in [Producers -> 0..MaxTasks]
  /\ waiter \in {"call", "active", "size", "sleep", "asleep", "returned"}
  /\ shut \in {"call", "queue", "join", "notify", "done"}
  /\ log \in Seq(Task)
  /\ taken \in Nat
  /\ ran \subseteq Task
  /\ seen \in Nat

\* active_tasks_ is exactly the number of workers between fetch_add and
\* fetch_sub, whatever the interleaving of the workers.
ActiveCounted ==
  active_tasks = Cardinality({t \in Threads : loop[t] \in {"run", "uncount"}})

\* Once Shutdown has joined the workers every accepted task has run: closing
\* the queue refuses new tasks and drops none of the queued ones.
GracefulShutdown ==
  shut \in {"notify", "done"} => \A i \in DOMAIN log : log[i] \in ran

\* WaitForIdle does not return, unless the pool is shut down, while a task
\* accepted before the call is still in the queue: its two reads are not
\* atomic, but the queue is read last.
IdleDrained == waiter = "returned" /\ ~ ShutdownSet => taken >= seen

Contract == INSTANCE TaskPool WITH
  accepted <- log,
  started <- taken,
  finished <- ran,
  phase <- IF shut \in {"notify", "done"} THEN "stopped"
           ELSE IF closed THEN "closed" ELSE "open"

\* The pool keeps the promise of TaskPool: tasks are started in the order of
\* acceptance, once each, none is accepted after the queue is closed, and the
\* pool stops only when every accepted task has finished.
ImplementsTaskPool == Contract!PoolSpec

\* notify_one is enough: no accepted task is left in the queue while a worker
\* sleeps, so each one runs, with or without a Shutdown.
AcceptedRuns == \A x \in Task : Accepted(x) ~> x \in ran

\* No call blocks for ever: a producer asleep on the full queue is woken by room
\* or by Shutdown, and a Shutdown that was called drains the queue, joins the
\* workers and returns, and releases a caller of WaitForIdle whose wake-up from
\* a worker was lost.
CallsReturn ==
  /\ \A p \in Producers : <>(count[p] = MaxTasks \/ submit[p] = "threw")
  /\ ShutdownSet ~> shut = "done" /\ waiter = "returned"
=============================================================================
