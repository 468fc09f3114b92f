-------------------------- MODULE ThreadPoolProofs --------------------------
(***************************************************************************)
(* The thread pool implements TaskPool, for any number of workers and      *)
(* producers, any capacity and any number of tasks; the server uses it as  *)
(* it must, and takes its parts down in a safe order.                      *)
(***************************************************************************)
EXTENDS Server, TLAPS, FiniteSetTheorems

\* The prover of every leaf that names none.
USE Zenon

Counted == {t \in Threads : loop[t] \in {"run", "uncount"}}

\* The queue is what has been accepted and not yet taken, in order.
QueueInv ==
  /\ Len(log) = taken + Len(queue)
  /\ \A i \in 1..Len(queue) : queue[i] = log[taken + i]

\* No task is accepted twice: a producer numbers its tasks.
LogInv ==
  /\ \A i \in 1..Len(log) : log[i][2] <= count[log[i][1]]
  /\ \A i, j \in 1..Len(log) : log[i] = log[j] => i = j

\* Every task taken from the queue has run or is held by one worker.
TakenInv ==
  /\ \A x \in ran : \E i \in 1..taken : log[i] = x
  /\ \A t \in Threads : Busy(t) =>
       /\ task[t] \notin ran
       /\ \E i \in 1..taken : log[i] = task[t]
  /\ \A s, t \in Threads : Busy(s) /\ Busy(t) /\ task[s] = task[t] => s = t
  /\ \A i \in 1..taken : log[i] \in ran \/ \E t \in Threads : Busy(t) /\ task[t] = log[i]

\* A worker leaves only a closed, empty queue; Shutdown closes it first.
ClosedInv ==
  /\ \A t \in Threads : loop[t] = "exited" => closed /\ queue = <<>>
  /\ closed <=> shut \in {"join", "notify", "done"}
  /\ shut \in {"notify", "done"} => \A t \in Threads : loop[t] = "exited"

PoolInv == TypeOK /\ ActiveCounted /\ QueueInv /\ LogInv /\ TakenInv /\ ClosedInv

(* Cardinality of the set of counted workers. *)
LEMMA CountedStep ==
  ASSUME NEW S \in SUBSET Threads, NEW t \in Threads
  PROVE  /\ IsFiniteSet(S)
         /\ Cardinality(S) \in Nat
         /\ t \notin S => Cardinality(S \cup {t}) = Cardinality(S) + 1
         /\ t \in S => Cardinality(S \ {t}) = Cardinality(S) - 1 /\ Cardinality(S) # 0
<1>1. IsFiniteSet(S)
  BY PoolAssumption, FS_Subset
<1>2. Cardinality(S) \in Nat
  BY <1>1, FS_CardinalityType
<1>3. t \notin S => Cardinality(S \cup {t}) = Cardinality(S) + 1
  BY <1>1, FS_AddElement
<1>4. t \in S => Cardinality(S \ {t}) = Cardinality(S) - 1
  BY <1>1, FS_RemoveElement
<1>5. t \in S => Cardinality(S) # 0
  BY <1>1, FS_EmptySet
<1> QED BY <1>1, <1>2, <1>3, <1>4, <1>5

(* The counter follows the workers. *)
LEMMA ActiveStep ==
  ASSUME TypeOK, ActiveCounted, [Next]_vars
  PROVE  ActiveCounted' /\ active_tasks' \in Nat
<1> USE DEF TypeOK
<1>0. ActiveCounted <=> active_tasks = Cardinality(Counted)
  BY DEF ActiveCounted, Counted
<1>1. ASSUME Counted' = Counted, active_tasks' = active_tasks
      PROVE  ActiveCounted' /\ active_tasks' \in Nat
  BY <1>1 DEF ActiveCounted, Counted
<1>2. ASSUME NEW t \in Threads, WorkerCount(t)
      PROVE  ActiveCounted' /\ active_tasks' \in Nat
  <2>1. Counted' = Counted \cup {t} /\ t \notin Counted /\ active_tasks' = active_tasks + 1
    BY <1>2 DEF WorkerCount, At, GoOn, Counted
  <2>2. Cardinality(Counted') = Cardinality(Counted) + 1
    BY <2>1, CountedStep DEF Counted
  <2> QED BY <2>1, <2>2, <1>0, SMT DEF ActiveCounted, Counted
<1>3. ASSUME NEW t \in Threads, WorkerUncount(t)
      PROVE  ActiveCounted' /\ active_tasks' \in Nat
  <2>1. Counted' = Counted \ {t} /\ t \in Counted /\ active_tasks' = active_tasks - 1
    BY <1>3 DEF WorkerUncount, At, GoOn, Counted
  <2>2. Cardinality(Counted') = Cardinality(Counted) - 1 /\ Cardinality(Counted) # 0
    BY <2>1, CountedStep DEF Counted
  <2> QED BY <2>1, <2>2, <1>0, SMT DEF ActiveCounted, Counted
<1>4. ASSUME NEW t \in Threads,
             \/ WorkerPop(t) \/ WorkerSleep(t) \/ WorkerExit(t)
             \/ WorkerRun(t) \/ WorkerNotify(t)
      PROVE  Counted' = Counted /\ active_tasks' = active_tasks
  BY <1>4 DEF WorkerPop, WorkerSleep, WorkerExit, WorkerRun, WorkerNotify, At, GoOn,
              Counted, thread_vars
<1>5. ASSUME UNCHANGED thread_vars
      PROVE  Counted' = Counted /\ active_tasks' = active_tasks
  BY <1>5 DEF thread_vars, Counted
<1>6. ASSUME \/ \E p \in Producers : Submit(p)
             \/ Wait \/ Shutdown \/ UNCHANGED vars
      PROVE  UNCHANGED thread_vars
  BY <1>6 DEF Submit, SubmitAccepted, SubmitBlocks, SubmitThrows, Wait, WaitReadActive,
     WaitReadSize, WaitSleep, Shutdown, ShutdownFlag, ShutdownQueue, ShutdownJoin,
     ShutdownNotify, vars
<1> QED BY <1>1, <1>2, <1>3, <1>4, <1>5, <1>6 DEF Next, WorkerLoop

(* A queue operation keeps the types of the queue and of its sleepers. *)
LEMMA NotifyType ==
  ASSUME NEW sleepers, NEW left, NotifyOne(sleepers, left)
  PROVE  left \subseteq sleepers
BY DEF NotifyOne

(* The types of all the variables but the counter. *)
LEMMA TypeStep ==
  ASSUME TypeOK, ActiveCounted, QueueInv, TakenInv, [Next]_vars
  PROVE  TypeOK'
<1> USE CapacityAssumption, PoolAssumption
<1>0. active_tasks' \in Nat
  BY ActiveStep
<1>1. ASSUME NEW p \in Producers, SubmitAccepted(p) PROVE TypeOK'
  <2>1. <<p, count[p] + 1>> \in Task /\ count[p] + 1 \in 0..MaxTasks
    BY <1>1, SMT DEF SubmitAccepted, TypeOK, Task
  <2>2. not_empty' \subseteq Threads
    BY <1>1, NotifyType DEF SubmitAccepted, Push, TypeOK
  <2> QED BY <1>0, <1>1, <2>1, <2>2, SMT DEF SubmitAccepted, Push, PushReady, TypeOK, thread_vars
<1>2. ASSUME NEW p \in Producers, SubmitBlocks(p) \/ SubmitThrows(p) PROVE TypeOK'
  BY <1>2 DEF SubmitBlocks, SubmitThrows, PushSleep, PushRefused, TypeOK, thread_vars,
              queue_vars, history
<1>3. ASSUME NEW t \in Threads, WorkerPop(t) PROVE TypeOK'
  <2>1. not_full' \subseteq Producers
    BY <1>3, NotifyType DEF WorkerPop, Pop, TypeOK
  <2>2. Head(queue) \in Task /\ Tail(queue) \in Seq(Task) /\ Len(Tail(queue)) <= Capacity
    BY <1>3, SMT DEF WorkerPop, Pop, TypeOK
  <2> QED BY <1>3, <2>1, <2>2, SMT DEF WorkerPop, Pop, GoOn, TypeOK
<1>4. ASSUME NEW t \in Threads, WorkerSleep(t) \/ WorkerExit(t) PROVE TypeOK'
  BY <1>4 DEF WorkerSleep, WorkerExit, PopSleep, PopNothing, GoOn, TypeOK, thread_vars,
              queue_vars, history
<1>5. ASSUME NEW t \in Threads, WorkerCount(t) \/ WorkerUncount(t) PROVE TypeOK'
  BY <1>0, <1>5 DEF WorkerCount, WorkerUncount, GoOn, TypeOK, queue_vars, history
<1>6. ASSUME NEW t \in Threads, WorkerRun(t) PROVE TypeOK'
  <2>1. PICK i \in 1..taken : log[i] = task[t]
    BY <1>6 DEF WorkerRun, At, Busy, TakenInv
  <2>2. i \in 1..Len(log)
    BY <2>1, SMT DEF QueueInv, TypeOK
  <2>3. task[t] \in Task
    BY <2>1, <2>2, SMT DEF TypeOK
  <2> QED BY <1>6, <2>3 DEF WorkerRun, GoOn, TypeOK, queue_vars
<1>7. ASSUME NEW t \in Threads, WorkerNotify(t) PROVE TypeOK'
  BY <1>7 DEF WorkerNotify, NotifyIdle, GoOn, TypeOK, queue_vars, history
<1>8. ASSUME Wait PROVE TypeOK'
  BY <1>8, SMT DEF Wait, WaitReadActive, WaitReadSize, WaitSleep, TypeOK, queue_vars,
              thread_vars, history
<1>9. ASSUME Shutdown PROVE TypeOK'
  BY <1>9 DEF Shutdown, ShutdownFlag, ShutdownQueue, ShutdownJoin, ShutdownNotify,
              QueueShutdown, NotifyIdle, TypeOK, queue_vars, thread_vars, history
<1>10. ASSUME UNCHANGED vars PROVE TypeOK'
  BY <1>10 DEF TypeOK, vars, queue_vars, thread_vars, history
<1> QED BY <1>1, <1>2, <1>3, <1>4, <1>5, <1>6, <1>7, <1>8, <1>9, <1>10
     DEF Next, Submit, WorkerLoop

(* An accepted task is new, and joins the end of the log and of the queue. *)
LEMMA AcceptStep ==
  ASSUME PoolInv, NEW p \in Producers, SubmitAccepted(p)
  PROVE  /\ QueueInv' /\ LogInv' /\ TakenInv' /\ ClosedInv'
         /\ Contract!Accept(<<p, count[p] + 1>>)
<1> DEFINE x == <<p, count[p] + 1>>
<1> USE DEF PoolInv, TypeOK
<1>1. /\ log' = Append(log, x) /\ queue' = Append(queue, x) /\ ~ closed
      /\ count' = [count EXCEPT ![p] = @ + 1]
      /\ UNCHANGED <<loop, task, taken, ran, closed, shut>>
  BY DEF SubmitAccepted, Push, thread_vars
<1>0. UNCHANGED <<loop, task, taken, ran, closed, shut>>
  BY <1>1
<1>2. x \in Task
  BY PoolAssumption, SMT DEF SubmitAccepted, Task
<1>3. /\ Len(log') = Len(log) + 1 /\ log'[Len(log) + 1] = x
      /\ \A i \in 1..Len(log) : log'[i] = log[i]
      /\ Len(queue') = Len(queue) + 1 /\ queue'[Len(queue) + 1] = x
      /\ \A i \in 1..Len(queue) : queue'[i] = queue[i]
  BY <1>1, <1>2, SMT
<1>4. \A i \in 1..Len(log) : log[i] # x
  <2>1. \A i \in 1..Len(log) : log[i][2] <= count[log[i][1]]
    BY DEF LogInv
  <2> QED BY <2>1, SMT
<1>5. QueueInv'
  BY <1>1, <1>3, SMT DEF QueueInv
<1>6. LogInv'
  <2>1. \A i \in 1..Len(log) : log[i] \in Task /\ log[i][1] \in Producers /\ log[i][2] \in Nat
    BY SMT DEF Task
  <2>2. ASSUME NEW i \in 1..Len(log') PROVE log'[i][2] <= count'[log'[i][1]]
    BY <1>1, <1>3, <2>1, SMT DEF LogInv
  <2>3. ASSUME NEW i \in 1..Len(log'), NEW j \in 1..Len(log'), log'[i] = log'[j]
        PROVE i = j
    <3>1. CASE i \in 1..Len(log) /\ j \in 1..Len(log)
      BY <1>3, <2>3, <3>1 DEF LogInv
    <3>2. \A k \in 1..Len(log') : k \in 1..Len(log) \/ k = Len(log) + 1
      BY <1>3, SMT
    <3>3. \A k \in 1..Len(log') : log'[k] = x <=> k = Len(log) + 1
      BY <1>3, <1>4, <3>2
    <3> QED BY <2>3, <3>1, <3>2, <3>3
  <2> QED BY <2>2, <2>3 DEF LogInv
<1>7. TakenInv'
  <2>1. \A i \in 1..taken : log'[i] = log[i]
    BY <1>3, SMT DEF QueueInv
  <2>2. \A t \in Threads : Busy(t)' <=> Busy(t)
    BY <1>0 DEF Busy
  <2>3. \A y \in ran' : \E i \in 1..taken' : log'[i] = y
    BY <1>0, <2>1 DEF TakenInv
  <2>4. \A t \in Threads : Busy(t)' =>
          task'[t] \notin ran' /\ \E i \in 1..taken' : log'[i] = task'[t]
    BY <1>0, <2>1, <2>2, SMT DEF TakenInv
  <2>5. \A r, s \in Threads : Busy(r)' /\ Busy(s)' /\ task'[r] = task'[s] => r = s
    BY <1>0, <2>2 DEF TakenInv
  <2>6. \A i \in 1..taken' :
          log'[i] \in ran' \/ \E t \in Threads : Busy(t)' /\ task'[t] = log'[i]
    BY <1>0, <2>1, <2>2, SMT DEF TakenInv
  <2> QED BY <2>3, <2>4, <2>5, <2>6 DEF TakenInv
<1>8. ClosedInv'
  BY <1>1 DEF ClosedInv
<1>9. Contract!Accept(x)
  <2>1. shut \notin {"notify", "done"}
    BY <1>1 DEF ClosedInv
  <2>2. \A i \in DOMAIN log : log[i] # x
    BY <1>4, SMTT(30)
  <2> QED BY <1>1, <2>1, <2>2 DEF Contract!Accept
<1> QED BY <1>5, <1>6, <1>7, <1>8, <1>9

(* A worker takes the oldest accepted task, which no other worker holds. *)
LEMMA PopStep ==
  ASSUME PoolInv, NEW t \in Threads, WorkerPop(t)
  PROVE  /\ QueueInv' /\ LogInv' /\ TakenInv' /\ ClosedInv'
         /\ Contract!Start
<1> USE DEF PoolInv, TypeOK
<1>1. /\ queue # <<>> /\ queue' = Tail(queue)
      /\ task' = [task EXCEPT ![t] = Head(queue)]
      /\ loop' = [loop EXCEPT ![t] = "popped"] /\ loop[t] = "pop"
      /\ taken' = taken + 1
      /\ UNCHANGED <<log, ran, closed, shut, count>>
  BY DEF WorkerPop, Pop, At, GoOn
<1>2. /\ Len(queue') = Len(queue) - 1 /\ Len(queue) > 0 /\ Head(queue) = queue[1]
      /\ \A i \in 1..Len(queue') : queue'[i] = queue[i + 1]
  BY <1>1, SMT
<1>3. Head(queue) = log[taken'] /\ taken' \in 1..Len(log)
  BY <1>1, <1>2, SMT DEF QueueInv
<1>4. QueueInv'
  <2>0. taken' = taken + 1 /\ log' = log
    BY <1>1
  <2>1. Len(log') = taken' + Len(queue')
    <3>1. Len(log) = taken + Len(queue)
      BY DEF QueueInv
    <3>2. Len(queue) \in Nat /\ taken \in Nat
      BY SMT
    <3>3. Len(log') = Len(log)
      BY <2>0
    <3> HIDE DEF PoolInv, TypeOK
    <3> QED BY <2>0, <1>2, <3>1, <3>2, <3>3, SMT
  <2>2. ASSUME NEW i \in 1..Len(queue') PROVE queue'[i] = log'[taken' + i]
    <3>1. i + 1 \in 1..Len(queue) /\ taken' + i = taken + (i + 1)
      BY <1>1, <1>2, SMT
    <3> QED BY <1>1, <1>2, <3>1 DEF QueueInv
  <2> QED BY <2>1, <2>2 DEF QueueInv
<1>5. LogInv'
  BY <1>1 DEF LogInv
<1>6. \A i \in 1..taken : log[i] # Head(queue)
  <2>1. \A i, j \in 1..Len(log) : log[i] = log[j] => i = j
    BY DEF LogInv
  <2>2. taken \in Nat /\ Len(log) \in Nat /\ taken' = taken + 1
    BY <1>1, SMT
  <2> HIDE DEF PoolInv, TypeOK
  <2> QED
    BY <1>3, <2>1, <2>2, SMT
<1>7. /\ \A s \in Threads \ {t} : task'[s] = task[s] /\ (Busy(s)' <=> Busy(s))
      /\ task'[t] = Head(queue) /\ Busy(t)' /\ ~ Busy(t)
  BY <1>1 DEF Busy
<1>8. TakenInv'
  <2>1. \A y \in ran' : \E i \in 1..taken' : log'[i] = y
    BY <1>1, SMT DEF TakenInv
  <2>2. ASSUME NEW s \in Threads, Busy(s)'
        PROVE task'[s] \notin ran' /\ \E i \in 1..taken' : log'[i] = task'[s]
    <3>1. CASE s = t
      <4>1. Head(queue) \notin ran
        BY <1>6 DEF TakenInv
      <4>2. taken' \in 1..taken'
        BY <1>1, SMT
      <4> QED BY <3>1, <1>1, <1>3, <1>7, <4>1, <4>2
    <3>2. CASE s # t
      BY <3>2, <2>2, <1>1, <1>7, SMT DEF TakenInv
    <3> QED BY <3>1, <3>2
  <2>3. ASSUME NEW r \in Threads, NEW s \in Threads, Busy(r)', Busy(s)', task'[r] = task'[s]
        PROVE r = s
    <3>1. \A q \in Threads \ {t} : Busy(q)' => task'[q] # Head(queue)
      BY <1>6, <1>7, SMT DEF TakenInv
    <3> QED BY <2>3, <3>1, <1>7 DEF TakenInv
  <2>4. ASSUME NEW i \in 1..taken'
        PROVE log'[i] \in ran' \/ \E s \in Threads : Busy(s)' /\ task'[s] = log'[i]
    <3>1. CASE i = taken'
      BY <3>1, <1>1, <1>3, <1>7
    <3>2. CASE i \in 1..taken
      <4>1. log[i] \in ran \/ \E s \in Threads : Busy(s) /\ task[s] = log[i]
        BY <3>2 DEF TakenInv
      <4> QED BY <4>1, <1>1, <1>7
    <3> QED BY <3>1, <3>2, <1>1, SMT
  <2> QED BY <2>1, <2>2, <2>3, <2>4 DEF TakenInv
<1>9. ClosedInv'
  BY <1>1 DEF ClosedInv
<1>10. Contract!Start
  BY <1>1, <1>3, SMT DEF Contract!Start, ClosedInv
<1> QED BY <1>4, <1>5, <1>8, <1>9, <1>10

(* A task finishes once: the worker that held it lets go of it. *)
LEMMA RunStep ==
  ASSUME PoolInv, NEW t \in Threads, WorkerRun(t)
  PROVE  /\ QueueInv' /\ LogInv' /\ TakenInv' /\ ClosedInv'
         /\ Contract!FinishTask(task[t]) /\ task[t] \in Task
<1> USE DEF PoolInv, TypeOK
<1>1. /\ ran' = ran \cup {task[t]}
      /\ task' = [task EXCEPT ![t] = NoTask]
      /\ loop' = [loop EXCEPT ![t] = "uncount"] /\ loop[t] = "run"
      /\ UNCHANGED <<log, taken, queue, closed, shut, count>>
  BY DEF WorkerRun, At, GoOn, queue_vars
<1>2. Busy(t) /\ ~ Busy(t)'
      /\ \A s \in Threads \ {t} : task'[s] = task[s] /\ (Busy(s)' <=> Busy(s))
  BY <1>1 DEF Busy
<1>3. PICK k \in 1..taken : log[k] = task[t]
  BY <1>2 DEF TakenInv
<1>4. task[t] \in Task
  BY <1>3, SMT DEF QueueInv
<1>5. QueueInv' /\ LogInv' /\ ClosedInv'
  BY <1>1 DEF QueueInv, LogInv, ClosedInv
<1>6. TakenInv'
  <2>1. \A y \in ran' : \E i \in 1..taken' : log'[i] = y
    BY <1>1, <1>3 DEF TakenInv
  <2>2. ASSUME NEW s \in Threads, Busy(s)'
        PROVE task'[s] \notin ran' /\ \E i \in 1..taken' : log'[i] = task'[s]
    BY <2>2, <1>1, <1>2, SMT DEF TakenInv
  <2>3. ASSUME NEW r \in Threads, NEW s \in Threads, Busy(r)', Busy(s)', task'[r] = task'[s]
        PROVE r = s
    BY <2>3, <1>1, <1>2, SMT DEF TakenInv
  <2>4. ASSUME NEW i \in 1..taken'
        PROVE log'[i] \in ran' \/ \E s \in Threads : Busy(s)' /\ task'[s] = log'[i]
    BY <1>1, <1>2 DEF TakenInv
  <2> QED BY <2>1, <2>2, <2>3, <2>4 DEF TakenInv
<1>7. Contract!FinishTask(task[t])
  BY <1>1, <1>2, <1>3 DEF Contract!FinishTask, TakenInv, ClosedInv
<1> QED BY <1>4, <1>5, <1>6, <1>7

(* The remaining steps leave the log, the queue and the tasks held alone. *)
LEMMA OtherSteps ==
  ASSUME PoolInv,
         \/ \E p \in Producers : SubmitBlocks(p) \/ SubmitThrows(p)
         \/ \E t \in Threads : \/ WorkerSleep(t) \/ WorkerExit(t) \/ WorkerCount(t)
                               \/ WorkerUncount(t) \/ WorkerNotify(t)
         \/ Wait \/ Shutdown \/ UNCHANGED vars
  PROVE  /\ QueueInv' /\ LogInv' /\ TakenInv' /\ ClosedInv'
         /\ Contract!Close \/ Contract!Stop \/ UNCHANGED Contract!pool_vars
<1> USE DEF PoolInv, TypeOK
<1>1. UNCHANGED <<queue, log, taken, ran, task, count>>
      /\ \A t \in Threads : Busy(t)' <=> Busy(t)
  <2>1. CASE \E p \in Producers : SubmitBlocks(p) \/ SubmitThrows(p)
    BY <2>1 DEF SubmitBlocks, SubmitThrows, PushSleep, PushRefused, queue_vars,
                thread_vars, history, Busy
  <2>2. CASE \E t \in Threads : \/ WorkerSleep(t) \/ WorkerExit(t) \/ WorkerCount(t)
                               \/ WorkerUncount(t) \/ WorkerNotify(t)
    BY <2>2 DEF WorkerSleep, WorkerExit, WorkerCount, WorkerUncount, WorkerNotify, At,
                GoOn, PopSleep, PopNothing, queue_vars, thread_vars, history, Busy
  <2>3. CASE Wait \/ Shutdown \/ UNCHANGED vars
    BY <2>3 DEF Wait, WaitReadActive, WaitReadSize, WaitSleep, Shutdown, ShutdownFlag,
                ShutdownQueue, ShutdownJoin, ShutdownNotify, QueueShutdown, queue_vars,
                thread_vars, history, vars, Busy
  <2> QED BY <2>1, <2>2, <2>3
<1>2. QueueInv' /\ LogInv'
  BY <1>1 DEF QueueInv, LogInv
<1>3. TakenInv'
  BY <1>1 DEF TakenInv
<1>4. CASE ShutdownQueue
  <2>1. /\ shut = "queue" /\ shut' = "join" /\ closed' /\ ~ closed
        /\ UNCHANGED <<loop, queue>>
    BY <1>4 DEF ShutdownQueue, QueueShutdown, thread_vars, ClosedInv
  <2> QED BY <1>1, <1>2, <1>3, <2>1 DEF ClosedInv, Contract!Close
<1>5. CASE ShutdownJoin
  <2>1. /\ shut = "join" /\ shut' = "notify" /\ \A t \in Threads : loop[t] = "exited"
        /\ UNCHANGED <<loop, queue, closed>> /\ closed
    BY <1>5 DEF ShutdownJoin, thread_vars, queue_vars, ClosedInv
  <2>2. queue = <<>>
    BY <2>1, PoolAssumption DEF ClosedInv
  <2>3. taken = Len(log)
    BY <2>2, SMT DEF QueueInv
  <2>4. \A i \in 1..taken : log[i] \in ran
    BY <2>1 DEF TakenInv, Busy
  <2>5. \A i \in DOMAIN log : log[i] \in ran
    BY <2>3, <2>4, SMT
  <2> QED BY <1>1, <1>2, <1>3, <2>1, <2>5 DEF ClosedInv, Contract!Stop
<1>6. CASE ~ ShutdownQueue /\ ~ ShutdownJoin
  <2>1. /\ closed' = closed
        /\ shut' = shut \/ (shut = "call" /\ shut' = "queue")
             \/ (shut = "notify" /\ shut' = "done")
        /\ \A t \in Threads : loop[t] = "exited" => loop'[t] = "exited"
        /\ \A t \in Threads : loop'[t] = "exited" =>
             loop[t] = "exited" \/ (closed /\ queue = <<>>)
    <3>1. CASE \E p \in Producers : SubmitBlocks(p) \/ SubmitThrows(p)
      BY <3>1 DEF SubmitBlocks, SubmitThrows, PushSleep, PushRefused, queue_vars, thread_vars
    <3>2. CASE \E t \in Threads : \/ WorkerSleep(t) \/ WorkerExit(t) \/ WorkerCount(t)
                                 \/ WorkerUncount(t) \/ WorkerNotify(t)
      BY <3>2 DEF WorkerSleep, WorkerExit, WorkerCount, WorkerUncount, WorkerNotify, At,
                  GoOn, PopSleep, PopNothing, queue_vars, thread_vars
    <3>3. CASE Wait \/ Shutdown \/ UNCHANGED vars
      BY <3>3, <1>6 DEF Wait, WaitReadActive, WaitReadSize, WaitSleep, Shutdown,
                  ShutdownFlag, ShutdownNotify, queue_vars, thread_vars, vars
    <3> QED BY <3>1, <3>2, <3>3
  <2>2. ClosedInv'
    BY <1>1, <2>1 DEF ClosedInv
  <2> QED BY <1>1, <1>2, <1>3, <2>1, <2>2 DEF Contract!pool_vars
<1> QED BY <1>4, <1>5, <1>6

(* Every step preserves the invariant and is a step of TaskPool. *)
LEMMA PoolStep ==
  ASSUME PoolInv, [Next]_vars
  PROVE  PoolInv' /\ [Contract!PoolNext]_(Contract!pool_vars)
<1>1. TypeOK' /\ ActiveCounted'
  BY TypeStep, ActiveStep DEF PoolInv
<1>2. ASSUME NEW p \in Producers, SubmitAccepted(p)
      PROVE  PoolInv' /\ Contract!PoolNext
  <2>1. <<p, count[p] + 1>> \in Task
    BY <1>2, PoolAssumption, SMT DEF SubmitAccepted, Task, PoolInv, TypeOK
  <2> QED BY <1>1, <1>2, <2>1, AcceptStep DEF PoolInv, Contract!PoolNext
<1>3. ASSUME NEW t \in Threads, WorkerPop(t)
      PROVE  PoolInv' /\ Contract!PoolNext
  BY <1>1, <1>3, PopStep DEF PoolInv, Contract!PoolNext
<1>4. ASSUME NEW t \in Threads, WorkerRun(t)
      PROVE  PoolInv' /\ Contract!PoolNext
  BY <1>1, <1>4, RunStep DEF PoolInv, Contract!PoolNext
<1>5. ASSUME \/ \E p \in Producers : SubmitBlocks(p) \/ SubmitThrows(p)
             \/ \E t \in Threads : \/ WorkerSleep(t) \/ WorkerExit(t) \/ WorkerCount(t)
                                   \/ WorkerUncount(t) \/ WorkerNotify(t)
             \/ Wait \/ Shutdown \/ UNCHANGED vars
      PROVE  PoolInv' /\ [Contract!PoolNext]_(Contract!pool_vars)
  BY <1>1, <1>5, OtherSteps DEF PoolInv, Contract!PoolNext
<1> QED BY <1>2, <1>3, <1>4, <1>5 DEF Next, Submit, WorkerLoop

(* The initial state satisfies the invariant and is TaskPool's. *)
LEMMA PoolStart ==
  ASSUME Init
  PROVE  PoolInv /\ Contract!PoolInit
<1> USE PoolAssumption, CapacityAssumption DEF Init, QueueInit
<1>1. TypeOK
  <2>1. queue \in Seq(Task) /\ log \in Seq(Task) /\ Len(queue) <= Capacity
    BY SMT
  <2>2. loop \in [Threads -> {"pop", "popped", "run", "uncount", "notify", "exited"}]
    OBVIOUS
  <2>3. task \in [Threads -> Task \cup {NoTask}]
    OBVIOUS
  <2>4. submit \in [Producers -> {"ready", "threw"}] /\ count \in [Producers -> 0..MaxTasks]
    BY SMT
  <2>5. waiter \in {"call", "active", "size", "sleep", "asleep", "returned"}
        /\ shut \in {"call", "queue", "join", "notify", "done"}
    OBVIOUS
  <2> QED BY <2>1, <2>2, <2>3, <2>4, <2>5 DEF TypeOK
<1>2. ActiveCounted
  <2>1. {t \in Threads : loop[t] \in {"run", "uncount"}} = {}
    OBVIOUS
  <2> QED BY <2>1, FS_EmptySet DEF ActiveCounted
<1>3. QueueInv /\ LogInv /\ TakenInv /\ ClosedInv
  <2>1. Len(log) = 0 /\ Len(queue) = 0 /\ taken = 0 /\ ran = {} /\ ~ closed
    OBVIOUS
  <2>2. shut = "call" /\ \A t \in Threads : loop[t] = "pop"
    OBVIOUS
  <2>3. QueueInv
    BY <2>1, SMT DEF QueueInv
  <2>4. LogInv
    BY <2>1, SMT DEF LogInv
  <2>5. TakenInv
    BY <2>1, <2>2, SMT DEF TakenInv, Busy
  <2>6. ClosedInv
    BY <2>1, <2>2 DEF ClosedInv
  <2> QED BY <2>3, <2>4, <2>5, <2>6
<1>4. Contract!PoolInit
  BY DEF Contract!PoolInit
<1> QED BY <1>1, <1>2, <1>3, <1>4 DEF PoolInv

(* PoolInv is an invariant: in particular queue_ stays within capacity_ and *)
(* every accepted task is queued, held by exactly one worker, or has run.   *)
THEOREM PoolInvariant == Spec => []PoolInv
<1>1. Init => PoolInv
  BY PoolStart
<1>2. PoolInv /\ [Next]_vars => PoolInv'
  BY PoolStep
<1> QED BY <1>1, <1>2, PTL DEF Spec

(* active_tasks_ counts the workers between fetch_add and fetch_sub, for    *)
(* any number of worker threads.                                            *)
THEOREM ActiveExact == Spec => []ActiveCounted
BY PoolInvariant, PTL DEF PoolInv

(* ThreadPool implements TaskPool: tasks are started in the order Submit    *)
(* accepted them and once each, Submit accepts none after Shutdown has      *)
(* closed the queue, and Shutdown joins only when all of them have run.     *)
THEOREM PoolRefines == Spec => ImplementsTaskPool
<1>1. Init => Contract!PoolInit
  BY PoolStart
<1>2. PoolInv /\ [Next]_vars => [Contract!PoolNext]_(Contract!pool_vars)
  BY PoolStep
<1> QED BY <1>1, <1>2, PoolInvariant, PTL DEF Spec, ImplementsTaskPool, Contract!PoolSpec

(* Shutdown loses no accepted task, whatever the interleaving of producers, *)
(* workers and the thread that shuts the pool down.                         *)
THEOREM ShutdownGraceful == Spec => []GracefulShutdown
<1>1. PoolInv => GracefulShutdown
  <2> SUFFICES ASSUME PoolInv, shut \in {"notify", "done"}
               PROVE  \A i \in DOMAIN log : log[i] \in ran
    BY DEF GracefulShutdown
  <2>1. \A t \in Threads : loop[t] = "exited"
    BY DEF PoolInv, ClosedInv
  <2>2. queue = <<>>
    BY <2>1, PoolAssumption DEF PoolInv, ClosedInv
  <2>3. taken = Len(log) /\ DOMAIN log = 1..Len(log)
    BY <2>2, SMT DEF PoolInv, QueueInv, TypeOK
  <2>4. \A i \in 1..taken : log[i] \in ran
    BY <2>1 DEF PoolInv, TakenInv, Busy
  <2> QED BY <2>3, <2>4
<1> QED BY <1>1, PoolInvariant, PTL

\* What WaitForIdle has seen when it returns.
IdleInv == seen \in 0..Len(log) /\ IdleDrained

(* What is accepted and what is taken only grows, and shutdown_ stays set. *)
LEMMA Progress ==
  ASSUME PoolInv, [Next]_vars
  PROVE  taken' >= taken /\ Len(log') >= Len(log) /\ (ShutdownSet => ShutdownSet')
<1> USE DEF PoolInv, TypeOK
<1>1. ASSUME NEW p \in Producers, SubmitAccepted(p)
      PROVE  Len(log') = Len(log) + 1 /\ UNCHANGED <<taken, shut>>
  <2>1. <<p, count[p] + 1>> \in Task
    BY <1>1, PoolAssumption, SMT DEF SubmitAccepted, Task
  <2> QED BY <1>1, <2>1, SMT DEF SubmitAccepted
<1>2. ASSUME NEW t \in Threads, WorkerPop(t)
      PROVE  taken' = taken + 1 /\ UNCHANGED <<log, shut>>
  BY <1>2 DEF WorkerPop
<1>3. ASSUME \/ \E p \in Producers : SubmitBlocks(p) \/ SubmitThrows(p)
             \/ \E t \in Threads : \/ WorkerSleep(t) \/ WorkerExit(t) \/ WorkerCount(t)
                                   \/ WorkerRun(t) \/ WorkerUncount(t) \/ WorkerNotify(t)
             \/ Wait \/ Shutdown \/ UNCHANGED vars
      PROVE  UNCHANGED <<log, taken>> /\ (ShutdownSet => ShutdownSet')
  BY <1>3 DEF SubmitBlocks, SubmitThrows, WorkerSleep, WorkerExit, WorkerCount, WorkerRun,
     WorkerUncount, WorkerNotify, Wait, WaitReadActive, WaitReadSize, WaitSleep, Shutdown,
     ShutdownFlag, ShutdownQueue, ShutdownJoin, ShutdownNotify, vars, history, ShutdownSet
<1> QED BY <1>1, <1>2, <1>3, SMT DEF Next, Submit, WorkerLoop, ShutdownSet

(* WaitForIdle, unless the pool is shut down, returns only after every task *)
(* accepted before the call has left the queue: the queue is read last, so  *)
(* reading the counter first is harmless.                                   *)
THEOREM IdleSeesQueue == Spec => []IdleDrained
<1>1. Init => IdleInv
  BY SMT DEF Init, IdleInv, IdleDrained
<1>2. ASSUME PoolInv, IdleInv, [Next]_vars PROVE IdleInv'
  <2> USE DEF PoolInv, TypeOK
  <2>1. taken' >= taken /\ Len(log') >= Len(log) /\ (ShutdownSet => ShutdownSet')
    BY <1>2, Progress
  <2>2. taken' \in Nat /\ Len(log') \in Nat /\ Len(log) \in Nat
    BY <1>2, PoolStep, SMT
  <2>3. CASE WaitReadActive
    <3>1. UNCHANGED <<log, taken, shut>> /\ seen' \in {seen, Len(log)}
      BY <2>3 DEF WaitReadActive
    <3>2. waiter' = "returned" => ShutdownSet'
      BY <2>3 DEF WaitReadActive, ShutdownSet
    <3> QED BY <1>2, <3>1, <3>2, <2>2, SMT DEF IdleInv, IdleDrained
  <2>4. CASE WaitReadSize
    <3>1. UNCHANGED <<log, taken, shut, seen>>
          /\ (waiter' = "returned" => queue = <<>> \/ ShutdownSet')
      BY <2>4 DEF WaitReadSize, history, ShutdownSet
    <3>2. queue = <<>> => taken = Len(log)
      BY <1>2, SMT DEF QueueInv
    <3> QED BY <1>2, <3>1, <3>2, <2>2, SMT DEF IdleInv, IdleDrained
  <2>5. CASE ~ WaitReadActive /\ ~ WaitReadSize
    <3>1. seen' = seen /\ (waiter' = "returned" => waiter = "returned")
      BY <1>2, <2>5 DEF Next, Submit, SubmitAccepted, SubmitBlocks, SubmitThrows, WorkerLoop,
         WorkerPop, WorkerSleep, WorkerExit, WorkerCount, WorkerRun, WorkerUncount,
         WorkerNotify, NotifyIdle, Wait, WaitSleep, Shutdown, ShutdownFlag, ShutdownQueue,
         ShutdownJoin, ShutdownNotify, vars, history
    <3> QED BY <1>2, <3>1, <2>1, <2>2, SMT DEF IdleInv, IdleDrained
  <2> QED BY <2>3, <2>4, <2>5
<1>3. IdleInv => IdleDrained
  BY DEF IdleInv
<1> QED BY <1>1, <1>2, <1>3, PoolInvariant, PTL DEF Spec

----------------------------------------------------------------------------
(* The server around the pool.                                             *)

\* Every step of the server is a step of its pool or leaves the pool alone.
LEMMA ServerStepsPool == [ServerNext]_server_vars => [Next]_vars
<1> SUFFICES ASSUME ServerNext \/ UNCHANGED server_vars PROVE Next \/ UNCHANGED vars
  OBVIOUS
<1>1. CASE UNCHANGED server_vars
  BY <1>1 DEF server_vars
<1>2. ASSUME NEW n \in NetThreads, NetThread(n) PROVE Next \/ UNCHANGED vars
  <2>1. CASE OnReadBlocks(n) \/ OnReadSubmits(n)
    BY <2>1, ServerAssumption DEF OnReadBlocks, OnReadSubmits, Next, Submit
  <2>2. CASE \/ \E c \in Conns : \/ DoAccept(n, c) \/ OnReadLast(n, c) \/ OnReadNotFound(n, c)
                                 \/ OnRead(n, c) \/ WriteResponse(n, c) \/ OnWrite(n, c)
             \/ OnSignal(n) \/ RunReturns(n)
    BY <2>2 DEF DoAccept, OnReadLast, OnReadNotFound, OnRead, WriteResponse, OnWrite, OnSignal,
       RunReturns
  <2> QED
    BY <1>2, <2>1, <2>2 DEF NetThread
<1>3. ASSUME NEW t \in Threads, PoolThread(t) PROVE Next
  BY <1>3 DEF PoolThread, RunTask, Next, WorkerLoop
<1>4. CASE Maintenance
  BY <1>4, ServerAssumption DEF Maintenance, MaintenanceWakes, MaintenanceSubmits,
     MaintenanceBlocks, MaintenanceExits, Next, Submit
<1>5. CASE Main
  BY <1>5 DEF Main, MainJoins, MainWaits, MainWaited, MainMaintenance, MainContext, MainPool,
     MainReturns, Next
<1> QED
  BY <1>1, <1>2, <1>3, <1>4, <1>5 DEF ServerNext

\* bin/main.cpp uses the pool as ThreadPool allows, so that everything proved of
\* the pool holds of storage_pool in the server.
THEOREM ServerUsesPool == ServerSpec => Spec
<1>1. ServerInit => Init
  BY DEF ServerInit
<1> QED
  BY <1>1, ServerStepsPool, PTL DEF ServerSpec, Spec

\* Where the threads are at each point of the shutdown.  A network thread leaves
\* run() only after the signal, which also asks the maintenance thread to stop;
\* so once the network threads are joined that thread submits at most the one
\* purge it was about to, and it submits no request.
StopInv ==
  /\ net \in [NetThreads -> {"run", "submit", "exited"}]
  /\ DOMAIN job = Task
  /\ \A k \in 1..MaxTasks : job[<<maintenance, k>>] = {}
  /\ \A n \in NetThreads : net[n] = "exited" => stopped
  /\ stopped => stop_requested
  /\ main # "join" => \A n \in NetThreads : net[n] = "exited"
  /\ waiter # "call" => main # "join"
  /\ main \in {"maintenance", "context", "pool", "returned"} => waiter = "returned"
  /\ main \in {"context", "pool", "returned"} => maint = "exited"
  /\ main \in {"join", "idle", "maintenance", "context"} => shut = "call"
  /\ main \in {"join", "idle", "maintenance", "context", "pool", "returned"}

\* What WaitForIdle saw and a last purge.
IdleQueueInv ==
  waiter = "returned" =>
    /\ Len(queue) <= 1
    /\ maint = "submit" => Len(queue) = 0
    /\ \A i \in 1..Len(queue) : job[queue[i]] = {}

\* A step that leaves all of StopInv's variables but one network thread's alone.
LEMMA NetKeepsStop ==
  ASSUME StopInv, NEW n \in NetThreads, NEW w \in {"run", "submit"}, net[n] # "exited",
         net' = [net EXCEPT ![n] = w] \/ UNCHANGED net, DOMAIN job' = DOMAIN job,
         \A k \in 1..MaxTasks : job'[<<maintenance, k>>] = job[<<maintenance, k>>],
         UNCHANGED <<stopped, stop_requested, main, waiter, maint, shut>>
  PROVE  StopInv'
<1>1. net' \in [NetThreads -> {"run", "submit", "exited"}]
  BY DEF StopInv
<1>2. \A m \in NetThreads : net'[m] = "exited" <=> net[m] = "exited"
  BY DEF StopInv
<1> QED
  BY <1>1, <1>2 DEF StopInv

\* A handler or the end of run() keeps the order of the shutdown.
LEMMA NetStopStep ==
  ASSUME StopInv, NEW n \in NetThreads, NetThread(n)
  PROVE  StopInv'
<1> USE DEF vars, queue_vars, thread_vars, history, net_vars, life_vars
<1>1. ASSUME NEW c \in Conns,
             \/ DoAccept(n, c) \/ OnReadLast(n, c) \/ OnReadNotFound(n, c)
             \/ OnRead(n, c) \/ WriteResponse(n, c) \/ OnWrite(n, c)
      PROVE  StopInv'
  <2>1. /\ net[n] # "exited" /\ (net' = [net EXCEPT ![n] = "submit"] \/ UNCHANGED net)
        /\ UNCHANGED <<stopped, stop_requested, main, waiter, maint, shut, job>>
    BY <1>1 DEF DoAccept, OnReadLast, OnReadNotFound, OnRead, WriteResponse, OnWrite, Handler
  <2> QED
    BY <2>1, NetKeepsStop
<1>2. CASE OnReadBlocks(n)
  BY <1>2, NetKeepsStop DEF OnReadBlocks, SubmitBlocks
<1>3. CASE OnReadSubmits(n)
  <2>1. /\ net[n] # "exited" /\ net' = [net EXCEPT ![n] = "run"]
        /\ job' = [job EXCEPT ![<<n, count[n] + 1>>] = holds[n]]
        /\ UNCHANGED <<stopped, stop_requested, main, waiter, maint, shut>>
    BY <1>3 DEF OnReadSubmits, SubmitAccepted
  <2>2. \A k \in 1..MaxTasks : job'[<<maintenance, k>>] = job[<<maintenance, k>>]
    <3> TAKE k \in 1..MaxTasks
    <3>1. <<maintenance, k>> # <<n, count[n] + 1>> /\ <<maintenance, k>> \in Task
      BY ServerAssumption DEF Task
    <3> QED
      BY <2>1, <3>1 DEF StopInv
  <2> QED
    BY <2>1, <2>2, NetKeepsStop
<1>4. CASE OnSignal(n)
  BY <1>4 DEF OnSignal, StopInv
<1>5. CASE RunReturns(n)
  BY <1>5 DEF RunReturns, StopInv
<1> QED
  BY <1>1, <1>2, <1>3, <1>4, <1>5 DEF NetThread

\* No step undoes the order of the shutdown.
LEMMA StopStep ==
  ASSUME StopInv, [ServerNext]_server_vars
  PROVE  StopInv'
<1> USE DEF vars, queue_vars, thread_vars, history, net_vars, life_vars
<1>1. ASSUME NEW t \in Threads, PoolThread(t) PROVE StopInv'
  <2>1. /\ UNCHANGED <<net, job, stopped, stop_requested, main, maint, shut>>
        /\ waiter' # waiter => waiter = "asleep" /\ waiter' = "active"
    BY <1>1 DEF PoolThread, RunTask, WorkerPop, WorkerSleep, WorkerExit, WorkerCount, WorkerRun,
       WorkerUncount, WorkerNotify, NotifyIdle
  <2> QED
    BY <2>1 DEF StopInv
<1>2. CASE Maintenance
  <2>1. /\ maint # "exited"
        /\ UNCHANGED <<net, job, stopped, stop_requested, main, waiter, shut>>
    BY <1>2 DEF Maintenance, MaintenanceWakes, MaintenanceExits, MaintenanceSubmits,
       MaintenanceBlocks, SubmitAccepted, SubmitBlocks
  <2> QED
    BY <2>1 DEF StopInv
<1>4. CASE MainJoins
  BY <1>4 DEF MainJoins, MainGoes, StopInv
<1>5. CASE MainWaits
  <2>1. /\ main = "idle"
        /\ UNCHANGED <<net, job, stopped, stop_requested, main, maint, shut>>
    BY <1>5 DEF MainWaits, Wait, WaitReadActive, WaitReadSize, WaitSleep
  <2> QED
    BY <2>1 DEF StopInv
<1>6. CASE MainWaited \/ MainMaintenance \/ MainContext \/ MainReturns
  <2>1. /\ UNCHANGED <<net, job, stopped, waiter, maint, shut>>
        /\ stop_requested' = TRUE \/ UNCHANGED stop_requested
    BY <1>6 DEF MainWaited, MainMaintenance, MainContext, MainReturns
  <2>2. \/ main = "idle" /\ main' = "maintenance" /\ waiter = "returned"
        \/ main = "maintenance" /\ main' = "context" /\ maint = "exited"
        \/ main = "context" /\ main' = "pool"
        \/ main = "pool" /\ main' = "returned"
    BY <1>6 DEF MainWaited, MainMaintenance, MainContext, MainReturns, MainGoes
  <2> QED
    BY <2>1, <2>2 DEF StopInv
<1>7. CASE MainPool
  <2>1. /\ main = "pool" /\ UNCHANGED <<net, job, stopped, stop_requested, main, maint>>
        /\ waiter = "returned" => waiter' = "returned"
    BY <1>7 DEF MainPool, Shutdown, ShutdownFlag, ShutdownQueue, ShutdownJoin, ShutdownNotify,
       NotifyIdle
  <2> QED
    BY <2>1 DEF StopInv
<1>8. CASE UNCHANGED server_vars
  BY <1>8 DEF server_vars, StopInv
<1> QED
  BY <1>1, <1>2, <1>4, <1>5, <1>6, <1>7, <1>8, NetStopStep DEF ServerNext, Main

\* After WaitForIdle has returned there is no network thread to submit a request,
\* and the maintenance thread has been asked to stop.
LEMMA IdleQueueStep ==
  ASSUME NetThreads # {}, PoolInv, StopInv, IdleQueueInv, [ServerNext]_server_vars
  PROVE  IdleQueueInv'
<1> USE DEF vars, queue_vars, thread_vars, history, net_vars, life_vars
<1>0. waiter = "returned" => stop_requested /\ \A n \in NetThreads : net[n] = "exited"
  BY DEF StopInv
<1>t. queue \in Seq(Task) /\ Len(queue) \in Nat /\ maintenance \in Producers
  BY ServerAssumption, SMT DEF PoolInv, TypeOK
<1>k. ASSUME UNCHANGED <<waiter, queue, maint, job>> PROVE IdleQueueInv'
  BY <1>k DEF IdleQueueInv
<1>c. ASSUME waiter' # "returned" PROVE IdleQueueInv'
  BY <1>c DEF IdleQueueInv
<1>1. ASSUME NEW n \in NetThreads, NetThread(n) PROVE IdleQueueInv'
  <2>1. CASE net[n] = "exited"
    BY <1>1, <2>1 DEF NetThread, DoAccept, OnReadLast, OnReadNotFound, OnRead, WriteResponse,
       OnWrite, OnSignal, RunReturns, OnReadBlocks, OnReadSubmits, Handler
  <2>2. UNCHANGED waiter
    BY <1>1 DEF NetThread, DoAccept, OnReadLast, OnReadNotFound, OnRead, WriteResponse,
       OnWrite, OnSignal, RunReturns, OnReadBlocks, OnReadSubmits, SubmitBlocks, SubmitAccepted
  <2> QED
    BY <1>0, <1>c, <2>1, <2>2
<1>2. ASSUME NEW t \in Threads, WorkerPop(t), UNCHANGED <<net_vars, life_vars, job>>
      PROVE  IdleQueueInv'
  <2>1. queue # <<>> /\ queue' = Tail(queue) /\ UNCHANGED <<waiter, maint, job>>
    BY <1>2 DEF WorkerPop, Pop
  <2>2. Len(queue') = Len(queue) - 1 /\ \A i \in 1..Len(queue') : queue'[i] = queue[i+1]
    BY <1>t, <2>1, SMT
  <2>3. Len(queue) # 0
    BY <1>t, <2>1, SMT
  <2>4. Len(queue) <= 1 => Len(queue') = 0 /\ Len(queue') <= 1 /\ 1..Len(queue') = {}
    BY <1>t, <2>2, <2>3, SMT
  <2> QED
    BY <2>1, <2>4 DEF IdleQueueInv
<1>3. ASSUME NEW t \in Threads, PoolThread(t) PROVE IdleQueueInv'
  <2>1. CASE WorkerPop(t) /\ UNCHANGED <<net_vars, life_vars, job>>
    BY <1>2, <2>1
  <2>2. CASE ~ (WorkerPop(t) /\ UNCHANGED <<net_vars, life_vars, job>>)
    <3>1. UNCHANGED <<queue, maint, job>> /\ (UNCHANGED waiter \/ waiter' = "active")
      BY <1>3, <2>2 DEF PoolThread, RunTask, WorkerSleep, PopSleep, WorkerExit, PopNothing,
         WorkerCount, WorkerRun, WorkerUncount, WorkerNotify, NotifyIdle
    <3> QED
      BY <3>1, <1>k, <1>c
  <2> QED
    BY <2>1, <2>2
<1>4. CASE MaintenanceWakes \/ MaintenanceBlocks \/ MaintenanceExits
  BY <1>4, <1>0 DEF MaintenanceWakes, MaintenanceBlocks, MaintenanceExits, SubmitBlocks,
     PushSleep, IdleQueueInv
<1>5. CASE MaintenanceSubmits
  <2>1. PICK x : x = <<maintenance, count[maintenance] + 1>>
    OBVIOUS
  <2>2. /\ queue' = Append(queue, x) /\ maint = "submit" /\ maint' = "sleep"
        /\ count[maintenance] < MaxTasks /\ UNCHANGED <<waiter, job>>
    BY <1>5, <2>1 DEF MaintenanceSubmits, SubmitAccepted, Push
  <2>3. count[maintenance] + 1 \in 1..MaxTasks
    BY <1>t, <2>2, PoolAssumption, SMT DEF PoolInv, TypeOK
  <2>4. x \in Task /\ job[x] = {}
    BY <1>t, <2>1, <2>3 DEF Task, StopInv
  <2>5. Len(queue) = 0 => Len(queue') = 1 /\ Len(queue') <= 1 /\ 1..Len(queue') = {1} /\ queue'[1] = x
    BY <1>t, <2>2, <2>4, SMT
  <2> QED
    BY <2>2, <2>4, <2>5 DEF IdleQueueInv
<1>6. CASE MainJoins \/ MainWaited \/ MainMaintenance \/ MainContext \/ MainReturns
  BY <1>6, <1>k DEF MainJoins, MainWaited, MainMaintenance, MainContext, MainReturns
<1>7. CASE MainWaits
  <2>1. /\ main = "idle" /\ UNCHANGED <<queue, maint, job>>
        /\ waiter' = "returned" => waiter = "returned" \/ queue = <<>> \/ ShutdownSet
    BY <1>7 DEF MainWaits, Wait, WaitReadActive, WaitReadSize, WaitSleep
  <2>2. ~ ShutdownSet
    BY <2>1 DEF StopInv, ShutdownSet
  <2>3. queue = <<>> => Len(queue) = 0 /\ Len(queue) <= 1 /\ 1..Len(queue) = {}
    BY SMT
  <2> QED
    BY <2>1, <2>2, <2>3 DEF IdleQueueInv
<1>8. CASE MainPool
  <2>1. UNCHANGED <<queue, maint, job>> /\ (UNCHANGED waiter \/ waiter' = "active")
    BY <1>8 DEF MainPool, Shutdown, ShutdownFlag, ShutdownQueue, QueueShutdown, ShutdownJoin,
       ShutdownNotify, NotifyIdle
  <2> QED
    BY <2>1, <1>k, <1>c
<1>9. CASE UNCHANGED server_vars
  BY <1>9, <1>k DEF server_vars
<1> QED
  BY <1>1, <1>3, <1>4, <1>5, <1>6, <1>7, <1>8, <1>9 DEF ServerNext, Maintenance, Main

\* When ioc, ctx and the services are destroyed the threads that could use them
\* or the pool are gone, and the queue holds at most one purge, for any number of
\* connections, threads and tasks.  A server with no network thread is left out:
\* it serves nothing, handles no signal and goes down at once.
THEOREM QueueEmptyOfRequests ==
  ASSUME NetThreads # {} PROVE ServerSpec => []QueueAtDestruction
<1>1. ServerInit => StopInv /\ IdleQueueInv
  <2> SUFFICES ASSUME ServerInit PROVE StopInv /\ IdleQueueInv
    OBVIOUS
  <2>1. \A k \in 1..MaxTasks : <<maintenance, k>> \in Task
    BY ServerAssumption DEF Task
  <2> QED
    BY <2>1 DEF ServerInit, Init, StopInv, IdleQueueInv
<1>2. PoolInv /\ StopInv /\ IdleQueueInv /\ [ServerNext]_server_vars => (StopInv /\ IdleQueueInv)'
  BY StopStep, IdleQueueStep
<1>3. PoolInv /\ StopInv /\ IdleQueueInv => QueueAtDestruction
  <2>1. PoolInv => DOMAIN queue = 1..Len(queue)
    BY SMT DEF PoolInv, TypeOK
  <2> QED
    BY <2>1 DEF StopInv, IdleQueueInv, QueueAtDestruction, ContextGone
<1> QED
  BY <1>1, <1>2, <1>3, ServerUsesPool, PoolInvariant, PTL DEF ServerSpec
=============================================================================
