------------------------------- MODULE Server -------------------------------
(***************************************************************************)
(* The process as bin/main.cpp builds and takes it down: the listener, the *)
(* HTTP sessions on the network threads, the storage pool that runs        *)
(* DispatchHttp, the maintenance thread, the signal handler, and the       *)
(* destructors in reverse order of declaration.                            *)
(*                                                                         *)
(* The pool is ThreadPool: its producers are the network threads and the   *)
(* maintenance thread, WaitForIdle is called by main once the network      *)
(* threads are joined, and Shutdown by the pool's destructor, so the pool  *)
(* is never closed while it has producers.  A handler is one step except   *)
(* where Submit can block it.  The parsing of a request, the token test    *)
(* before Submit and what DispatchHttp does are other modules' matter.     *)
(***************************************************************************)
EXTENDS ThreadPool

CONSTANTS
  Conns,         \* connections
  NetThreads,    \* threads in ioc.run()
  maintenance    \* the maintenance thread

ASSUME ServerAssumption ==
  /\ Producers = NetThreads \cup {maintenance}
  /\ maintenance \notin NetThreads

VARIABLES
  conn,             \* [Conns -> what the session of the connection waits for]
  net,              \* [NetThreads -> "run", "submit" or "exited"]
  holds,            \* [NetThreads -> SUBSET Conns]: the session whose OnRead
                    \* has called Submit, at most one
  job,              \* [Task -> SUBSET Conns]: the request, none for a purge
  listening,        \* the acceptor is open
  stopped,          \* ioc.stop() was called
  stop_requested,   \* of the maintenance thread's stop token
  maint,            \* "sleep", "submit" or "exited"
  main              \* where main is after it has started the threads

net_vars == <<conn, net, holds, listening, stopped>>
life_vars == <<stop_requested, maint, main>>
server_vars == <<vars, net_vars, life_vars, job>>

ServerInit ==
  /\ Init
  /\ conn = [c \in Conns |-> "none"]
  /\ net = [n \in NetThreads |-> "run"]
  /\ holds = [n \in NetThreads |-> {}]
  /\ job = [x \in Task |-> {}]
  /\ listening = TRUE
  /\ stopped = FALSE
  /\ stop_requested = FALSE
  /\ maint = "sleep"
  /\ main = "join"

----------------------------------------------------------------------------
(* Handlers of the io_context, run by any network thread that is not in    *)
(* another handler.  After stop() no further handler is begun.             *)

Handler(n) == net[n] = "run" /\ ~ stopped

Becomes(c, state) == conn' = [conn EXCEPT ![c] = state]

\* An accept that fails for another reason than the close is only repeated.
DoAccept(n, c) ==
  /\ Handler(n)
  /\ listening
  /\ conn[c] = "none"
  /\ Becomes(c, "reading")
  /\ UNCHANGED <<vars, net, holds, listening, stopped, life_vars, job>>

\* End of stream, a read error or the timeout; or the upgrade to a
\* WebSocketSession, which takes the stream over.
OnReadLast(n, c) ==
  /\ Handler(n)
  /\ conn[c] = "reading"
  /\ Becomes(c, "closed")
  /\ UNCHANGED <<vars, net, holds, listening, stopped, life_vars, job>>

\* An upgrade of another path than /v1/ws is answered and closed.
OnReadNotFound(n, c) ==
  /\ Handler(n)
  /\ conn[c] = "reading"
  /\ Becomes(c, "last write")
  /\ UNCHANGED <<vars, net, holds, listening, stopped, life_vars, job>>

\* A request: the handler goes on to Submit.
OnRead(n, c) ==
  /\ Handler(n)
  /\ conn[c] = "reading"
  /\ count[n] < MaxTasks
  /\ Becomes(c, "submit")
  /\ net' = [net EXCEPT ![n] = "submit"]
  /\ holds' = [holds EXCEPT ![n] = {c}]
  /\ UNCHANGED <<vars, listening, stopped, life_vars, job>>

OnReadBlocks(n) ==
  /\ net[n] = "submit"
  /\ SubmitBlocks(n)
  /\ UNCHANGED <<net_vars, life_vars, job>>

OnReadSubmits(n) ==
  /\ net[n] = "submit"
  /\ SubmitAccepted(n)
  /\ job' = [job EXCEPT ![<<n, count[n] + 1>>] = holds[n]]
  /\ conn' = [c \in Conns |-> IF c \in holds[n] THEN "queued" ELSE conn[c]]
  /\ net' = [net EXCEPT ![n] = "run"]
  /\ holds' = [holds EXCEPT ![n] = {}]
  /\ UNCHANGED <<listening, stopped, life_vars>>

\* The closure posted by the task starts async_write.
WriteResponse(n, c) ==
  /\ Handler(n)
  /\ conn[c] = "posted"
  /\ Becomes(c, "write")
  /\ UNCHANGED <<vars, net, holds, listening, stopped, life_vars, job>>

\* An error, close or no keep-alive ends the session, otherwise it reads on.
OnWrite(n, c) ==
  /\ Handler(n)
  /\ \/ conn[c] = "write" /\ (Becomes(c, "reading") \/ Becomes(c, "closed"))
     \/ conn[c] = "last write" /\ Becomes(c, "closed")
  /\ UNCHANGED <<vars, net, holds, listening, stopped, life_vars, job>>

OnSignal(n) ==
  /\ Handler(n)
  /\ stop_requested' = TRUE
  /\ listening' = FALSE
  /\ stopped' = TRUE
  /\ UNCHANGED <<vars, conn, net, holds, maint, main, job>>

\* ioc.run() returns in a thread that is in no handler.
RunReturns(n) ==
  /\ stopped
  /\ net[n] = "run"
  /\ net' = [net EXCEPT ![n] = "exited"]
  /\ UNCHANGED <<vars, conn, holds, listening, stopped, life_vars, job>>

----------------------------------------------------------------------------
(* Pool threads.  A task of a request posts the response whether           *)
(* DispatchHttp returns or throws; the handlers of a destroyed io_context  *)
(* are gone.                                                               *)

\* Mutant of RunTask: an exception of DispatchHttp ends the task.
RunTaskUncaught(t) ==
  /\ WorkerRun(t)
  /\ \/ conn' = [c \in Conns |-> IF c \in job[task[t]] /\ main # "pool"
                                   THEN "posted" ELSE conn[c]]
     \/ UNCHANGED conn
  /\ UNCHANGED <<net, holds, listening, stopped, life_vars, job>>

RunTask(t) ==
  /\ WorkerRun(t)
  /\ conn' = [c \in Conns |-> IF c \in job[task[t]] /\ main # "pool"
                                THEN "posted" ELSE conn[c]]
  /\ UNCHANGED <<net, holds, listening, stopped, life_vars, job>>

PoolThread(t) ==
  \/ RunTask(t)
  \/ /\ \/ WorkerPop(t) \/ WorkerSleep(t) \/ WorkerExit(t)
        \/ WorkerCount(t) \/ WorkerUncount(t) \/ WorkerNotify(t)
     /\ UNCHANGED <<net_vars, life_vars, job>>

----------------------------------------------------------------------------
(* The maintenance thread tests its stop token and then calls Submit. *)

MaintenanceWakes ==
  /\ maint = "sleep"
  /\ ~ stop_requested
  /\ count[maintenance] < MaxTasks
  /\ maint' = "submit"
  /\ UNCHANGED <<vars, net_vars, stop_requested, main, job>>

MaintenanceSubmits ==
  /\ maint = "submit"
  /\ SubmitAccepted(maintenance)
  /\ maint' = "sleep"
  /\ UNCHANGED <<net_vars, stop_requested, main, job>>

MaintenanceBlocks ==
  /\ maint = "submit"
  /\ SubmitBlocks(maintenance)
  /\ UNCHANGED <<net_vars, life_vars, job>>

MaintenanceExits ==
  /\ maint = "sleep"
  /\ stop_requested
  /\ maint' = "exited"
  /\ UNCHANGED <<vars, net_vars, stop_requested, main, job>>

Maintenance ==
  \/ MaintenanceWakes \/ MaintenanceSubmits
  \/ MaintenanceBlocks \/ MaintenanceExits

----------------------------------------------------------------------------
(* The thread of main: it joins the network threads, waits for the pool,   *)
(* and destroys the maintenance thread, then ioc, ctx and the services,    *)
(* then the pool.                                                          *)

MainGoes(here, there) == main = here /\ main' = there

\* Mutant of MainJoins: the first network thread is enough.
MainJoinsOne ==
  /\ \E n \in NetThreads : net[n] = "exited"
  /\ MainGoes("join", "idle")
  /\ UNCHANGED <<vars, net_vars, stop_requested, maint, job>>

MainJoins ==
  /\ \A n \in NetThreads : net[n] = "exited"
  /\ MainGoes("join", "idle")
  /\ UNCHANGED <<vars, net_vars, stop_requested, maint, job>>

MainWaits ==
  /\ main = "idle"
  /\ Wait
  /\ UNCHANGED <<net_vars, life_vars, job>>

\* The destructor of the maintenance thread requests the stop again.
MainWaited ==
  /\ waiter = "returned"
  /\ MainGoes("idle", "maintenance")
  /\ stop_requested' = TRUE
  /\ UNCHANGED <<vars, net_vars, maint, job>>

MainMaintenance ==
  /\ maint = "exited"
  /\ MainGoes("maintenance", "context")
  /\ UNCHANGED <<vars, net_vars, stop_requested, maint, job>>

\* ioc, ctx, ws_registry, attachment_service, delivery, auth ...
MainContext ==
  /\ MainGoes("context", "pool")
  /\ conn' = [c \in Conns |-> "closed"]
  /\ UNCHANGED <<vars, net, holds, listening, stopped, stop_requested, maint, job>>

MainPool ==
  /\ main = "pool"
  /\ Shutdown
  /\ UNCHANGED <<net_vars, life_vars, job>>

MainReturns ==
  /\ shut = "done"
  /\ MainGoes("pool", "returned")
  /\ UNCHANGED <<vars, net_vars, stop_requested, maint, job>>

Main ==
  \/ MainJoins \/ MainWaits \/ MainWaited \/ MainMaintenance
  \/ MainContext \/ MainPool \/ MainReturns

----------------------------------------------------------------------------
NetThread(n) ==
  \/ \E c \in Conns :
       \/ DoAccept(n, c) \/ OnReadLast(n, c) \/ OnReadNotFound(n, c)
       \/ OnRead(n, c) \/ WriteResponse(n, c) \/ OnWrite(n, c)
  \/ OnReadBlocks(n) \/ OnReadSubmits(n) \/ OnSignal(n) \/ RunReturns(n)

ServerNext ==
  \/ \E n \in NetThreads : NetThread(n)
  \/ \E t \in Threads : PoolThread(t)
  \/ Maintenance
  \/ Main

ServerSpec == ServerInit /\ [][ServerNext]_server_vars

\* Every thread that can step does.  Nothing is assumed of the clients, nor
\* that a signal ever comes.
ServerFair ==
  /\ ServerSpec
  /\ \A n \in NetThreads :
       WF_server_vars(OnReadBlocks(n) \/ OnReadSubmits(n) \/ RunReturns(n))
  /\ \A c \in Conns :
       WF_server_vars(\E n \in NetThreads : WriteResponse(n, c))
  /\ \A t \in Threads : WF_server_vars(PoolThread(t))
  /\ WF_server_vars(MaintenanceSubmits \/ MaintenanceBlocks \/ MaintenanceExits)
  /\ WF_server_vars(Main)

----------------------------------------------------------------------------
ContextGone == main \in {"pool", "returned"}

\* Types of the connections and of the life cycle.
ServerTypeOK ==
  /\ TypeOK
  /\ conn \in [Conns -> {"none", "reading", "submit", "queued", "posted",
                         "write", "last write", "closed"}]
  /\ net \in [NetThreads -> {"run", "submit", "exited"}]
  /\ holds \in [NetThreads -> SUBSET Conns]
  /\ job \in [Task -> SUBSET Conns]
  /\ {listening, stopped, stop_requested} \subseteq BOOLEAN
  /\ maint \in {"sleep", "submit", "exited"}
  /\ main \in {"join", "idle", "maintenance", "context", "pool", "returned"}

\* The order of the shutdown keeps requests out of the pool once ctx is gone, and
\* producers away from a closed queue, so that Submit never throws: the network
\* threads are joined before WaitForIdle reads the queue, and the maintenance
\* thread, joined only afterwards, leaves at most one purge in it.
QueueAtDestruction ==
  ContextGone =>
    /\ \A n \in NetThreads : net[n] = "exited"
    /\ maint = "exited"
    /\ Len(queue) <= 1
    /\ \A i \in DOMAIN queue : job[queue[i]] = {}

\* What the comment above WaitForIdle in main.cpp says: when ctx is destroyed no
\* DispatchHttp task still runs on storage_pool.
NoDispatchAfterContext ==
  ContextGone =>
    \A x \in Task : job[x] # {} /\ Accepted(x) => x \in ran

\* A request that was read is answered unless the server is stopped: network
\* threads blocked on the full queue, and exceptions of DispatchHttp, delay the
\* answer and never lose it.
RequestsAnswered ==
  \A c \in Conns :
    conn[c] \in {"submit", "queued", "posted"}
      ~> conn[c] \in {"write", "reading", "closed"} \/ stopped

\* A pool thread may have notified idle_cv_ between main's test and its sleep;
\* nothing is left that would notify it again.
WakeupLost ==
  /\ main = "idle" /\ waiter = "asleep"
  /\ maint = "exited"
  /\ queue = <<>> /\ \A t \in Threads : loop[t] = "pop"

\* The signal takes the process down, with requests queued and producers blocked
\* on the full queue; the one way it does not is that main sleeps in WaitForIdle
\* beside an idle pool because its wake-up was lost.
StopsOrSleeps == stopped ~> main = "returned" \/ WakeupLost
=============================================================================
