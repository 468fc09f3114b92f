---------------------------- MODULE NetworkProofs ----------------------------
(***************************************************************************)
(* The server towards its file and its clients.                            *)
(*                                                                         *)
(* Schema: the migration keeps every row and is all or nothing, and a      *)
(* start that succeeds finds what it needs, for any number of processes    *)
(* started on the file, of devices in it, of attempts and of crashes.      *)
(* WebSocket sessions: the registry, the outbound queue and the handlers,  *)
(* for any number of sessions, threads and pushes.  Rate limiter: what it  *)
(* lets through, for any limit, window and number of threads.              *)
(***************************************************************************)
EXTENDS Schema, WebSocketSession, RateLimiter, FiniteSetTheorems, TLAPS

\* The prover of every leaf that names none.
USE Zenon

\* One process at a time is in the transaction.
WriterInv ==
  /\ \A p, q \in writer : p = q
  /\ \A p \in Processes : pc[p] = "copy" => p \in writer

\* The copy has the rows of the file, and its tables are those of the file except
\* that what was copied is new.
CopyInv ==
  writer # {} =>
    /\ next_rows = original
    /\ \A t \in Tables :
         next_table[t] = IF t \in copied THEN "new" ELSE table[t]

\* Every table is about the same devices, so that the joins drop nothing.
RowsAlike ==
  /\ original \in [Tables -> SUBSET DeviceRows]
  /\ \A t \in Tables : original[t] = original["devices"]

\* A file without the old devices has no other old table either.
OldTogether == table["devices"] # "old" => \A t \in Tables : table[t] # "old"

SchemaInv ==
  /\ table \in [Tables -> {"none", "old", "new"}]
  /\ next_table \in [Tables -> {"none", "old", "new"}]
  /\ pc \in [Processes -> Points]
  /\ WriterInv
  /\ CopyInv
  /\ RowsAlike
  /\ rows = original
  /\ OldTogether

(* devices is one of the tables the migration is about. *)
LEMMA DevicesIsTable == "devices" \in Tables
BY SMT DEF Tables, Order

(* The next table to create or copy is one that is still to do. *)
LEMMA FirstIsIn ==
  ASSUME NEW t, NEW S, IsFirst(t, S)
  PROVE  t \in S
BY DEF IsFirst

(* A missing file, a current one and an old one all satisfy the invariant. *)
LEMMA InitEstablishes ==
  ASSUME SchemaInit
  PROVE  SchemaInv
<1> USE DevicesIsTable
<1>1. WriterInv /\ CopyInv
  BY DEF SchemaInit, WriterInv, CopyInv
<1>2. RowsAlike /\ rows = original /\ OldTogether
  BY DEF SchemaInit, RowsAlike, OldTogether
<1>3. /\ table \in [Tables -> {"none", "old", "new"}]
      /\ next_table \in [Tables -> {"none", "old", "new"}]
      /\ pc \in [Processes -> Points]
  BY DEF SchemaInit, Points
<1> QED BY <1>1, <1>2, <1>3 DEF SchemaInv

(* A step that leaves the tables and the transaction alone. *)
LEMMA LocalKeeps ==
  ASSUME SchemaInv, NEW p \in Processes, NEW there \in Points, there # "copy",
         pc' = [pc EXCEPT ![p] = there],
         UNCHANGED <<table, rows, next_table, next_rows, copied, original>>,
         IF pc[p] = "copy" THEN writer' = writer \ {p}
         ELSE writer' = writer \/ writer' = writer \ {p}
  PROVE  SchemaInv'
<1>1. pc' \in [Processes -> Points]
  BY DEF SchemaInv
<1>2. WriterInv'
  BY DEF SchemaInv, WriterInv
<1>3. CopyInv'
  BY DEF SchemaInv, CopyInv
<1>4. RowsAlike' /\ (rows = original)' /\ OldTogether'
  BY DEF SchemaInv, RowsAlike, OldTogether
<1> QED BY <1>1, <1>2, <1>3, <1>4 DEF SchemaInv

(* CREATE TABLE IF NOT EXISTS adds an empty table of the new kind. *)
LEMMA CreateKeeps ==
  ASSUME SchemaInv, NEW p \in Processes, NEW t \in Tables, CreateTable(p, t)
  PROVE  SchemaInv'
<1> USE DevicesIsTable
<1>1. /\ writer = {} /\ table' = [table EXCEPT ![t] = "new"]
      /\ UNCHANGED <<rows, next_table, next_rows, copied, original, writer, pc>>
  BY DEF CreateTable, work_vars, process_vars
<1>2. table[t] = "none"
  BY FirstIsIn DEF CreateTable
<1>3. OldTogether'
  BY <1>1, <1>2 DEF SchemaInv, OldTogether
<1>4. WriterInv' /\ CopyInv' /\ RowsAlike'
  BY <1>1 DEF SchemaInv, WriterInv, CopyInv, RowsAlike
<1> QED BY <1>1, <1>3, <1>4 DEF SchemaInv

(* A migration that gets the lock starts from the committed tables. *)
LEMMA LockKeeps ==
  ASSUME SchemaInv, NEW p \in Processes, MigrateLock(p)
  PROVE  SchemaInv'
<1>1. /\ writer = {} /\ writer' = {p} /\ copied' = {}
      /\ next_table' = table /\ next_rows' = rows
      /\ pc' = [pc EXCEPT ![p] = "copy"]
      /\ UNCHANGED <<table, rows, original>>
  BY DEF MigrateLock, Advances, file_vars
<1>2. WriterInv'
  BY <1>1 DEF SchemaInv, WriterInv
<1>3. CopyInv'
  BY <1>1 DEF SchemaInv, CopyInv
<1>4. RowsAlike' /\ OldTogether'
  BY <1>1 DEF SchemaInv, RowsAlike, OldTogether
<1> QED BY <1>1, <1>2, <1>3, <1>4 DEF SchemaInv, Points

(* The rows of one table after its copy are those of the file. *)
LEMMA CopyDropsNothing ==
  ASSUME RowsAlike, next_rows = original, NEW t \in Tables
  PROVE  Copied(t) = original
<1>1. original["devices"] = original[t] /\ original \in [Tables -> SUBSET DeviceRows]
  BY DEF RowsAlike
<1>2. Copied(t) = [original EXCEPT ![t] = original[t]]
  BY <1>1 DEF Copied
<1> QED BY <1>1, <1>2

(* Rebuilding one table in the transaction keeps the rows of all. *)
LEMMA TableKeeps ==
  ASSUME SchemaInv, NEW p \in Processes, NEW t \in Tables, MigrateTable(p, t)
  PROVE  SchemaInv'
<1>1. /\ pc[p] = "copy" /\ copied' = copied \cup {t}
      /\ next_table' = [next_table EXCEPT ![t] = "new"]
      /\ next_rows' = Copied(t)
      /\ UNCHANGED <<table, rows, original, writer, pc>>
  BY DEF MigrateTable, file_vars, process_vars
<1>2. next_rows = original /\ p \in writer
  BY <1>1 DEF SchemaInv, WriterInv, CopyInv
<1>3. next_rows' = original
  BY <1>1, <1>2, CopyDropsNothing DEF SchemaInv
<1>4. CopyInv'
  BY <1>1, <1>2, <1>3 DEF SchemaInv, CopyInv
<1>5. WriterInv' /\ RowsAlike' /\ OldTogether'
  BY <1>1 DEF SchemaInv, WriterInv, RowsAlike, OldTogether
<1> QED BY <1>1, <1>4, <1>5 DEF SchemaInv

(* The commit makes the five rebuilt tables the file at once. *)
LEMMA CommitKeeps ==
  ASSUME SchemaInv, NEW p \in Processes, MigrateCommit(p)
  PROVE  SchemaInv'
<1> USE DevicesIsTable
<1>1. /\ pc[p] = "copy" /\ pc' = [pc EXCEPT ![p] = "columns"]
      /\ copied = Tables /\ writer' = {}
      /\ table' = next_table /\ rows' = next_rows
      /\ UNCHANGED <<next_table, next_rows, original>>
  BY DEF MigrateCommit, Advances
<1>2. p \in writer /\ next_rows = original /\ \A t \in Tables : next_table[t] = "new"
  BY <1>1 DEF SchemaInv, WriterInv, CopyInv
<1>3. WriterInv' /\ CopyInv'
  BY <1>1, <1>2 DEF SchemaInv, WriterInv, CopyInv
<1>4. RowsAlike' /\ OldTogether'
  BY <1>1, <1>2 DEF SchemaInv, RowsAlike, OldTogether
<1> QED BY <1>1, <1>2, <1>3, <1>4 DEF SchemaInv, Points

(* Every step of the constructor, a refusal and a kill keep the invariant. *)
LEMMA StepKeeps ==
  ASSUME SchemaInv, NEW p \in Processes, Step(p)
  PROVE  SchemaInv'
<1>1. CASE Open(p)
  BY <1>1, LocalKeeps DEF Open, Advances, file_vars, work_vars, Points
<1>2. CASE AddEpoch(p)
  BY <1>2, LocalKeeps DEF AddEpoch, Advances, work_vars, Points
<1>3. CASE MigrateNothing(p)
  BY <1>3, LocalKeeps DEF MigrateNothing, Advances, file_vars, work_vars, Points
<1>4. CASE MigrateBegin(p)
  BY <1>4, LocalKeeps DEF MigrateBegin, Advances, file_vars, work_vars, Points
<1>5. CASE MigrateUnlabelled(p)
  <2>1. writer \ {p} = {}
    BY <1>5 DEF MigrateUnlabelled, Advances, SchemaInv, WriterInv
  <2> QED BY <1>5, <2>1, LocalKeeps DEF MigrateUnlabelled, Advances, file_vars, Points
<1>6. CASE AddColumns(p)
  BY <1>6, LocalKeeps DEF AddColumns, Advances, work_vars, Points
<1>7. CASE Refused(p)
  BY <1>7, LocalKeeps DEF Refused, Blocked, file_vars, work_vars, Points
<1>8. CASE Stop(p)
  BY <1>8, LocalKeeps DEF Stop, file_vars, Points
<1> QED BY <1>1, <1>2, <1>3, <1>4, <1>5, <1>6, <1>7, <1>8, CreateKeeps, LockKeeps,
           TableKeeps, CommitKeeps DEF Step

(* The inductive invariant of the start-up: one process at a time copies, what *)
(* it has copied is what the file holds, and old tables go together.          *)
THEOREM SchemaInvariant == SchemaSpec => []SchemaInv
<1>1. SchemaInit => SchemaInv
  BY InitEstablishes
<1>2. SchemaInv /\ [SchemaNext]_schema_vars => SchemaInv'
  <2>1. CASE SchemaNext
    BY <2>1, StepKeeps DEF SchemaNext
  <2>2. CASE UNCHANGED schema_vars
    BY <2>2 DEF schema_vars, file_vars, work_vars, process_vars, SchemaInv, WriterInv,
       CopyInv, RowsAlike, OldTogether
  <2> QED BY <2>1, <2>2
<1> QED BY <1>1, <1>2, PTL DEF SchemaSpec

(* Whenever processes are killed or meet on the file, the migration is all or *)
(* nothing and keeps every row.                                               *)
THEOREM MigrationKeepsRows == SchemaSpec => []MigrationWhole
<1>1. SchemaInv => MigrationWhole
  BY DEF SchemaInv, OldTogether, MigrationWhole
<1> QED BY <1>1, SchemaInvariant, PTL

----------------------------------------------------------------------------
\* The points of a constructor that has tested, or is about to test, the key.
Trying == {"create", "migrate", "lock", "columns", "serving"}

\* What a process has passed is in place.
PassedInv ==
  \A p \in Processes :
    /\ pc[p] \in {"migrate", "lock", "copy", "columns", "serving"} =>
         epoch /\ \A t \in Tables : table[t] # "none"
    /\ pc[p] \in {"columns", "serving"} => table["devices"] = "new"
    /\ pc[p] = "serving" => late

\* DeviceRows with the composite key, in the file or copied, have every column.
LabelInv ==
  /\ table["devices"] = "new" => labelled
  /\ writer # {} /\ "devices" \in copied => labelled

\* A connection without enforcement has the old devices before it, or another
\* process has migrated them.
KeysInv ==
  \A p \in Processes :
    pc[p] \in Trying =>
      foreign_keys[p] \/ table["devices"] = "old" \/ \E q \in migrators : q # p

FailedInv ==
  \A p \in Processes :
    pc[p] = "failed" => attempt[p] = MaxAttempts \/ (~ labelled /\ table["devices"] = "old")

ReadyInv ==
  /\ {labelled, epoch, late} \subseteq BOOLEAN
  /\ foreign_keys \in [Processes -> BOOLEAN]
  /\ attempt \in [Processes -> 0..MaxAttempts]
  /\ PassedInv /\ LabelInv /\ KeysInv /\ FailedInv

(* No process has passed anything when the first one starts. *)
LEMMA InitReady ==
  ASSUME SchemaInit, MaxAttempts \in Nat \ {0}
  PROVE  ReadyInv
<1> USE DevicesIsTable
<1>1. PassedInv /\ FailedInv
  BY DEF SchemaInit, PassedInv, FailedInv
<1>2. LabelInv
  BY DEF SchemaInit, LabelInv
<1>3. KeysInv
  BY DEF SchemaInit, KeysInv, Trying
<1>4. {labelled, epoch, late} \subseteq BOOLEAN /\ foreign_keys \in [Processes -> BOOLEAN]
  BY DEF SchemaInit
<1>5. attempt \in [Processes -> 0..MaxAttempts]
  BY SMT DEF SchemaInit
<1> QED BY <1>1, <1>2, <1>3, <1>4, <1>5 DEF ReadyInv

(* The commit leaves devices labelled and the foreign keys on again. *)
LEMMA CommitReady ==
  ASSUME SchemaInv, ReadyInv, MaxAttempts \in Nat \ {0}, NEW p \in Processes, MigrateCommit(p)
  PROVE  ReadyInv'
<1> USE DevicesIsTable DEF SchemaInv, ReadyInv
<1>1. /\ pc[p] = "copy" /\ pc' = [pc EXCEPT ![p] = "columns"] /\ copied = Tables
      /\ writer' = {} /\ table' = next_table /\ migrators' = migrators \cup {p}
      /\ foreign_keys' = [foreign_keys EXCEPT ![p] = TRUE]
      /\ UNCHANGED <<labelled, epoch, late, attempt>>
  BY DEF MigrateCommit, Advances
<1>2. p \in writer /\ \A t \in Tables : next_table[t] = "new"
  BY <1>1 DEF WriterInv, CopyInv
<1>3. labelled
  BY <1>1, <1>2 DEF LabelInv
<1>4. PassedInv' /\ LabelInv'
  BY <1>1, <1>2, <1>3 DEF PassedInv, LabelInv
<1>5. KeysInv'
  BY <1>1 DEF KeysInv, Trying
<1>6. FailedInv'
  BY <1>1, <1>3 DEF FailedInv
<1> QED BY <1>1, <1>4, <1>5, <1>6

(* A table that is created comes with every column. *)
LEMMA CreateReady ==
  ASSUME SchemaInv, ReadyInv, MaxAttempts \in Nat \ {0}, NEW p \in Processes, NEW t \in Tables,
         CreateTable(p, t)
  PROVE  ReadyInv'
<1> USE DevicesIsTable DEF SchemaInv, ReadyInv
<1>1. table[t] = "none"
  BY FirstIsIn DEF CreateTable
<1>2. /\ writer = {} /\ table' = [table EXCEPT ![t] = "new"]
      /\ labelled' = (labelled \/ t = "devices")
      /\ epoch' = (epoch \/ t = "encrypted_envelopes")
      /\ UNCHANGED <<late, writer, copied, pc, attempt, foreign_keys, migrators>>
  BY DEF CreateTable, work_vars, process_vars
<1>3. PassedInv' /\ LabelInv'
  BY <1>1, <1>2 DEF PassedInv, LabelInv
<1>4. KeysInv' /\ FailedInv'
  BY <1>1, <1>2 DEF KeysInv, FailedInv
<1> QED BY <1>2, <1>3, <1>4

(* Every step of a start keeps what the starts before it established. *)
LEMMA StepReady ==
  ASSUME SchemaInv, ReadyInv, MaxAttempts \in Nat \ {0}, NEW p \in Processes, Step(p)
  PROVE  ReadyInv'
<1> USE DevicesIsTable
    DEF SchemaInv, ReadyInv, PassedInv, LabelInv, KeysInv, FailedInv, Trying
<1>1. CASE Open(p)
  BY <1>1, SMT DEF Open, Advances, file_vars, work_vars
<1>2. CASE AddEpoch(p)
  BY <1>2 DEF AddEpoch, Advances, work_vars
<1>3. CASE MigrateNothing(p)
  BY <1>3 DEF MigrateNothing, Advances, file_vars, work_vars
<1>4. CASE MigrateBegin(p)
  BY <1>4 DEF MigrateBegin, Advances, file_vars, work_vars
<1>5. CASE MigrateLock(p)
  BY <1>5 DEF MigrateLock, Advances, file_vars
<1>6. ASSUME NEW t \in Tables, MigrateTable(p, t) PROVE ReadyInv'
  BY <1>6 DEF MigrateTable, file_vars, process_vars
<1>7. CASE MigrateUnlabelled(p)
  BY <1>7 DEF MigrateUnlabelled, Advances, file_vars
<1>8. CASE AddColumns(p)
  BY <1>8 DEF AddColumns, Advances, work_vars
<1>9. CASE Refused(p)
  BY <1>9, SMT DEF Refused, Blocked, file_vars, work_vars
<1>10. CASE Stop(p)
  BY <1>10 DEF Stop, file_vars
<1> QED BY <1>1, <1>2, <1>3, <1>4, <1>5, <1>6, <1>7, <1>8, <1>9, <1>10,
           CommitReady, CreateReady DEF Step

(* A constructor that returns leaves every table and column in place, and     *)
(* foreign keys enforced unless another process has migrated the file; it     *)
(* throws only when its attempts are used up, or for devices that predate     *)
(* both migrations.  kSchemaInitMaxAttempts is at least one.                  *)
THEOREM StartReady ==
  ASSUME MaxAttempts \in Nat \ {0}
  PROVE  SchemaSpec => []ServingReady
<1>1. SchemaInit => ReadyInv
  BY InitReady
<1>2. SchemaInv /\ ReadyInv /\ [SchemaNext]_schema_vars => ReadyInv'
  <2>1. CASE SchemaInv /\ ReadyInv /\ SchemaNext
    BY <2>1, StepReady DEF SchemaNext
  <2>2. CASE ReadyInv /\ UNCHANGED schema_vars
    BY <2>2 DEF schema_vars, file_vars, work_vars, process_vars, ReadyInv, PassedInv,
       LabelInv, KeysInv, FailedInv
  <2> QED BY <2>1, <2>2
<1>3. SchemaInv /\ ReadyInv => ServingReady
  <2>1. SUFFICES ASSUME SchemaInv, ReadyInv, NEW p \in Processes
                 PROVE  /\ pc[p] = "serving" =>
                             /\ \A t \in Tables : table[t] = "new"
                             /\ labelled /\ epoch /\ late
                             /\ foreign_keys[p] \/ migrators \ {p} # {}
                        /\ pc[p] = "failed" => attempt[p] = MaxAttempts \/ ~ labelled
    BY DEF ServingReady
  <2>2. CASE pc[p] = "serving"
    <3>1. \A t \in Tables : table[t] = "new"
      BY <2>1, <2>2, DevicesIsTable DEF SchemaInv, ReadyInv, PassedInv, OldTogether
    <3>2. labelled /\ epoch /\ late
      BY <2>1, <2>2 DEF ReadyInv, PassedInv, LabelInv
    <3>3. foreign_keys[p] \/ \E q \in migrators : q # p
      BY <2>1, <2>2 DEF ReadyInv, KeysInv, PassedInv, Trying
    <3> QED BY <2>2, <3>1, <3>2, <3>3
  <2>3. CASE pc[p] = "failed"
    BY <2>1, <2>3 DEF ReadyInv, FailedInv
  <2> QED BY <2>1, <2>2, <2>3
<1> QED BY <1>1, <1>2, <1>3, SchemaInvariant, PTL DEF SchemaSpec

----------------------------------------------------------------------------
(* The WebSocket sessions.  *)

\* A handler under way is one of a session; a push has its message.
ThreadInv ==
  /\ DOMAIN thread = IoThreads
  /\ \A t \in IoThreads :
       /\ thread[t].at # "idle" => Self(t) \in Sessions
       /\ Stands(t, "push") => thread[t].msg \in Messages
  /\ DOMAIN notifier = Notifiers
  /\ \A n \in Notifiers :
       notifier[n].at = "call" =>
         notifier[n].session \in Sessions /\ notifier[n].msg \in Messages

Pushing(s) == {t \in IoThreads : Stands(t, "push") /\ Self(t) = s}

\* A handler that has tested the length of the queue takes a place in it: what
\* is queued and what is about to be never exceed the limit by more than the
\* other threads.  Without an overlap whoever is about to push finds room.
QueueInv ==
  MaxOutbound > 0 =>
    \A s \in Sessions :
      /\ Len(outbound[s]) + Cardinality(Pushing(s))
           <= MaxOutbound + Cardinality(IoThreads) - 1
      /\ s \notin overlapped => Len(outbound[s]) <= MaxOutbound
      /\ s \notin overlapped /\ Pushing(s) # {} => Len(outbound[s]) < MaxOutbound

\* The handler of the first frame is the only one of its session that decides
\* the authentication, and the session is not registered before.
FirstFrameInv ==
  /\ \A t \in IoThreads :
       thread[t].at \in {"refuse", "auth"} => phase[Self(t)] = "over" /\ ~ Registered(Self(t))
  /\ \A t, u \in IoThreads :
       /\ thread[t].at \in {"refuse", "auth"} /\ thread[u].at \in {"refuse", "auth"}
       /\ Self(t) = Self(u)
       => t = u
  /\ \A s \in Sessions : phase[s] \in {"none", "accept", "first"} => ~ Registered(s)
  /\ \A s \in Sessions : phase[s] = "first" => deferred[s] \/ socket[s] = "down"

WsInv ==
  /\ WsTypeOK /\ ThreadInv
  /\ RegistryExact
  /\ QueueInv
  /\ FirstFrameInv /\ SessionsAttended

\* The points at which a handler has nothing but its session.
HandlerPoints ==
  {"expire", "refuse", "auth", "pump", "write", "shutdown", "unregister", "close"}

(* A thread goes on in, or returns from, a handler of a session.            *)
LEMMA TurnTyped ==
  ASSUME ThreadInv, UNCHANGED notifier, NEW t \in IoThreads, NEW s \in Sessions,
         \/ UNCHANGED thread
         \/ Returns(t)
         \/ \E there \in HandlerPoints : Turns(t, there, s)
  PROVE  ThreadInv'
BY SMT DEF ThreadInv, Self, Stands, Turns, Returns, Idle, HandlerPoints

(* A handler that begins: the accept, the timer and the two reads.          *)
LEMMA BeginsTyped ==
  ASSUME WsTypeOK, ThreadInv, NEW t \in IoThreads, NEW s \in Sessions,
         \/ OnAcceptError(t, s) \/ OnAcceptBearer(t, s) \/ OnAcceptDeferred(t, s)
         \/ OnTimer(t, s) \/ OnFirstRead(t, s) \/ OnReadError(t, s)
  PROVE  WsTypeOK' /\ ThreadInv'
<1>1. ThreadInv'
  BY TurnTyped DEF OnAcceptError, OnAcceptBearer, OnAcceptDeferred, OnTimer, OnFirstRead,
     OnReadError, HandlerPoints
<1> USE WsAssumption DEF WsTypeOK, ws_out, ws_history
<1>2. CASE OnAcceptError(t, s) \/ OnReadError(t, s)
  BY <1>1, <1>2 DEF OnAcceptError, OnReadError
<1>3. CASE OnAcceptBearer(t, s)
  <2>1. CASE FinishAuth(s)
    BY <1>1, <1>3, <2>1 DEF OnAcceptBearer, FinishAuth, Register
  <2>2. CASE FailTcpConnection(s)
    BY <1>1, <1>3, <2>2 DEF OnAcceptBearer, FailTcpConnection
  <2> QED BY <1>3, <2>1, <2>2 DEF OnAcceptBearer
<1>4. CASE OnAcceptDeferred(t, s)
  BY <1>1, <1>4 DEF OnAcceptDeferred
<1>5. CASE OnTimer(t, s)
  BY <1>1, <1>5 DEF OnTimer
<1>6. CASE OnFirstRead(t, s)
  BY <1>1, <1>6 DEF OnFirstRead
<1> QED BY <1>2, <1>3, <1>4, <1>5, <1>6

(* A push: the closure of PostSend, the queue and the write.                *)
LEMMA PushTyped ==
  ASSUME WsTypeOK, ThreadInv, NEW t \in IoThreads,
         \/ \E s \in Sessions : OnPosted(t, s) \/ OnWritten(t, s)
         \/ PushBack(t) \/ PumpTest(t) \/ PumpWrite(t)
  PROVE  WsTypeOK' /\ ThreadInv'
<1> USE DEF WsTypeOK, ws_conn, ws_out, ws_history
<1>1. ASSUME NEW s \in Sessions, OnPosted(t, s) PROVE WsTypeOK' /\ ThreadInv'
  <2>1. Head(posted[s]) \in Messages /\ Tail(posted[s]) \in Seq(Messages)
    BY <1>1, SMT DEF OnPosted
  <2>2. ThreadInv'
    BY <1>1, <2>1 DEF OnPosted, ThreadInv, Self, Stands
  <2> QED BY <1>1, <2>1, <2>2 DEF OnPosted
<1>2. ASSUME NEW s \in Sessions, OnWritten(t, s) PROVE WsTypeOK' /\ ThreadInv'
  <2>1. /\ Head(writing[s]) \in Messages \cup {Garbled}
        /\ Tail(writing[s]) \in Seq(Messages \cup {Garbled})
    BY <1>2, SMT DEF OnWritten
  <2>2. ThreadInv'
    BY <1>2, TurnTyped DEF OnWritten, HandlerPoints
  <2>3. sent' \in [Sessions -> SUBSET (Messages \cup {Garbled})]
    <3>1. sent' = sent \/ sent' = [sent EXCEPT ![s] = @ \cup {Head(writing[s])}]
      BY <1>2 DEF OnWritten
    <3>2. sent[s] \cup {Head(writing[s])} \in SUBSET (Messages \cup {Garbled})
      BY <2>1
    <3> QED BY <3>1, <3>2
  <2> QED BY <1>2, <2>1, <2>2, <2>3 DEF OnWritten
<1>3. ASSUME ~ Stands(t, "idle") PROVE Self(t) \in Sessions
  BY <1>3 DEF ThreadInv, Stands
<1>4. CASE PushBack(t)
  <2>1. Self(t) \in Sessions /\ thread[t].msg \in Messages
    BY <1>3, <1>4 DEF PushBack, ThreadInv, Stands
  <2>2. Append(outbound[Self(t)], thread[t].msg) \in Seq(Messages)
    BY <2>1, SMT
  <2>3. ThreadInv'
    BY <1>4, <2>1, TurnTyped DEF PushBack, HandlerPoints
  <2> QED BY <1>4, <2>1, <2>2, <2>3 DEF PushBack
<1>5. CASE PumpTest(t)
  <2>1. ThreadInv'
    BY <1>3, <1>5, TurnTyped DEF PumpTest, HandlerPoints, Stands
  <2> QED BY <1>5, <2>1 DEF PumpTest
<1>6. CASE PumpWrite(t)
  <2>1. Self(t) \in Sessions
    BY <1>3, <1>6 DEF PumpWrite, Stands
  <2>2. outbound[Self(t)] # <<>> =>
          Head(outbound[Self(t)]) \in Messages /\ Tail(outbound[Self(t)]) \in Seq(Messages)
    BY <2>1, SMT
  <2>3. \A f \in Messages \cup {Garbled} :
          Append(writing[Self(t)], f) \in Seq(Messages \cup {Garbled})
    BY <2>1, SMT
  <2>4. PICK f \in Messages \cup {Garbled} :
          writing' = [writing EXCEPT ![Self(t)] = Append(@, f)]
    BY <1>6, <2>2 DEF PumpWrite, Frames
  <2>5. ThreadInv'
    BY <1>6, <2>1, TurnTyped DEF PumpWrite
  <2> QED BY <1>6, <2>1, <2>2, <2>3, <2>4, <2>5 DEF PumpWrite
<1> QED BY <1>1, <1>2, <1>4, <1>5, <1>6

(* The other steps of handlers.                                             *)
LEMMA ContinuesTyped ==
  ASSUME WsTypeOK, ThreadInv, NEW t \in IoThreads,
         \/ OnTimerShut(t) \/ OnFirstRefused(t) \/ OnFirstAuth(t)
         \/ ShutdownTest(t) \/ ShutdownUnregister(t) \/ ShutdownClose(t)
  PROVE  WsTypeOK' /\ ThreadInv'
<1>1. Self(t) \in Sessions
  BY DEF ThreadInv, Stands, OnTimerShut, OnFirstRefused, OnFirstAuth, ShutdownTest,
     ShutdownUnregister,
     ShutdownClose
<1>2. ThreadInv'
  BY <1>1, TurnTyped DEF OnTimerShut, OnFirstRefused, OnFirstAuth, ShutdownTest, ShutdownUnregister,
     ShutdownClose, HandlerPoints
<1> USE <1>1, WsAssumption DEF WsTypeOK, ws_conn, ws_out, ws_history
<1>3. CASE OnTimerShut(t) \/ ShutdownTest(t) \/ ShutdownClose(t)
  BY <1>2, <1>3 DEF OnTimerShut, ShutdownTest, ShutdownClose
<1>4. CASE OnFirstRefused(t)
  BY <1>2, <1>4 DEF OnFirstRefused, CancelTimer, FailTcpConnection
<1>5. CASE OnFirstAuth(t)
  BY <1>2, <1>5 DEF OnFirstAuth, CancelTimer, FinishAuth, Register
<1>6. CASE ShutdownUnregister(t)
  BY <1>2, <1>6 DEF ShutdownUnregister, Unregister
<1> QED BY <1>3, <1>4, <1>5, <1>6

(* The steps of the notifiers, of the peers and of the clock.               *)
LEMMA OthersTyped ==
  ASSUME WsTypeOK, ThreadInv,
         \/ \E s \in Sessions : Run(s) \/ PeerGone(s) \/ Expire(s)
         \/ \E n \in Notifiers : NotifyCalls(n) \/ \E m \in Messages : NotifyFinds(n, m)
         \/ UNCHANGED ws_vars
  PROVE  WsTypeOK' /\ ThreadInv'
<1> USE WsAssumption DEF WsTypeOK, ThreadInv, ws_conn, ws_out, ws_history, Self, Stands
<1>1. ASSUME NEW s \in Sessions, Run(s) \/ PeerGone(s) \/ Expire(s)
      PROVE  WsTypeOK' /\ ThreadInv'
  <2>1. CASE Run(s)
    BY <2>1 DEF Run
  <2>2. CASE PeerGone(s)
    BY <2>2 DEF PeerGone
  <2>3. CASE Expire(s)
    BY <2>3 DEF Expire
  <2> QED BY <1>1, <2>1, <2>2, <2>3
<1>2. ASSUME NEW n \in Notifiers, NotifyCalls(n) PROVE WsTypeOK' /\ ThreadInv'
  <2>1. Append(posted[notifier[n].session], notifier[n].msg) \in Seq(Messages)
    BY <1>2, SMT DEF NotifyCalls
  <2> QED BY <1>2, <2>1 DEF NotifyCalls, Idle
<1>3. ASSUME NEW n \in Notifiers, NEW m \in Messages, NotifyFinds(n, m)
      PROVE  WsTypeOK' /\ ThreadInv'
  <2>1. senders[To[m]] \subseteq Sessions
    OBVIOUS
  <2>2. WsTypeOK'
    BY <1>3, SMT DEF NotifyFinds
  <2>3. CASE UNCHANGED notifier
    BY <1>3, <2>2, <2>3 DEF NotifyFinds
  <2>4. ASSUME NEW s \in senders[To[m]],
               notifier' = [notifier EXCEPT ![n] = [at |-> "call", session |-> s, msg |-> m]]
        PROVE  ThreadInv'
    BY <1>3, <2>1, <2>4 DEF NotifyFinds
  <2> QED BY <1>3, <2>2, <2>3, <2>4 DEF NotifyFinds
<1>4. CASE UNCHANGED ws_vars
  BY <1>4 DEF ws_vars
<1> QED BY <1>1, <1>2, <1>3, <1>4

(* FinishAuth and Unregister are the only steps that change the registry,   *)
(* and they record whom they displace.                                      *)
LEMMA RegistryStep ==
  ASSUME WsTypeOK, ThreadInv, RegistryExact, [WsNext]_ws_vars
  PROVE  RegistryExact'
<1> USE WsAssumption DEF WsTypeOK
<1>1. ASSUME NEW s \in Sessions, FinishAuth(s) PROVE RegistryExact'
  BY <1>1 DEF FinishAuth, Register, RegistryExact, Registered
<1>2. ASSUME NEW t \in IoThreads, ShutdownUnregister(t) PROVE RegistryExact'
  <2>1. Self(t) \in Sessions
    BY <1>2 DEF ShutdownUnregister, ThreadInv, Stands
  <2> QED BY <1>2, <2>1 DEF ShutdownUnregister, Unregister, RegistryExact, Registered
<1>3. ASSUME UNCHANGED <<senders, identified, displaced>> PROVE RegistryExact'
  BY <1>3 DEF RegistryExact, Registered
<1>4. ASSUME NEW t \in IoThreads, NEW s \in Sessions, Begins(t, s) PROVE RegistryExact'
  BY <1>1, <1>3, <1>4
     DEF Begins, OnAcceptError, OnAcceptBearer, OnAcceptDeferred, OnTimer, OnFirstRead, OnPosted,
         OnWritten, OnReadError, FailTcpConnection, ws_conn, ws_history
<1>5. ASSUME NEW t \in IoThreads, Continues(t) PROVE RegistryExact'
  <2>1. CASE OnFirstAuth(t)
    BY <1>1, <2>1 DEF OnFirstAuth, ThreadInv, Stands
  <2> QED BY <1>2, <1>3, <1>5, <2>1
       DEF Continues, OnTimerShut, OnFirstRefused, FailTcpConnection, PushBack, PumpTest,
           PumpWrite, ShutdownTest, ShutdownClose, ws_conn, ws_history
<1>6. ASSUME NEW n \in Notifiers, NotifyCalls(n) \/ \E m \in Messages : NotifyFinds(n, m)
      PROVE  RegistryExact'
  BY <1>3, <1>6 DEF NotifyCalls, NotifyFinds, ws_conn, ws_history
<1>7. ASSUME NEW s \in Sessions, Run(s) \/ PeerGone(s) \/ Expire(s) PROVE RegistryExact'
  BY <1>3, <1>7 DEF Run, PeerGone, Expire, ws_history
<1>8. CASE UNCHANGED ws_vars
  BY <1>3, <1>8 DEF ws_vars, ws_conn, ws_history
<1> QED BY <1>4, <1>5, <1>6, <1>7, <1>8 DEF WsNext

(* The threads about to push are some of the network threads.               *)
LEMMA PushingFinite ==
  ASSUME NEW s
  PROVE  /\ IsFiniteSet(IoThreads) /\ Cardinality(IoThreads) \in Nat
         /\ IsFiniteSet(Pushing(s)) /\ Cardinality(Pushing(s)) \in Nat
         /\ Cardinality(Pushing(s)) <= Cardinality(IoThreads)
<1>1. IsFiniteSet(IoThreads) /\ Pushing(s) \subseteq IoThreads
  BY WsAssumption DEF Pushing
<1> QED BY <1>1, FS_Subset, FS_CardinalityType

(* A step that queues nothing and lets nobody through to push.              *)
LEMMA QueueShrinks ==
  ASSUME WsTypeOK, WsTypeOK', QueueInv, UNCHANGED overlapped,
         \A s \in Sessions : Len(outbound'[s]) <= Len(outbound[s]),
         \A s \in Sessions : Pushing(s)' \subseteq Pushing(s)
  PROVE  QueueInv'
<1> SUFFICES ASSUME MaxOutbound > 0, NEW s \in Sessions
             PROVE  /\ Len(outbound'[s]) + Cardinality(Pushing(s)')
                         <= MaxOutbound + Cardinality(IoThreads) - 1
                    /\ s \notin overlapped => Len(outbound'[s]) <= MaxOutbound
                    /\ s \notin overlapped /\ Pushing(s)' # {} => Len(outbound'[s]) < MaxOutbound
  BY DEF QueueInv
<1>1. Len(outbound[s]) \in Nat /\ Len(outbound'[s]) \in Nat
  BY SMT DEF WsTypeOK
<1>2. Cardinality(Pushing(s)') <= Cardinality(Pushing(s)) /\ Cardinality(Pushing(s)') \in Nat
  BY PushingFinite, FS_Subset, FS_CardinalityType
<1>3. Cardinality(Pushing(s)) \in Nat /\ Cardinality(IoThreads) \in Nat
  BY PushingFinite
<1> QED BY <1>1, <1>2, <1>3, WsAssumption, SMT DEF QueueInv

(* The closure of PostSend: it goes on to push only where there is room.    *)
LEMMA PostedKeepsQueue ==
  ASSUME WsTypeOK, ThreadInv, QueueInv, NEW t \in IoThreads, NEW s \in Sessions, OnPosted(t, s)
  PROVE  QueueInv'
<1>1. UNCHANGED <<outbound, overlapped>>
  BY DEF OnPosted, ws_history
<1>2. \A u \in IoThreads \ {t} : thread'[u] = thread[u]
  BY DEF OnPosted, ThreadInv
<1>3. ~ Stands(t, "push")
  BY DEF OnPosted, Stands
<1>4. /\ Stands(t, "push")' => Self(t)' = s
      /\ Stands(t, "push")' /\ MaxOutbound > 0 => Len(outbound[s]) < MaxOutbound
  BY WsAssumption, SMT DEF OnPosted, Stands, Self, ThreadInv, WsTypeOK
<1>5. \A r \in Sessions \ {s} : Pushing(r)' = Pushing(r)
  BY <1>2, <1>3, <1>4 DEF Pushing, Stands, Self
<1>6. \A r \in Sessions : Len(outbound[r]) \in Nat
  BY SMT DEF WsTypeOK
<1>7. Cardinality(Pushing(s)') <= Cardinality(IoThreads) /\ Cardinality(Pushing(s)') \in Nat
      /\ Cardinality(IoThreads) \in Nat
  <2>1. Pushing(s)' \subseteq IoThreads
    BY DEF Pushing
  <2> QED BY <2>1, WsAssumption, FS_Subset, FS_CardinalityType
<1>8. CASE Stands(t, "push")'
  BY <1>1, <1>4, <1>5, <1>6, <1>7, <1>8, WsAssumption, SMT DEF QueueInv
<1>9. CASE ~ Stands(t, "push")'
  <2>1. Pushing(s)' = Pushing(s)
    BY <1>2, <1>3, <1>9 DEF Pushing, Stands, Self
  <2> QED BY <1>1, <1>5, <2>1 DEF QueueInv
<1> QED BY <1>8, <1>9

(* push_back: the place was taken when the length was tested.               *)
LEMMA PushKeepsQueue ==
  ASSUME WsTypeOK, ThreadInv, QueueInv, NEW t \in IoThreads, PushBack(t)
  PROVE  QueueInv'
<1>1. PICK s \in Sessions : s = Self(t) /\ Stands(t, "push") /\ thread[t].msg \in Messages
  BY DEF PushBack, ThreadInv, Stands
<1>2. /\ outbound[s] \in Seq(Messages) /\ \A r \in Sessions : Len(outbound[r]) \in Nat
      /\ Len(outbound'[s]) = Len(outbound[s]) + 1
      /\ \A r \in Sessions \ {s} : outbound'[r] = outbound[r]
  BY <1>1, SMT DEF PushBack, WsTypeOK
<1>3. ~ Stands(t, "push")' /\ \A u \in IoThreads \ {t} : thread'[u] = thread[u]
  BY <1>1 DEF PushBack, Turns, Stands, ThreadInv
<1>4. Pushing(s)' = Pushing(s) \ {t} /\ t \in Pushing(s)
      /\ \A r \in Sessions \ {s} : Pushing(r)' = Pushing(r)
  BY <1>1, <1>3 DEF Pushing, Stands, Self
<1>5. Cardinality(Pushing(s)') = Cardinality(Pushing(s)) - 1 /\ Cardinality(Pushing(s)) \in Nat
      /\ Cardinality(IoThreads) \in Nat
  BY <1>4, PushingFinite, FS_RemoveElement
<1>6. /\ overlapped' \subseteq overlapped \cup {s} /\ overlapped \subseteq overlapped'
      /\ Pushing(s)' # {} => s \in overlapped'
  <2>1. overlapped' = IF \E u \in IoThreads \ {t} : u \in Pushing(s)
                        THEN overlapped \cup {s} ELSE overlapped
    BY <1>1 DEF PushBack, Pushing
  <2>2. Pushing(s)' # {} => \E u \in IoThreads \ {t} : u \in Pushing(s)
    BY <1>4 DEF Pushing
  <2> QED BY <2>1, <2>2
<1> SUFFICES ASSUME MaxOutbound > 0, NEW r \in Sessions
             PROVE  /\ Len(outbound'[r]) + Cardinality(Pushing(r)')
                         <= MaxOutbound + Cardinality(IoThreads) - 1
                    /\ r \notin overlapped' => Len(outbound'[r]) <= MaxOutbound
                    /\ r \notin overlapped' /\ Pushing(r)' # {} => Len(outbound'[r]) < MaxOutbound
  BY DEF QueueInv
<1>7. CASE r = s
  <2>1. /\ Len(outbound[s]) + Cardinality(Pushing(s)) <= MaxOutbound + Cardinality(IoThreads) - 1
        /\ s \notin overlapped => Len(outbound[s]) < MaxOutbound
    BY <1>1, <1>4 DEF QueueInv
  <2>2. Len(outbound'[s]) + Cardinality(Pushing(s)')
          = Len(outbound[s]) + Cardinality(Pushing(s))
    BY <1>1, <1>2, <1>5, SMT
  <2>3. s \notin overlapped' => Len(outbound'[s]) <= MaxOutbound
    BY <1>1, <1>2, <1>6, <2>1, WsAssumption, SMT
  <2> QED BY <1>6, <1>7, <2>1, <2>2, <2>3
<1>8. CASE r # s
  BY <1>2, <1>4, <1>6, <1>8 DEF QueueInv
<1> QED BY <1>7, <1>8

(* No other step lets a handler through to push.                            *)
LEMMA TurnPushes ==
  ASSUME ThreadInv, NEW t \in IoThreads,
         \/ UNCHANGED thread
         \/ Returns(t)
         \/ \E s : \E there \in HandlerPoints : Turns(t, there, s)
  PROVE  \A s \in Sessions : Pushing(s)' \subseteq Pushing(s)
BY SMT DEF ThreadInv, Pushing, Stands, Self, Turns, Returns, Idle, HandlerPoints

(* Every step keeps the bound of the outbound queue.                        *)
LEMMA QueueStep ==
  ASSUME WsTypeOK, WsTypeOK', ThreadInv, QueueInv, [WsNext]_ws_vars
  PROVE  QueueInv'
<1>1. ASSUME UNCHANGED <<outbound, overlapped>>,
             \A s \in Sessions : Pushing(s)' \subseteq Pushing(s)
      PROVE  QueueInv'
  <2>1. \A s \in Sessions : Len(outbound'[s]) <= Len(outbound[s])
    BY <1>1, SMT DEF WsTypeOK
  <2> QED BY <1>1, <2>1, QueueShrinks
<1>2. ASSUME UNCHANGED <<outbound, overlapped, thread>> PROVE QueueInv'
  BY <1>1, <1>2 DEF Pushing, Stands, Self
<1>3. ASSUME NEW t \in IoThreads, NEW s \in Sessions, Begins(t, s) PROVE QueueInv'
  <2>1. CASE OnPosted(t, s)
    BY <2>1, PostedKeepsQueue
  <2>2. CASE \/ OnAcceptError(t, s) \/ OnAcceptBearer(t, s) \/ OnAcceptDeferred(t, s)
             \/ OnTimer(t, s) \/ OnFirstRead(t, s) \/ OnWritten(t, s) \/ OnReadError(t, s)
    <3>1. UNCHANGED <<outbound, overlapped>>
      BY <2>2 DEF OnAcceptError, OnAcceptBearer, OnAcceptDeferred, OnTimer, OnFirstRead,
         OnWritten, OnReadError, ws_out, ws_history
    <3>2. UNCHANGED thread \/ \E there \in HandlerPoints : Turns(t, there, s)
      BY <2>2 DEF OnAcceptError, OnAcceptBearer, OnAcceptDeferred, OnTimer, OnFirstRead,
         OnWritten, OnReadError, HandlerPoints
    <3> QED BY <1>1, <3>1, <3>2, TurnPushes
  <2> QED BY <1>3, <2>1, <2>2 DEF Begins
<1>4. ASSUME NEW t \in IoThreads, Continues(t) PROVE QueueInv'
  <2>1. CASE PushBack(t)
    BY <2>1, PushKeepsQueue
  <2>2. CASE PumpWrite(t)
    <3>1. Self(t) \in Sessions /\ UNCHANGED overlapped
      BY <2>2 DEF PumpWrite, ThreadInv, Stands, ws_history
    <3>2. \A s \in Sessions : Len(outbound'[s]) <= Len(outbound[s])
      BY <2>2, <3>1, SMT DEF PumpWrite, WsTypeOK
    <3>3. \A s \in Sessions : Pushing(s)' \subseteq Pushing(s)
      BY <2>2, TurnPushes DEF PumpWrite
    <3> QED BY <3>1, <3>2, <3>3, QueueShrinks
  <2>3. CASE \/ OnTimerShut(t) \/ OnFirstRefused(t) \/ OnFirstAuth(t) \/ PumpTest(t)
             \/ ShutdownTest(t) \/ ShutdownUnregister(t) \/ ShutdownClose(t)
    <3>1. UNCHANGED <<outbound, overlapped>>
      BY <2>3 DEF OnTimerShut, OnFirstRefused, OnFirstAuth, PumpTest, ShutdownTest,
         ShutdownUnregister, ShutdownClose, ws_out, ws_history
    <3>2. Returns(t) \/ \E there \in HandlerPoints : Turns(t, there, Self(t))
      BY <2>3 DEF OnTimerShut, OnFirstRefused, OnFirstAuth, PumpTest, ShutdownTest,
         ShutdownUnregister, ShutdownClose, HandlerPoints
    <3> QED BY <1>1, <3>1, <3>2, TurnPushes
  <2> QED BY <1>4, <2>1, <2>2, <2>3 DEF Continues
<1>5. ASSUME NEW n \in Notifiers, NotifyCalls(n) \/ \E m \in Messages : NotifyFinds(n, m)
      PROVE  QueueInv'
  BY <1>2, <1>5 DEF NotifyCalls, NotifyFinds, ws_out, ws_history
<1>6. ASSUME NEW s \in Sessions, Run(s) \/ PeerGone(s) \/ Expire(s) PROVE QueueInv'
  BY <1>2, <1>6 DEF Run, PeerGone, Expire, ws_out, ws_history
<1>7. CASE UNCHANGED ws_vars
  BY <1>2, <1>7 DEF ws_vars, ws_out, ws_history
<1> QED BY <1>3, <1>4, <1>5, <1>6, <1>7 DEF WsNext

----------------------------------------------------------------------------
(* Whoever decides the authentication of a session, and who attends to it. *)

AttendInv == FirstFrameInv /\ SessionsAttended

(* Steps that leave the connection alone, and in which a handler neither    *)
(* decides the authentication nor ends a shutdown.                          *)
LEMMA PushesAttend ==
  ASSUME ThreadInv, AttendInv, UNCHANGED <<senders, ws_conn>>,
         \A u \in IoThreads :
           \/ thread'[u] = thread[u]
           \/ /\ thread'[u].at \notin {"refuse", "auth"}
              /\ thread[u].at \notin {"shutdown", "unregister", "expire"}
           \/ thread[u].at = "shutdown" /\ identified[Self(u)]
              /\ thread'[u].at = "unregister" /\ Self(u)' = Self(u)
           \/ thread[u].at = "shutdown" /\ ~ Registered(Self(u))
              /\ thread'[u].at = "close"
  PROVE  AttendInv'
BY SMT DEF AttendInv, FirstFrameInv, SessionsAttended, InHandler, Registered, ws_conn, Self,
   ThreadInv

(* The steps before the first frame is read, and those of the peer.         *)
LEMMA AcceptAttends ==
  ASSUME WsTypeOK, ThreadInv, RegistryExact, AttendInv, NEW s \in Sessions,
         \/ Run(s) \/ PeerGone(s) \/ Expire(s)
         \/ \E t \in IoThreads :
              OnAcceptError(t, s) \/ OnAcceptBearer(t, s) \/ OnAcceptDeferred(t, s)
  PROVE  AttendInv'
<1> USE WsAssumption
    DEF WsTypeOK, AttendInv, FirstFrameInv, SessionsAttended, InHandler, Registered, Self, ThreadInv
<1>1. CASE Run(s)
  BY <1>1, SMT DEF Run
<1>2. CASE PeerGone(s)
  BY <1>2, SMT DEF PeerGone
<1>3. CASE Expire(s)
  BY <1>3, SMT DEF Expire
<1>4. ASSUME NEW t \in IoThreads, OnAcceptError(t, s) PROVE AttendInv'
  BY <1>4, SMT DEF OnAcceptError
<1>5. ASSUME NEW t \in IoThreads, OnAcceptBearer(t, s), FinishAuth(s) PROVE AttendInv'
  BY <1>5, SMT DEF OnAcceptBearer, FinishAuth, Register
<1>6. ASSUME NEW t \in IoThreads, OnAcceptBearer(t, s), FailTcpConnection(s) PROVE AttendInv'
  BY <1>6, SMT DEF OnAcceptBearer, FailTcpConnection
<1>7. ASSUME NEW t \in IoThreads, OnAcceptDeferred(t, s) PROVE AttendInv'
  BY <1>7, SMT DEF OnAcceptDeferred
<1> QED BY <1>1, <1>2, <1>3, <1>4, <1>5, <1>6, <1>7 DEF OnAcceptBearer

(* The timer, the first frame and the end of the connection.                *)
LEMMA EndAttends ==
  ASSUME WsTypeOK, ThreadInv, RegistryExact, AttendInv, NEW t \in IoThreads,
         \/ \E s \in Sessions : OnTimer(t, s) \/ OnFirstRead(t, s) \/ OnReadError(t, s)
         \/ OnTimerShut(t) \/ OnFirstRefused(t) \/ OnFirstAuth(t)
         \/ ShutdownUnregister(t) \/ ShutdownClose(t)
  PROVE  AttendInv'
<1> USE DEF AttendInv, FirstFrameInv, SessionsAttended, InHandler, Registered, Self
<1>0. /\ senders \in [Devices -> SUBSET Sessions] /\ Device \in [Sessions -> Devices]
      /\ phase \in [Sessions -> {"none", "accept", "first", "open", "over"}]
      /\ socket \in [Sessions -> {"up", "down"}]
      /\ deferred \in [Sessions -> BOOLEAN]
      /\ timer \in [Sessions -> {"off", "armed", "expired"}]
      /\ DOMAIN thread = IoThreads
      /\ \A u \in IoThreads : thread[u].at # "idle" => thread[u].session \in Sessions
  BY WsAssumption DEF WsTypeOK, ThreadInv
<1>1. ASSUME NEW s \in Sessions, OnTimer(t, s) PROVE AttendInv'
  <2>1. /\ thread[t].at = "idle" /\ UNCHANGED <<senders, phase, socket, deferred>>
        /\ timer' = [timer EXCEPT ![s] = "off"]
    BY <1>1 DEF OnTimer, Stands
  <2>2. /\ deferred[s] => thread'[t].at = "expire" /\ thread'[t].session = s
        /\ ~ deferred[s] => thread'[t] = thread[t]
        /\ \A u \in IoThreads : u # t => thread'[u] = thread[u]
    BY <1>0, <1>1, SMT DEF OnTimer, Turns
  <2> QED BY <1>0, <2>1, <2>2, SMT
<1>2. ASSUME NEW s \in Sessions, OnFirstRead(t, s) PROVE AttendInv'
  <2>1. /\ thread[t].at = "idle" /\ UNCHANGED <<senders, socket, deferred, timer>>
        /\ phase[s] = "first" /\ phase' = [phase EXCEPT ![s] = "over"]
    BY <1>2 DEF OnFirstRead, Stands
  <2>2. /\ \/ thread'[t] = thread[t]
           \/ thread'[t].at \in {"refuse", "auth"} /\ thread'[t].session = s
        /\ \A u \in IoThreads : u # t => thread'[u] = thread[u]
    BY <1>0, <1>2, SMT DEF OnFirstRead, Turns
  <2> QED BY <1>0, <2>1, <2>2, SMT
<1>3. ASSUME NEW s \in Sessions, OnReadError(t, s) PROVE AttendInv'
  <2>1. /\ thread[t].at = "idle" /\ UNCHANGED <<senders, socket, deferred, timer>>
        /\ phase[s] = "open" /\ phase' = [phase EXCEPT ![s] = "over"]
    BY <1>3 DEF OnReadError, Stands
  <2>2. /\ thread'[t].at = "shutdown" /\ thread'[t].session = s
        /\ \A u \in IoThreads : u # t => thread'[u] = thread[u]
    BY <1>0, <1>3 DEF OnReadError, Turns
  <2> QED BY <1>0, <2>1, <2>2, SMT
<1>4. CASE OnTimerShut(t)
  <2>1. /\ thread[t].at = "expire" /\ UNCHANGED <<senders, phase, timer>>
        /\ deferred' = [deferred EXCEPT ![thread[t].session] = FALSE]
        /\ socket' = [socket EXCEPT ![thread[t].session] = "down"]
    BY <1>4 DEF OnTimerShut, Stands
  <2>2. /\ thread'[t].at = "idle"
        /\ \A u \in IoThreads : u # t => thread'[u] = thread[u]
    BY <1>0, <1>4 DEF OnTimerShut, Returns, Idle
  <2> QED BY <1>0, <2>1, <2>2, SMT
<1>5. CASE OnFirstRefused(t)
  <2>1. /\ thread[t].at = "refuse" /\ UNCHANGED senders
        /\ deferred' = [deferred EXCEPT ![thread[t].session] = FALSE]
        /\ phase' = [phase EXCEPT ![thread[t].session] = "over"]
        /\ socket' = [socket EXCEPT ![thread[t].session] = "down"]
        /\ \A s \in Sessions : s # thread[t].session => timer'[s] = timer[s]
    BY <1>0, <1>5, SMT DEF OnFirstRefused, CancelTimer, FailTcpConnection, Stands
  <2>2. /\ thread'[t].at = "idle"
        /\ \A u \in IoThreads : u # t => thread'[u] = thread[u]
    BY <1>0, <1>5 DEF OnFirstRefused, Returns, Idle
  <2> QED BY <1>0, <2>1, <2>2, SMT
<1>6. CASE OnFirstAuth(t)
  <2>1. /\ thread[t].at = "auth" /\ UNCHANGED socket
        /\ senders' = [senders EXCEPT ![Device[thread[t].session]] = {thread[t].session}]
        /\ deferred' = [deferred EXCEPT ![thread[t].session] = FALSE]
        /\ phase' = [phase EXCEPT ![thread[t].session] = "open"]
        /\ \A s \in Sessions : s # thread[t].session => timer'[s] = timer[s]
    BY <1>0, <1>6, SMT DEF OnFirstAuth, CancelTimer, FinishAuth, Register, Stands
  <2>2. /\ thread'[t].at = "idle"
        /\ \A u \in IoThreads : u # t => thread'[u] = thread[u]
    BY <1>0, <1>6 DEF OnFirstAuth, Returns, Idle
  <2> QED BY <1>0, <2>1, <2>2, SMT
<1>7. CASE ShutdownUnregister(t)
  <2>1. /\ thread[t].at = "unregister" /\ UNCHANGED <<phase, socket, deferred, timer>>
        /\ senders' = [senders EXCEPT ![Device[thread[t].session]] = {}]
    BY <1>7 DEF ShutdownUnregister, Unregister, Stands
  <2>2. /\ thread'[t].at = "close"
        /\ \A u \in IoThreads : u # t => thread'[u] = thread[u]
    BY <1>0, <1>7 DEF ShutdownUnregister, Turns
  <2> QED BY <1>0, <2>1, <2>2, SMT
<1>8. CASE ShutdownClose(t)
  <2>1. /\ thread[t].at = "close" /\ UNCHANGED <<senders, phase, deferred, timer>>
        /\ socket' = [socket EXCEPT ![thread[t].session] = "down"]
    BY <1>8 DEF ShutdownClose, Stands
  <2>2. /\ thread'[t].at = "idle"
        /\ \A u \in IoThreads : u # t => thread'[u] = thread[u]
    BY <1>0, <1>8 DEF ShutdownClose, Returns, Idle
  <2> QED BY <1>0, <2>1, <2>2, SMT
<1> QED BY <1>1, <1>2, <1>3, <1>4, <1>5, <1>6, <1>7, <1>8

(* Every step keeps the sessions attended.                                  *)
LEMMA AttendStep ==
  ASSUME WsTypeOK, ThreadInv, RegistryExact, AttendInv, [WsNext]_ws_vars
  PROVE  AttendInv'
<1>1. ASSUME NEW t \in IoThreads, UNCHANGED <<senders, ws_conn>>,
             \A u \in IoThreads : u # t => thread'[u] = thread[u],
             thread[t].at \in {"idle", "push", "pump", "write"},
             thread'[t].at \in {"idle", "push", "pump", "write", "shutdown"}
      PROVE  AttendInv'
  BY <1>1, PushesAttend
<1>2. ASSUME NEW t \in IoThreads, NEW s \in Sessions, OnPosted(t, s) \/ OnWritten(t, s)
      PROVE  AttendInv'
  BY <1>1, <1>2, SMT DEF OnPosted, OnWritten, Stands, Turns, ThreadInv
<1>3. ASSUME NEW t \in IoThreads, PushBack(t) \/ PumpTest(t) \/ PumpWrite(t)
      PROVE  AttendInv'
  BY <1>1, <1>3, SMT DEF PushBack, PumpTest, PumpWrite, Stands, Turns, Returns, Idle, ThreadInv
<1>4. ASSUME NEW t \in IoThreads, ShutdownTest(t) PROVE AttendInv'
  <2>1. thread[t].at = "shutdown" /\ thread[t].session \in Sessions /\ UNCHANGED <<senders,
  ws_conn>>
    BY <1>4 DEF ShutdownTest, Stands, ThreadInv, Self
  <2>2. \A u \in IoThreads : u # t => thread'[u] = thread[u]
    BY <1>4 DEF ShutdownTest, Turns, ThreadInv
  <2>3. CASE identified[Self(t)]
    <3>1. thread'[t].at = "unregister" /\ thread'[t].session = thread[t].session
      BY <1>4, <2>3 DEF ShutdownTest, Turns, ThreadInv, Self
    <3> QED BY <2>1, <2>2, <2>3, <3>1, PushesAttend DEF Self
  <2>4. CASE ~ identified[Self(t)]
    <3>1. thread'[t].at = "close" /\ ~ Registered(Self(t))
      BY <1>4, <2>1, <2>4 DEF ShutdownTest, Turns, ThreadInv, Self, RegistryExact
    <3> QED BY <2>1, <2>2, <3>1, PushesAttend
  <2> QED BY <2>3, <2>4
<1>5. ASSUME UNCHANGED <<senders, ws_conn, thread>> PROVE AttendInv'
  BY <1>5, PushesAttend
<1>6. ASSUME NEW n \in Notifiers, NotifyCalls(n) \/ \E m \in Messages : NotifyFinds(n, m)
      PROVE  AttendInv'
  BY <1>5, <1>6 DEF NotifyCalls, NotifyFinds
<1>7. CASE UNCHANGED ws_vars
  BY <1>5, <1>7 DEF ws_vars
<1> QED BY <1>2, <1>3, <1>4, <1>6, <1>7, AcceptAttends, EndAttends DEF WsNext, Begins, Continues

(* WsInv holds in every reachable state. *)
THEOREM WsInvariant == WsSpec => []WsInv
<1>1. ASSUME WsInit PROVE WsInv
  <2>1. WsTypeOK /\ ThreadInv
    BY <1>1, WsAssumption, SMT DEF WsInit, RegistryInit, WsTypeOK, ThreadInv, Idle, Self, Stands
  <2>2. RegistryExact
    BY <1>1, WsAssumption DEF WsInit, RegistryInit, RegistryExact, Registered
  <2>3. QueueInv
    <3>1. \A s \in Sessions : Pushing(s) = {} /\ Len(outbound[s]) = 0
      BY <1>1 DEF WsInit, Pushing, Stands, Idle
    <3> QED BY <3>1, FS_EmptySet, PushingFinite, WsAssumption, SMT DEF QueueInv
  <2>4. FirstFrameInv /\ SessionsAttended
    BY <1>1, WsAssumption
       DEF WsInit, RegistryInit, FirstFrameInv, SessionsAttended, Registered, InHandler, Idle
  <2> QED BY <2>1, <2>2, <2>3, <2>4 DEF WsInv
<1>2. ASSUME WsInv, [WsNext]_ws_vars PROVE WsInv'
  <2>1. WsTypeOK' /\ ThreadInv'
    BY <1>2, BeginsTyped, PushTyped, ContinuesTyped, OthersTyped
       DEF WsInv, WsNext, Begins, Continues
  <2> QED BY <1>2, <2>1, RegistryStep, QueueStep, AttendStep DEF WsInv, AttendInv
<1> QED BY <1>1, <1>2, PTL DEF WsSpec

(* WsPushRegistry: pushes go to exactly the session that authenticated last, *)
(* and to none that was shut down, for any number of sessions and threads.   *)
THEOREM RegistryStaysExact == WsSpec => []RegistryExact
BY WsInvariant, PTL DEF WsInv

(* max_ws_outbound_queue, tested before push_back on threads that overlap,   *)
(* is exceeded by at most one frame for each other network thread.           *)
THEOREM QueueOvershootBounded == WsSpec => []OutboundOvershoot
<1>1. ASSUME WsInv PROVE OutboundOvershoot
  <2>1. \A s \in Sessions : Len(outbound[s]) \in Nat
    BY <1>1, SMT DEF WsInv, WsTypeOK
  <2> QED BY <1>1, <2>1, PushingFinite, WsAssumption, SMT DEF WsInv, QueueInv, OutboundOvershoot
<1> QED BY <1>1, WsInvariant, PTL

(* A session in the registry has a read pending or a Shutdown that takes it  *)
(* out, and one that waits for its first frame a timer or a shut socket.     *)
THEOREM SessionsStayAttended == WsSpec => []SessionsAttended
BY WsInvariant, PTL DEF WsInv

----------------------------------------------------------------------------
(* The rate limiter.                                                       *)

\* Calls for k that read the clock before hi and are not decided yet.
Slow(k, hi) == {t \in Callers : \E c \in call[t] : c.key = k /\ c.at < hi}

\* What can have been let through in the stretch that begins at from, by where
\* the window of its key stands: nothing when it opened a window length before,
\* its own count while the stretch overlaps it, and a full window more once
\* it opened in the stretch.  When it opened behind the stretch only slow calls
\* can still fall into it.
Stretch(from, start, count, n, slow, callers) ==
  IF count = 0 \/ Window < 1 \/ start + Window <= from
    THEN n = 0
    ELSE /\ start < from => n < count
         /\ from <= start /\ start < from + Window => n < MaxEvents + count
         /\ from + Window <= start => n + slow < 2 * MaxEvents + callers - 1

StretchInv(k, from) ==
  Stretch(from, by_key[k].start, by_key[k].count, admitted[k][from],
          Cardinality(Slow(k, from + Window)), Cardinality(Callers))

CallInv ==
  \A t \in Callers : \A c \in call[t] :
    c.key \in Keys /\ c.at \in 0..MaxTime /\ c.at <= now /\ call[t] = {c}

LimiterInv ==
  /\ LimiterTypeOK
  /\ CallInv
  /\ \A k \in Keys :
       /\ by_key[k].start <= now
       /\ by_key[k].count > 0 => Callers # {}
       /\ \A from \in 0..MaxTime : StretchInv(k, from)

\* A call that opens a window.
LEMMA StretchOpens ==
  ASSUME NEW from \in Int, NEW start \in Int, NEW count \in 0..MaxEvents, NEW n \in Nat,
         NEW slow \in Nat, NEW callers \in Nat, NEW at \in Int, NEW left \in Nat,
         Stretch(from, start, count, n, slow, callers), count = 0 \/ at - start >= Window,
         left <= slow, left < callers
  PROVE  Stretch(from, at, 1, n + (IF at \in from..(from + Window - 1) THEN 1 ELSE 0), left,
                 callers)
BY LimiterAssumption, SMT DEF Stretch

\* A call that is counted in the running window; a slow one is slow no more.
LEMMA StretchCounts ==
  ASSUME NEW from \in Int, NEW start \in Int, NEW count \in 0..MaxEvents, NEW n \in Nat,
         NEW slow \in Nat, NEW callers \in Nat, NEW at \in Int, NEW left \in Nat,
         Stretch(from, start, count, n, slow, callers), count > 0, at - start < Window,
         left <= slow, at < from + Window => left < slow
  PROVE  Stretch(from, start, count + 1,
                 n + (IF at \in from..(from + Window - 1) THEN 1 ELSE 0), left, callers)
BY LimiterAssumption, SMT DEF Stretch

\* A call that is decided elsewhere or refused.
LEMMA StretchEases ==
  ASSUME NEW from \in Int, NEW start \in Int, NEW count \in Nat, NEW n \in Nat,
         NEW slow \in Nat, NEW callers \in Nat, NEW left \in Nat,
         Stretch(from, start, count, n, slow, callers),
         left <= slow \/ start < from + Window
  PROVE  Stretch(from, start, count, n, left, callers)
BY LimiterAssumption, SMT DEF Stretch

\* The slow calls are among the callers, and fewer when one is taken out.
LEMMA SlowCount ==
  ASSUME NEW S \in SUBSET Callers, NEW T \in SUBSET S
  PROVE  /\ Cardinality(S) \in Nat /\ Cardinality(T) \in Nat /\ Cardinality(Callers) \in Nat
         /\ Cardinality(T) <= Cardinality(S)
         /\ \A t \in S : t \notin T => Cardinality(T) < Cardinality(S)
<1>1. IsFiniteSet(Callers) /\ IsFiniteSet(S) /\ IsFiniteSet(T)
  BY LimiterAssumption, FS_Subset
<1>2. Cardinality(T) <= Cardinality(S)
  BY <1>1, FS_Subset
<1>3. ASSUME NEW t \in S, t \notin T PROVE Cardinality(T) < Cardinality(S)
  <2>1. Cardinality(S \ {t}) = Cardinality(S) - 1
    BY <1>1, FS_RemoveElement
  <2>2. IsFiniteSet(S \ {t}) /\ T \subseteq S \ {t}
    BY <1>1, <1>3, FS_Subset
  <2>3. Cardinality(T) <= Cardinality(S \ {t})
    BY <2>2, FS_Subset
  <2> QED
    BY <1>1, <2>1, <2>3, FS_CardinalityType, SMT
<1> QED
  BY <1>1, <1>2, <1>3, FS_CardinalityType

\* While a window does not change, its stretches stay in bounds when no call
\* becomes slow.
LEMMA LimiterKeeps ==
  ASSUME LimiterInv, NEW k \in Keys, NEW from \in 0..MaxTime,
         by_key'[k] = by_key[k], admitted'[k] = admitted[k],
         \/ Slow(k, from + Window)' \subseteq Slow(k, from + Window)
         \/ by_key[k].start < from + Window
  PROVE  StretchInv(k, from)'
<1>1. /\ by_key[k].start \in Int /\ by_key[k].count \in Nat /\ admitted[k][from] \in Nat
      /\ from \in Int
  BY LimiterAssumption, SMT DEF LimiterInv, LimiterTypeOK
<1>2. StretchInv(k, from)
  BY DEF LimiterInv
<1>3. /\ Cardinality(Slow(k, from + Window)) \in Nat
      /\ Cardinality(Slow(k, from + Window)') \in Nat
      /\ Cardinality(Callers) \in Nat
      /\ \/ Cardinality(Slow(k, from + Window)') <= Cardinality(Slow(k, from + Window))
         \/ by_key[k].start < from + Window
  <2>1. Slow(k, from + Window) \subseteq Callers /\ Slow(k, from + Window)' \subseteq Callers
    BY DEF Slow
  <2> QED
    BY <2>1, SlowCount
<1>4. Stretch(from, by_key[k].start, by_key[k].count, admitted[k][from],
              Cardinality(Slow(k, from + Window)'), Cardinality(Callers))
  BY <1>1, <1>2, <1>3, StretchEases DEF StretchInv
<1> QED
  BY <1>4 DEF StretchInv

\* A call that was decided is slow no more.
LEMMA SlowDecided ==
  ASSUME LimiterInv, NEW t \in Callers, call' = [call EXCEPT ![t] = {}], NEW k \in Keys, NEW hi
  PROVE  Slow(k, hi)' = Slow(k, hi) \ {t}
BY DEF LimiterInv, LimiterTypeOK, Slow

\* Allow keeps every stretch of the key it decides in bounds.
LEMMA AllowKeeps ==
  ASSUME LimiterInv, NEW t \in Callers, NEW c \in call[t], call' = [call EXCEPT ![t] = {}],
         ~ Refuses(by_key[c.key], c.at),
         by_key' = [by_key EXCEPT ![c.key] = Counted(@, c.at)],
         admitted' = [admitted EXCEPT ![c.key] = Recorded(@, c.at)],
         NEW from \in 0..MaxTime
  PROVE  StretchInv(c.key, from)'
<1> DEFINE k == c.key
           S == Slow(k, from + Window)
           T == S \ {t}
           n == admitted[k][from] + (IF c.at \in from..(from + Window - 1) THEN 1 ELSE 0)
<1>1. /\ k \in Keys /\ c.at \in Int /\ from \in Int
      /\ by_key[k].start \in Int /\ by_key[k].count \in 0..MaxEvents
      /\ admitted[k][from] \in Nat
  BY LimiterAssumption, SMT DEF LimiterInv, LimiterTypeOK, CallInv
<1>2. Stretch(from, by_key[k].start, by_key[k].count, admitted[k][from], Cardinality(S),
              Cardinality(Callers))
  BY <1>1 DEF LimiterInv, StretchInv
<1>3. Slow(k, from + Window)' = T
  BY <1>1, SlowDecided
<1>4. /\ Cardinality(S) \in Nat /\ Cardinality(T) \in Nat /\ Cardinality(Callers) \in Nat
      /\ Cardinality(T) <= Cardinality(S) /\ Cardinality(T) < Cardinality(Callers)
      /\ t \in S => Cardinality(T) < Cardinality(S)
  <2>1. S \subseteq Callers /\ T \subseteq Callers /\ T \subseteq S /\ t \notin T
    BY DEF Slow
  <2> QED
    BY <2>1, SlowCount
<1>5. c.at < from + Window => t \in S
  BY DEF Slow
<1>6. admitted'[k][from] = n
  BY <1>1 DEF Recorded, LimiterInv, LimiterTypeOK
<1>7. by_key'[k] = Counted(by_key[k], c.at)
  BY <1>1 DEF LimiterInv, LimiterTypeOK
<1> HIDE DEF S, T, n
<1>8. CASE Opens(by_key[k], c.at)
  <2>1. by_key'[k].start = c.at /\ by_key'[k].count = 1
    BY <1>7, <1>8, SMT DEF Counted
  <2>2. Stretch(from, c.at, 1, n, Cardinality(T), Cardinality(Callers))
    BY <1>1, <1>2, <1>4, <1>8, StretchOpens DEF Opens, n
  <2> QED
    BY <1>3, <1>6, <2>1, <2>2 DEF StretchInv
<1>9. CASE ~ Opens(by_key[k], c.at)
  <2>1. by_key'[k].start = by_key[k].start /\ by_key'[k].count = by_key[k].count + 1
    BY <1>7, <1>9, SMT DEF Counted
  <2>2. by_key[k].count > 0 /\ c.at - by_key[k].start < Window
    BY <1>1, <1>9, LimiterAssumption, SMT DEF Opens
  <2>3. Stretch(from, by_key[k].start, by_key[k].count + 1, n, Cardinality(T), Cardinality(Callers))
    BY <1>1, <1>2, <1>4, <1>5, <2>2, StretchCounts DEF n
  <2> QED
    BY <1>3, <1>6, <2>1, <2>3 DEF StretchInv
<1> QED
  BY <1>8, <1>9

\* LimiterInv is inductive.
LEMMA LimiterStep ==
  ASSUME LimiterInv, [LimiterNext]_limiter_vars
  PROVE  LimiterInv'
<1> USE LimiterAssumption
<1>0. LimiterTypeOK /\ CallInv
  BY DEF LimiterInv
<1>k. ASSUME UNCHANGED <<call, by_key, admitted, calls>>, now <= now', now' \in 0..MaxTime
      PROVE  LimiterInv'
  <2>1. \A k \in Keys, from \in 0..MaxTime : StretchInv(k, from)'
    BY <1>k, LimiterKeeps DEF Slow
  <2>2. LimiterTypeOK'
    BY <1>0, <1>k DEF LimiterTypeOK
  <2>3. CallInv' /\ \A k \in Keys : by_key'[k].start <= now'
    <3>1. \A i \in 0..MaxTime : i <= now => i <= now'
      BY <1>0, <1>k, SMT DEF LimiterTypeOK
    <3>2. \A k \in Keys : by_key[k].start \in 0..MaxTime /\ by_key[k].start <= now
      BY <1>0 DEF LimiterInv, LimiterTypeOK
    <3> QED
      BY <1>0, <1>k, <3>1, <3>2 DEF CallInv
  <2>4. \A k \in Keys : by_key'[k].count > 0 => Callers # {}
    BY <1>k DEF LimiterInv
  <2> QED
    BY <2>1, <2>2, <2>3, <2>4 DEF LimiterInv
<1>1. CASE Tick
  BY <1>0, <1>1, <1>k, SMT DEF Tick, LimiterTypeOK
<1>2. CASE UNCHANGED limiter_vars
  BY <1>0, <1>2, <1>k, SMT DEF limiter_vars, LimiterTypeOK
<1>3. ASSUME NEW t \in Callers, NEW l \in Keys, Limited(t, l) PROVE LimiterInv'
  <2>1. /\ call' = [call EXCEPT ![t] = {[key |-> l, at |-> now]}]
        /\ UNCHANGED <<now, by_key, admitted>> /\ calls' = calls + 1 /\ calls < MaxCalls
    BY <1>3 DEF Limited
  <2>2. ASSUME NEW k \in Keys, NEW from \in 0..MaxTime PROVE StretchInv(k, from)'
    <3>1. by_key[k].start <= now /\ by_key[k].start \in Int /\ now \in Int
      BY <1>0, SMT DEF LimiterInv, LimiterTypeOK
    <3>2. CASE now < from + Window
      BY <2>1, <2>2, <3>1, <3>2, LimiterKeeps, SMT
    <3>3. CASE ~ (now < from + Window)
      <4>1. Slow(k, from + Window)' \subseteq Slow(k, from + Window)
        <5>1. \A v \in Callers : v # t => call'[v] = call[v]
          BY <1>0, <2>1 DEF LimiterTypeOK
        <5>2. \A e \in call'[t] : e.at = now
          BY <1>0, <2>1, SMT DEF LimiterTypeOK
        <5> QED
          BY <3>3, <5>1, <5>2 DEF Slow
      <4> QED
        BY <2>1, <2>2, <4>1, LimiterKeeps
    <3> QED
      BY <3>2, <3>3
  <2>3. LimiterTypeOK'
    BY <1>0, <2>1, SMT DEF LimiterTypeOK
  <2>4. CallInv'
    BY <1>0, <2>1, SMT DEF LimiterTypeOK, CallInv
  <2> QED
    BY <2>1, <2>2, <2>3, <2>4 DEF LimiterInv
<1>4. ASSUME NEW t \in Callers, Allow(t) PROVE LimiterInv'
  <2>1. PICK c \in call[t] :
          /\ call' = [call EXCEPT ![t] = {}] /\ UNCHANGED <<now, calls>>
          /\ IF Refuses(by_key[c.key], c.at)
               THEN UNCHANGED <<by_key, admitted>>
               ELSE /\ by_key' = [by_key EXCEPT ![c.key] = Counted(@, c.at)]
                    /\ admitted' = [admitted EXCEPT ![c.key] = Recorded(@, c.at)]
    BY <1>4 DEF Allow
  <2>2. c.key \in Keys /\ c.at \in 0..MaxTime /\ c.at <= now
    BY <1>0 DEF CallInv
  <2>3. call' \in [Callers -> SUBSET [key : Keys, at : 0..MaxTime]] /\ CallInv'
    BY <1>0, <2>1 DEF LimiterTypeOK, CallInv
  <2>4. ASSUME NEW k \in Keys, NEW hi \in Int PROVE Slow(k, hi)' \subseteq Slow(k, hi)
    <3>1. Slow(k, hi)' = Slow(k, hi) \ {t}
      BY <2>1, SlowDecided
    <3> QED
      BY <3>1
  <2>5. CASE Refuses(by_key[c.key], c.at)
    <3>1. UNCHANGED <<by_key, admitted>>
      BY <2>1, <2>5
    <3>2. \A k \in Keys, from \in 0..MaxTime : StretchInv(k, from)'
      BY <2>4, <3>1, LimiterKeeps, SMT
    <3> QED
      BY <1>0, <2>1, <2>3, <3>1, <3>2 DEF LimiterInv, LimiterTypeOK
  <2>6. CASE ~ Refuses(by_key[c.key], c.at)
    <3>1. /\ by_key' = [by_key EXCEPT ![c.key] = Counted(@, c.at)]
          /\ admitted' = [admitted EXCEPT ![c.key] = Recorded(@, c.at)]
      BY <2>1, <2>6
    <3>2. /\ Counted(by_key[c.key], c.at) \in [start : 0..MaxTime, count : 0..MaxEvents]
          /\ Counted(by_key[c.key], c.at).start <= now
      BY <1>0, <2>2, <2>6, SMT DEF Counted, Opens, Refuses, LimiterInv, LimiterTypeOK
    <3>3. Recorded(admitted[c.key], c.at) \in [0..MaxTime -> Nat]
      BY <1>0, <2>2, SMT DEF Recorded, LimiterTypeOK
    <3>4. LimiterTypeOK'
      BY <1>0, <2>1, <2>3, <3>1, <3>2, <3>3 DEF LimiterTypeOK
    <3>5. \A k \in Keys : by_key'[k].start <= now' /\ (by_key'[k].count > 0 => Callers # {})
      BY <1>0, <2>1, <2>2, <3>1, <3>2 DEF LimiterInv, LimiterTypeOK
    <3>6. ASSUME NEW k \in Keys, NEW from \in 0..MaxTime PROVE StretchInv(k, from)'
      <4>1. CASE k = c.key
        BY <2>1, <2>6, <3>1, <4>1, AllowKeeps
      <4>2. CASE k # c.key
        <5>1. by_key'[k] = by_key[k] /\ admitted'[k] = admitted[k]
          BY <1>0, <3>1, <4>2 DEF LimiterTypeOK
        <5> QED
          BY <2>4, <5>1, LimiterKeeps, SMT
      <4> QED
        BY <4>1, <4>2
    <3> QED
      BY <2>3, <3>4, <3>5, <3>6 DEF LimiterInv
  <2> QED
    BY <2>5, <2>6
<1> QED
  BY <1>1, <1>2, <1>3, <1>4 DEF LimiterNext

(* LimiterInv holds in every reachable state. *)
THEOREM LimiterInvariant == LimiterSpec => []LimiterInv
<1>1. ASSUME LimiterInit PROVE LimiterInv
  <2>1. LimiterTypeOK
    BY <1>1, LimiterAssumption, SMT DEF LimiterInit, LimiterTypeOK
  <2>2. /\ \A t \in Callers : call[t] = {}
        /\ \A k \in Keys : by_key[k].start = 0 /\ by_key[k].count = 0 /\ now = 0
        /\ \A k \in Keys, from \in 0..MaxTime : admitted[k][from] = 0
    BY <1>1, SMT DEF LimiterInit
  <2>3. \A k \in Keys, from \in 0..MaxTime : StretchInv(k, from)
    BY <2>2 DEF StretchInv, Stretch
  <2>4. \A k \in Keys : by_key[k].start <= now /\ ~ (by_key[k].count > 0)
    BY <2>2, SMT
  <2> QED
    BY <2>1, <2>2, <2>3, <2>4 DEF LimiterInv, CallInv
<1> QED
  BY <1>1, LimiterStep, PTL DEF LimiterSpec

(* AuthRateLimiter::Allow lets fewer than twice max_events_ requests of a key  *)
(* through in any stretch of one window length, and one more for each other    *)
(* thread that was overtaken between the clock and the mutex, for any number   *)
(* of keys, threads and requests, any limit and any window.                    *)
THEOREM WindowsBounded == LimiterSpec => []TwoWindowsBound
<1>1. ASSUME LimiterInv PROVE TwoWindowsBound
  <2> SUFFICES ASSUME NEW k \in Keys, NEW from \in 0..MaxTime
               PROVE  admitted[k][from] <= 2 * MaxEvents - 1 + (Cardinality(Callers) - 1)
    BY DEF TwoWindowsBound
  <2>1. /\ by_key[k].start \in Int /\ by_key[k].count \in 0..MaxEvents /\ from \in Int
        /\ admitted[k][from] \in Nat
    BY <1>1, LimiterAssumption, SMT DEF LimiterInv, LimiterTypeOK
  <2>2. StretchInv(k, from) /\ (by_key[k].count > 0 => Callers # {})
    BY <1>1 DEF LimiterInv
  <2>3. /\ Cardinality(Slow(k, from + Window)) \in Nat /\ Cardinality(Callers) \in Nat
    BY SlowCount DEF Slow
  <2>4. Callers # {} => Cardinality(Callers) > 0
    BY <2>3, LimiterAssumption, FS_EmptySet, SMT
  <2> QED
    BY <2>1, <2>2, <2>3, <2>4, LimiterAssumption, SMT DEF StretchInv, Stretch
<1> QED
  BY <1>1, LimiterInvariant, PTL
=============================================================================
