---------------------------- MODULE SyncRecords ----------------------------
(***************************************************************************)
(* The encrypted sync records of one account and collection                *)
(* (SyncStateRepository behind /v1/sync/records and /v1/sync/changes), and *)
(* the account's devices that write records and follow the change feed.    *)
(*                                                                         *)
(* Every repository call is one transaction under the database lock.  A    *)
(* write carries the base_version and the content its client had when it   *)
(* was made; it may arrive late, again, or never, and its answer may be    *)
(* lost after the commit.  The content of a record is the set of changes   *)
(* that went into it.                                                      *)
(***************************************************************************)
EXTENDS Naturals, FiniteSets

CONSTANTS
  Records,      \* record ids
  Clients,      \* devices of the account
  Restarters,   \* devices that may start over with the snapshot
  Limits,       \* values of the query parameter limit; the largest size_t
                \* acts as 0, because limit + 1 rows are asked for
  Writes        \* the changes that clients make, numbered in that order

ASSUME SyncAssumption ==
  /\ IsFiniteSet(Records)
  /\ Limits \subseteq Nat
  /\ Restarters \subseteq Clients
  /\ Writes \subseteq Nat /\ IsFiniteSet(Writes)

VARIABLES
  version,    \* [Records -> Nat]: 0 when there is no row
  content,    \* [Records -> SUBSET Writes]: ciphertext, as the changes its
              \* writer had before it and its own
  row_id,     \* [Records -> Nat]: id INTEGER PRIMARY KEY AUTOINCREMENT
  deleted,    \* SUBSET Records: tombstones
  last_id,    \* the last id given out
  cursor,     \* [Clients -> Nat]: next_cursor of the last page; 0 is ""
  known,      \* [Clients -> [Records -> Nat]]: version of a client's copy
  held,       \* [Clients -> [Records -> SUBSET Writes]]: content of the copy
  sent,       \* [Writes -> request]: the requests made so far
  accepted    \* history, [Records -> SUBSET Writes]: writes that were committed

row_vars == <<version, content, row_id, deleted, last_id>>
copy_vars == <<known, held>>
vars == <<row_vars, cursor, copy_vars, sent, accepted>>

NoRequest == [op |-> "none"]

Init ==
  /\ version = [r \in Records |-> 0]
  /\ content = [r \in Records |-> {}]
  /\ row_id = [r \in Records |-> 0]
  /\ deleted = {}
  /\ last_id = 0
  /\ cursor = [c \in Clients |-> 0]
  /\ known = [c \in Clients |-> [r \in Records |-> 0]]
  /\ held = [c \in Clients |-> [r \in Records |-> {}]]
  /\ sent = [w \in Writes |-> NoRequest]
  /\ accepted = [r \in Records |-> {}]

----------------------------------------------------------------------------
(* Writes *)

\* A client changes its copy of r and sends it with the version of that copy.
\* It may do so again before it has an answer.
Prepare(c, r, op) ==
  /\ \E w \in Writes :
       /\ sent[w] = NoRequest
       /\ \A x \in Writes : x < w => sent[x] # NoRequest
       /\ sent' = [sent EXCEPT ![w] =
                     [op |-> op, by |-> c, rec |-> r,
                      base |-> known[c][r], seen |-> held[c][r]]]
  /\ UNCHANGED <<row_vars, cursor, copy_vars, accepted>>

\* The answer gives the client the version of what it has written, if it arrives.
Answer(c, r, v, changes) ==
  \/ /\ known' = [known EXCEPT ![c][r] = v]
     /\ held' = [held EXCEPT ![c][r] = changes]
  \/ UNCHANGED copy_vars

\* Write w replaces the content of r by its own.
Written(w, r, v) ==
  /\ version' = [version EXCEPT ![r] = v]
  /\ content' = [content EXCEPT ![r] = sent[w].seen \cup {w}]
  /\ accepted' = [accepted EXCEPT ![r] = @ \cup {w}]
  /\ Answer(sent[w].by, r, v, sent[w].seen \cup {w})
  /\ UNCHANGED <<cursor, sent>>

\* Mutant of UpdateRecord: base_version is not compared.
UpdateAnyVersion(w, r, base_version) ==
  /\ version[r] > 0
  /\ Written(w, r, version[r] + 1)
  /\ deleted' = deleted \ {r}
  /\ UNCHANGED <<row_id, last_id>>

\* UpsertRecord on a row that exists: the row keeps its id.
UpdateRecord(w, r, base_version) ==
  /\ version[r] > 0
  /\ version[r] = base_version
  /\ Written(w, r, version[r] + 1)
  /\ deleted' = deleted \ {r}
  /\ UNCHANGED <<row_id, last_id>>

\* UpsertRecord when there is no row.
InsertRecord(w, r, base_version) ==
  /\ version[r] = 0
  /\ base_version = 0
  /\ last_id' = last_id + 1
  /\ row_id' = [row_id EXCEPT ![r] = last_id + 1]
  /\ Written(w, r, 1)
  /\ deleted' = deleted \ {r}

\* Mutant of TombstoneRecord: a tombstone has version -1.
TombstoneNegative(w, r, base_version) ==
  /\ version[r] > 0
  /\ version[r] = base_version
  /\ Written(w, r, 0 - 1)
  /\ deleted' = deleted \cup {r}
  /\ UNCHANGED <<row_id, last_id>>

\* The row stays, with its id and the next version.
TombstoneRecord(w, r, base_version) ==
  /\ version[r] > 0
  /\ version[r] = base_version
  /\ Written(w, r, version[r] + 1)
  /\ deleted' = deleted \cup {r}
  /\ UNCHANGED <<row_id, last_id>>

\* PUT and DELETE /v1/sync/records/{collection}/{record_id}.  A request that is
\* refused (404, 409) changes nothing.
PutRecord(w) ==
  /\ sent[w].op = "put"
  /\ \/ UpdateRecord(w, sent[w].rec, sent[w].base)
     \/ InsertRecord(w, sent[w].rec, sent[w].base)

DeleteRecord(w) ==
  /\ sent[w].op = "delete"
  /\ TombstoneRecord(w, sent[w].rec, sent[w].base)

----------------------------------------------------------------------------
\* id > ? ORDER BY id ASC LIMIT ?
RowsAfter(after_id) == {r \in Records : version[r] > 0 /\ row_id[r] > after_id}

\* Mutant of IsPage: no ORDER BY.
IsPageUnordered(P, after_id, limit) ==
  /\ P \subseteq RowsAfter(after_id)
  /\ \/ P = RowsAfter(after_id) /\ Cardinality(P) <= limit
     \/ Cardinality(P) = limit

IsPage(P, after_id, limit) ==
  /\ P \subseteq RowsAfter(after_id)
  /\ \A r \in P : \A q \in RowsAfter(after_id) : row_id[q] < row_id[r] => q \in P
  /\ \/ P = RowsAfter(after_id) /\ Cardinality(P) <= limit
     \/ Cardinality(P) = limit

\* next_cursor: the id of the last row of the page, or the cursor given.
NextCursor(P, after_id, next) ==
  \/ P = {} /\ next = after_id
  \/ \E r \in P : next = row_id[r] /\ \A q \in P : row_id[q] <= row_id[r]

ListChangesAfterCursor(c, limit) ==
  /\ \E P \in SUBSET Records, next \in 0..last_id :
       /\ IsPage(P, cursor[c], limit)
       /\ NextCursor(P, cursor[c], next)
       /\ cursor' = [cursor EXCEPT ![c] = next]
       /\ known' = [known EXCEPT ![c] =
                      [r \in Records |-> IF r \in P THEN version[r] ELSE known[c][r]]]
       /\ held' = [held EXCEPT ![c] =
                     [r \in Records |-> IF r \in P THEN content[r] ELSE held[c][r]]]
  /\ UNCHANGED <<row_vars, sent, accepted>>

Poll(c) == \E limit \in Limits : ListChangesAfterCursor(c, limit)

\* A client starts over: it asks without cursor after a 409, or its cursor does
\* not parse and the empty page gives back the cursor "".
Restart(c) ==
  /\ c \in Restarters
  /\ cursor[c] # 0
  /\ cursor' = [cursor EXCEPT ![c] = 0]
  /\ UNCHANGED <<row_vars, copy_vars, sent, accepted>>

Next ==
  \/ \E c \in Clients :
       \/ \E r \in Records, op \in {"put", "delete"} : Prepare(c, r, op)
       \/ Poll(c)
       \/ Restart(c)
  \/ \E w \in Writes : PutRecord(w) \/ DeleteRecord(w)

Spec == Init /\ [][Next]_vars

\* Asking for at least one row: a page of none moves no cursor.
PollSome(c) == \E limit \in Limits \ {0} : ListChangesAfterCursor(c, limit)

\* Clients that go on asking for the next page.
FairSpec == Spec /\ \A c \in Clients : WF_vars(PollSome(c))

----------------------------------------------------------------------------
WriteRequests ==
  [op : {"put", "delete"}, by : Clients, rec : Records, base : Nat, seen : SUBSET Writes]

\* Types of the table, of the clients' copies and of the requests.
TypeOK ==
  /\ version \in [Records -> Nat]
  /\ content \in [Records -> SUBSET Writes]
  /\ row_id \in [Records -> Nat]
  /\ deleted \subseteq Records
  /\ last_id \in Nat
  /\ cursor \in [Clients -> Nat]
  /\ known \in [Clients -> [Records -> Nat]]
  /\ held \in [Clients -> [Records -> SUBSET Writes]]
  /\ sent \in [Writes -> WriteRequests \cup {NoRequest}]
  /\ accepted \in [Records -> SUBSET Writes]

\* Nobody's change is lost and none is applied twice.  Whatever UpsertRecord and
\* TombstoneRecord have committed is part of what the record says now, although
\* each write replaces the whole content by one made elsewhere, some time ago,
\* from a copy that may be old; and a request that arrives again, because its
\* answer was lost, adds no version.
NoLostUpdate ==
  \A r \in Records :
    /\ accepted[r] \subseteq content[r]
    /\ version[r] = Cardinality(accepted[r])

\* Pages never skip a row: whatever lies at or before a client's cursor has
\* been handed to it, although rows are inserted between two pages.
NothingSkipped ==
  \A c \in Clients, r \in Records :
    version[r] > 0 /\ row_id[r] <= cursor[c] => known[c][r] > 0

\* A client that goes on asking for pages of at least one row, and does not
\* start over, is handed every record, however many rows are inserted between
\* two pages.
RecordSeen ==
  \A c \in Clients \ Restarters, r \in Records :
    version[r] > 0 ~> known[c][r] > 0

\* What API.md says of the cursor: a client that goes on polling is handed
\* every change.
ChangesSeen ==
  \A c \in Clients, r \in Records, v \in 1..Cardinality(Writes) :
    version[r] >= v ~> known[c][r] >= v
=============================================================================
