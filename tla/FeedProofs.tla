----------------------------- MODULE FeedProofs -----------------------------
(***************************************************************************)
(* What clients read page after page.                                      *)
(*                                                                         *)
(* Sync records: optimistic concurrency and the change feed, for any       *)
(* number of records and devices, any page size and any number of writes.  *)
(* Envelopes: the pages of the three reads miss and repeat nothing, for    *)
(* any finite set of envelopes, any limits, any width of size_t and any    *)
(* retention.                                                              *)
(***************************************************************************)
EXTENDS SyncRecords, History, FiniteSetTheorems, TLAPS

\* The prover of every leaf that names none.
USE Zenon

Exists(r) == version[r] > 0

\* Ids are given out in order and never twice, and no cursor is ahead of them.
IdInv ==
  /\ \A r \in Records : row_id[r] <= last_id
  /\ \A q, r \in Records : Exists(q) /\ Exists(r) /\ row_id[q] = row_id[r] => q = r
  /\ \A c \in Clients : cursor[c] <= last_id

\* A copy is no newer than the record, and the same when it has its version.
CopyInv ==
  \A c \in Clients, r \in Records :
    /\ known[c][r] <= version[r]
    /\ known[c][r] = version[r] => held[c][r] = content[r]

\* So is what a request was made from, however long it has been under way.
\* Once it is committed the version has moved on for good.
SentInv ==
  \A w \in Writes :
    /\ sent[w] # NoRequest =>
         /\ sent[w].base <= version[sent[w].rec]
         /\ sent[w].base = version[sent[w].rec] => sent[w].seen = content[sent[w].rec]
    /\ \A r \in Records : w \in accepted[r] =>
         sent[w] # NoRequest /\ sent[w].rec = r /\ sent[w].base < version[r]

SyncInv == TypeOK /\ IdInv /\ CopyInv /\ SentInv /\ NothingSkipped /\ NoLostUpdate

(* A request that was made is one. *)
LEMMA SentType ==
  ASSUME TypeOK, NEW w \in Writes, sent[w] # NoRequest
  PROVE  /\ sent[w].by \in Clients /\ sent[w].rec \in Records
         /\ sent[w].base \in Nat /\ sent[w].seen \in SUBSET Writes
BY SMT DEF TypeOK, WriteRequests

\* A copy is as before or is the one that was written.
CopiesAfter(r, v, changes) ==
  /\ known' \in [Clients -> [Records -> Nat]]
  /\ held' \in [Clients -> [Records -> SUBSET Writes]]
  /\ \A b \in Clients, q \in Records :
       \/ known'[b][q] = known[b][q] /\ held'[b][q] = held[b][q]
       \/ q = r /\ known'[b][q] = v /\ held'[b][q] = changes

(* What the clients have after a write, answered or not. *)
LEMMA AnswerCases ==
  ASSUME TypeOK, NEW c \in Clients, NEW r \in Records, NEW v \in Nat,
         NEW changes \in SUBSET Writes, Answer(c, r, v, changes)
  PROVE  CopiesAfter(r, v, changes)
<1>1. known \in [Clients -> [Records -> Nat]] /\ held \in [Clients -> [Records -> SUBSET Writes]]
  BY DEF TypeOK
<1>2. CASE UNCHANGED copy_vars
  BY <1>1, <1>2 DEF copy_vars, CopiesAfter
<1>3. CASE /\ known' = [known EXCEPT ![c] = [known[c] EXCEPT ![r] = v]]
           /\ held' = [held EXCEPT ![c] = [held[c] EXCEPT ![r] = changes]]
  <2>1. known[c] \in [Records -> Nat] /\ held[c] \in [Records -> SUBSET Writes]
    BY <1>1
  <2>2. /\ [known[c] EXCEPT ![r] = v] \in [Records -> Nat]
        /\ [held[c] EXCEPT ![r] = changes] \in [Records -> SUBSET Writes]
    BY <2>1
  <2>3. /\ known' \in [Clients -> [Records -> Nat]]
        /\ held' \in [Clients -> [Records -> SUBSET Writes]]
    BY <1>1, <1>3, <2>2
  <2>4. \A b \in Clients : b # c => known'[b] = known[b] /\ held'[b] = held[b]
    BY <1>1, <1>3
  <2>5. /\ known'[c] = [known[c] EXCEPT ![r] = v]
        /\ held'[c] = [held[c] EXCEPT ![r] = changes]
    BY <1>1, <1>3
  <2>6. \A q \in Records :
          \/ known'[c][q] = known[c][q] /\ held'[c][q] = held[c][q]
          \/ q = r /\ known'[c][q] = v /\ held'[c][q] = changes
    BY <2>1, <2>5
  <2> QED BY <2>3, <2>4, <2>6 DEF CopiesAfter
<1> QED BY <1>2, <1>3 DEF Answer

(* A write on top of the current version was made from the current content: *)
(* it loses nothing, and it has not been committed before.                  *)
LEMMA WrittenKeeps ==
  ASSUME SyncInv, NEW w \in Writes, sent[w] # NoRequest, NEW r, r = sent[w].rec,
         sent[w].base = version[r], Written(w, r, version[r] + 1)
  PROVE  /\ r \in Records
         /\ version' \in [Records -> Nat] /\ content' \in [Records -> SUBSET Writes]
         /\ known' \in [Clients -> [Records -> Nat]]
         /\ held' \in [Clients -> [Records -> SUBSET Writes]]
         /\ accepted' \in [Records -> SUBSET Writes]
         /\ UNCHANGED <<cursor, sent>>
         /\ \A q \in Records : q # r => version'[q] = version[q]
         /\ version'[r] = version[r] + 1
         /\ \A c \in Clients, q \in Records : known'[c][q] >= known[c][q]
         /\ CopyInv' /\ SentInv' /\ NoLostUpdate'
<1> DEFINE changes == sent[w].seen \cup {w}
<1>1. /\ r \in Records /\ sent[w].by \in Clients /\ changes \in SUBSET Writes
      /\ version \in [Records -> Nat] /\ content \in [Records -> SUBSET Writes]
      /\ accepted \in [Records -> SUBSET Writes]
      /\ known \in [Clients -> [Records -> Nat]]
  BY SentType DEF SyncInv, TypeOK
<1>2. /\ version[r] \in Nat /\ version[r] + 1 \in Nat
      /\ version' = [version EXCEPT ![r] = version[r] + 1]
      /\ content' = [content EXCEPT ![r] = changes]
      /\ accepted' = [accepted EXCEPT ![r] = accepted[r] \cup {w}]
      /\ UNCHANGED <<cursor, sent>>
  BY <1>1, SMT DEF Written
<1>3. /\ version' \in [Records -> Nat] /\ content' \in [Records -> SUBSET Writes]
      /\ accepted' \in [Records -> SUBSET Writes]
      /\ version'[r] = version[r] + 1 /\ content'[r] = changes
      /\ accepted'[r] = accepted[r] \cup {w}
      /\ \A q \in Records : q # r => /\ version'[q] = version[q] /\ content'[q] = content[q]
                                     /\ accepted'[q] = accepted[q]
  BY <1>1, <1>2
<1>4. /\ known' \in [Clients -> [Records -> Nat]]
      /\ held' \in [Clients -> [Records -> SUBSET Writes]]
      /\ \A b \in Clients, q \in Records :
           \/ known'[b][q] = known[b][q] /\ held'[b][q] = held[b][q]
           \/ q = r /\ known'[b][q] = version[r] + 1 /\ held'[b][q] = changes
  <2>1. Answer(sent[w].by, r, version[r] + 1, changes)
    BY DEF Written
  <2>2. TypeOK
    BY DEF SyncInv
  <2> HIDE DEF changes
  <2>3. CopiesAfter(r, version[r] + 1, changes)
    BY <1>1, <1>2, <2>1, <2>2, AnswerCases
  <2> QED BY <2>3 DEF CopiesAfter
<1> HIDE DEF changes
<1>5. CopyInv'
  <2> SUFFICES ASSUME NEW c \in Clients, NEW q \in Records
               PROVE  /\ known'[c][q] <= version'[q]
                      /\ known'[c][q] = version'[q] => held'[c][q] = content'[q]
    BY DEF CopyInv
  <2>1. /\ known[c][q] <= version[q] /\ (known[c][q] = version[q] => held[c][q] = content[q])
        /\ known[c][q] \in Nat /\ version[q] \in Nat
    BY <1>1 DEF SyncInv, CopyInv
  <2>2. CASE q # r
    BY <1>3, <1>4, <2>1, <2>2
  <2>3. CASE q = r
    <3>1. version'[q] = version[q] + 1 /\ content'[q] = changes
      BY <1>3, <2>3
    <3>2. \/ known'[c][q] = known[c][q]
          \/ known'[c][q] = version[q] + 1 /\ held'[c][q] = changes
      BY <1>4, <2>3
    <3> QED BY <2>1, <3>1, <3>2, SMT
  <2> QED BY <2>2, <2>3
<1>6. ASSUME NEW c \in Clients, NEW q \in Records PROVE known'[c][q] >= known[c][q]
  <2>1. known[c][q] \in Nat /\ version[q] \in Nat /\ known[c][q] <= version[q]
    BY <1>1 DEF SyncInv, CopyInv
  <2>2. known'[c][q] = known[c][q] \/ known'[c][q] = version[q] + 1
    BY <1>4
  <2> QED BY <2>1, <2>2, SMT
<1>7. w \notin accepted[r]
  <2>1. w \in accepted[r] => sent[w].base < version[r]
    BY <1>1 DEF SyncInv, SentInv
  <2> QED BY <1>2, <2>1, SMT
<1>8. SentInv'
  <2> SUFFICES ASSUME NEW x \in Writes
               PROVE  /\ sent[x] # NoRequest =>
                           /\ sent[x].base <= version'[sent[x].rec]
                           /\ sent[x].base = version'[sent[x].rec]
                                => sent[x].seen = content'[sent[x].rec]
                      /\ \A q \in Records : x \in accepted'[q] =>
                           /\ sent[x] # NoRequest /\ sent[x].rec = q
                           /\ sent[x].base < version'[q]
    BY <1>2 DEF SentInv
  <2>1. ASSUME sent[x] # NoRequest
        PROVE  /\ sent[x].base <= version'[sent[x].rec]
               /\ sent[x].base = version'[sent[x].rec] => sent[x].seen = content'[sent[x].rec]
    <3>1. /\ sent[x].rec \in Records /\ sent[x].base \in Nat
          /\ sent[x].base <= version[sent[x].rec]
          /\ sent[x].base = version[sent[x].rec] => sent[x].seen = content[sent[x].rec]
      BY <2>1, SentType DEF SyncInv, SentInv
    <3>2. CASE sent[x].rec # r
      BY <1>3, <3>1, <3>2
    <3>3. CASE sent[x].rec = r
      BY <1>2, <1>3, <3>1, <3>3, SMT
    <3> QED BY <3>2, <3>3
  <2>2. ASSUME NEW q \in Records, x \in accepted'[q]
        PROVE  sent[x] # NoRequest /\ sent[x].rec = q /\ sent[x].base < version'[q]
    <3>1. CASE x \in accepted[q]
      <4>1. /\ sent[x] # NoRequest /\ sent[x].rec = q /\ sent[x].base < version[q]
            /\ sent[x].base \in Nat /\ version[q] \in Nat
        BY <1>1, <3>1, SentType DEF SyncInv, SentInv
      <4>2. version'[q] = version[q] \/ version'[q] = version[q] + 1
        BY <1>3
      <4>3. sent[x].base < version'[q]
        BY <4>1, <4>2, SMT
      <4> QED BY <4>1, <4>3
    <3>2. CASE x \notin accepted[q]
      <4>1. q = r /\ x = w
        BY <1>3, <2>2, <3>2
      <4>2. version[r] < version'[r]
        BY <1>2, <1>3, SMT
      <4> QED BY <4>1, <4>2
    <3> QED BY <3>1, <3>2
  <2> QED BY <2>1, <2>2
<1>9. NoLostUpdate'
  <2> SUFFICES ASSUME NEW q \in Records
               PROVE  accepted'[q] \subseteq content'[q] /\ version'[q] = Cardinality(accepted'[q])
    BY DEF NoLostUpdate
  <2>1. accepted[q] \subseteq content[q] /\ version[q] = Cardinality(accepted[q])
    BY DEF SyncInv, NoLostUpdate
  <2>2. CASE q # r
    BY <1>3, <2>1, <2>2
  <2>3. CASE q = r
    <3>1. sent[w].seen = content[r]
      BY DEF SyncInv, SentInv
    <3>2. accepted'[r] \subseteq content'[r]
      BY <1>3, <2>1, <2>3, <3>1 DEF changes
    <3>3. IsFiniteSet(accepted[r])
      BY <1>1, SyncAssumption, FS_Subset
    <3>4. Cardinality(accepted[r] \cup {w}) = Cardinality(accepted[r]) + 1
      BY <1>7, <3>3, FS_AddElement
    <3> QED BY <1>3, <2>1, <2>3, <3>2, <3>4
  <2> QED BY <2>2, <2>3
<1> QED BY <1>1, <1>2, <1>3, <1>4, <1>5, <1>6, <1>8, <1>9

(* A write that replaces a version: UpdateRecord and TombstoneRecord. *)
LEMMA ReplaceKeeps ==
  ASSUME SyncInv, NEW w \in Writes, sent[w] # NoRequest,
         \/ UpdateRecord(w, sent[w].rec, sent[w].base)
         \/ TombstoneRecord(w, sent[w].rec, sent[w].base)
  PROVE  SyncInv'
<1> DEFINE r == sent[w].rec
<1>1. /\ version[r] > 0 /\ sent[w].base = version[r] /\ Written(w, r, version[r] + 1)
      /\ UNCHANGED <<row_id, last_id>>
      /\ deleted' = deleted \ {r} \/ deleted' = deleted \cup {r}
  BY DEF UpdateRecord, TombstoneRecord
<1> HIDE DEF r
<1>2. /\ r \in Records
      /\ version' \in [Records -> Nat] /\ content' \in [Records -> SUBSET Writes]
      /\ known' \in [Clients -> [Records -> Nat]]
      /\ held' \in [Clients -> [Records -> SUBSET Writes]]
      /\ accepted' \in [Records -> SUBSET Writes]
      /\ UNCHANGED <<cursor, sent>>
      /\ \A q \in Records : q # r => version'[q] = version[q]
      /\ \A c \in Clients, q \in Records : known'[c][q] >= known[c][q]
      /\ CopyInv' /\ SentInv' /\ NoLostUpdate'
  <2>1. r = sent[w].rec
    BY DEF r
  <2> QED BY <1>1, <2>1, WrittenKeeps
<1>3. TypeOK'
  <2>1. deleted' \subseteq Records
    BY <1>1, <1>2 DEF SyncInv, TypeOK
  <2> QED BY <1>1, <1>2, <2>1 DEF SyncInv, TypeOK, WriteRequests
<1>4. \A q \in Records : version'[q] > 0 => version[q] > 0
  BY <1>1, <1>2
<1>5. IdInv'
  BY <1>1, <1>2, <1>4 DEF SyncInv, IdInv, Exists
<1>6. NothingSkipped'
  <2> SUFFICES ASSUME NEW c \in Clients, NEW q \in Records,
                      version'[q] > 0, row_id'[q] <= cursor'[c]
               PROVE  known'[c][q] > 0
    BY DEF NothingSkipped
  <2>1. known[c][q] > 0
    BY <1>1, <1>2, <1>4 DEF SyncInv, NothingSkipped
  <2>2. known[c][q] \in Nat /\ known'[c][q] \in Nat /\ known'[c][q] >= known[c][q]
    BY <1>2 DEF SyncInv, TypeOK
  <2> QED BY <2>1, <2>2, SMT
<1> QED BY <1>2, <1>3, <1>5, <1>6 DEF SyncInv

(* A new row: its id is past every cursor. *)
LEMMA InsertKeeps ==
  ASSUME SyncInv, NEW w \in Writes, sent[w] # NoRequest,
         InsertRecord(w, sent[w].rec, sent[w].base)
  PROVE  SyncInv'
<1> DEFINE r == sent[w].rec
<1>1. /\ version[r] = 0 /\ sent[w].base = version[r] /\ Written(w, r, version[r] + 1)
      /\ last_id' = last_id + 1
      /\ row_id' = [row_id EXCEPT ![r] = last_id + 1]
      /\ deleted' = deleted \ {r}
  BY SMT DEF InsertRecord
<1> HIDE DEF r
<1>2. /\ r \in Records
      /\ version' \in [Records -> Nat] /\ content' \in [Records -> SUBSET Writes]
      /\ known' \in [Clients -> [Records -> Nat]]
      /\ held' \in [Clients -> [Records -> SUBSET Writes]]
      /\ accepted' \in [Records -> SUBSET Writes]
      /\ UNCHANGED <<cursor, sent>>
      /\ \A q \in Records : q # r => version'[q] = version[q]
      /\ \A c \in Clients, q \in Records : known'[c][q] >= known[c][q]
      /\ CopyInv' /\ SentInv' /\ NoLostUpdate'
  <2>1. r = sent[w].rec
    BY DEF r
  <2> QED BY <1>1, <2>1, WrittenKeeps
<1>3. /\ row_id \in [Records -> Nat] /\ last_id \in Nat /\ cursor \in [Clients -> Nat]
      /\ known \in [Clients -> [Records -> Nat]]
  BY DEF SyncInv, TypeOK
<1>4. last_id + 1 \in Nat /\ row_id' \in [Records -> Nat]
  <2>1. last_id + 1 \in Nat
    BY <1>3, SMT
  <2> QED BY <1>1, <1>3, <2>1
<1>5. TypeOK'
  <2>1. deleted' \subseteq Records
    BY <1>1 DEF SyncInv, TypeOK
  <2> QED BY <1>1, <1>2, <1>3, <1>4, <2>1 DEF SyncInv, TypeOK, WriteRequests
<1>6. row_id'[r] = last_id + 1 /\ \A q \in Records : q # r => row_id'[q] = row_id[q]
  BY <1>1, <1>2, <1>3
<1>7. IdInv'
  BY <1>1, <1>2, <1>3, <1>6, SMT DEF SyncInv, IdInv, Exists
<1>8. NothingSkipped'
  <2> SUFFICES ASSUME NEW c \in Clients, NEW q \in Records,
                      version'[q] > 0, row_id'[q] <= cursor'[c]
               PROVE  known'[c][q] > 0
    BY DEF NothingSkipped
  <2>1. cursor'[c] = cursor[c] /\ cursor[c] \in Nat /\ cursor[c] <= last_id
    BY <1>2, <1>3 DEF SyncInv, IdInv
  <2>2. q # r
    BY <1>3, <1>6, <2>1, SMT
  <2>3. known[c][q] > 0
    BY <1>2, <1>6, <2>1, <2>2 DEF SyncInv, NothingSkipped
  <2>4. known[c][q] \in Nat /\ known'[c][q] \in Nat /\ known'[c][q] >= known[c][q]
    BY <1>2, <1>3
  <2> QED BY <2>3, <2>4, SMT
<1> QED BY <1>2, <1>5, <1>7, <1>8 DEF SyncInv

(* A request carries the version and the content of one copy. *)
LEMMA PrepareKeeps ==
  ASSUME SyncInv, NEW c \in Clients, NEW r \in Records, NEW op \in {"put", "delete"},
         Prepare(c, r, op)
  PROVE  SyncInv'
<1> DEFINE new == [op |-> op, by |-> c, rec |-> r, base |-> known[c][r], seen |-> held[c][r]]
<1>1. PICK w \in Writes : sent[w] = NoRequest /\ sent' = [sent EXCEPT ![w] = new]
  BY DEF Prepare
<1>2. UNCHANGED <<version, content, row_id, deleted, last_id, cursor, known, held, accepted>>
  BY DEF Prepare, row_vars, copy_vars
<1>3. new \in WriteRequests
  BY SMT DEF SyncInv, TypeOK, WriteRequests
<1>4. new.rec = r /\ new.base = known[c][r] /\ new.seen = held[c][r]
  OBVIOUS
<1> HIDE DEF new
<1>5. TypeOK'
  BY <1>1, <1>2, <1>3 DEF SyncInv, TypeOK, WriteRequests
<1>6. sent'[w] = new /\ \A x \in Writes : x # w => sent'[x] = sent[x]
  BY <1>1 DEF SyncInv, TypeOK
<1>7. SentInv'
  <2> SUFFICES ASSUME NEW x \in Writes
               PROVE  /\ sent'[x] # NoRequest =>
                           /\ sent'[x].base <= version[sent'[x].rec]
                           /\ sent'[x].base = version[sent'[x].rec]
                                => sent'[x].seen = content[sent'[x].rec]
                      /\ \A q \in Records : x \in accepted[q] =>
                           /\ sent'[x] # NoRequest /\ sent'[x].rec = q
                           /\ sent'[x].base < version[q]
    BY <1>2 DEF SentInv
  <2>1. CASE x = w
    <3>1. \A q \in Records : w \notin accepted[q]
      BY <1>1 DEF SyncInv, SentInv
    <3>2. known[c][r] <= version[r] /\ (known[c][r] = version[r] => held[c][r] = content[r])
      BY DEF SyncInv, CopyInv
    <3> QED BY <1>4, <1>6, <2>1, <3>1, <3>2
  <2>2. CASE x # w
    BY <1>6, <2>2 DEF SyncInv, SentInv
  <2> QED BY <2>1, <2>2
<1>8. IdInv' /\ CopyInv' /\ NothingSkipped' /\ NoLostUpdate'
  BY <1>2 DEF SyncInv, IdInv, Exists, CopyInv, NothingSkipped, NoLostUpdate
<1> QED BY <1>5, <1>7, <1>8 DEF SyncInv

(* A page takes the rows in the order of their ids, so the cursor passes no *)
(* row that the page does not hold.                                         *)
LEMMA PageKeeps ==
  ASSUME SyncInv, NEW c \in Clients, NEW n \in Limits, ListChangesAfterCursor(c, n)
  PROVE  SyncInv'
<1>1. PICK P \in SUBSET Records, next \in 0..last_id :
        /\ IsPage(P, cursor[c], n)
        /\ NextCursor(P, cursor[c], next)
        /\ cursor' = [cursor EXCEPT ![c] = next]
        /\ known' = [known EXCEPT ![c] =
                       [r \in Records |-> IF r \in P THEN version[r] ELSE known[c][r]]]
        /\ held' = [held EXCEPT ![c] =
                      [r \in Records |-> IF r \in P THEN content[r] ELSE held[c][r]]]
  BY DEF ListChangesAfterCursor
<1>2. UNCHANGED <<version, content, row_id, deleted, last_id, sent, accepted>>
  BY DEF ListChangesAfterCursor, row_vars
<1>3. /\ version \in [Records -> Nat] /\ row_id \in [Records -> Nat]
      /\ last_id \in Nat /\ cursor \in [Clients -> Nat]
      /\ known \in [Clients -> [Records -> Nat]]
      /\ content \in [Records -> SUBSET Writes]
      /\ held \in [Clients -> [Records -> SUBSET Writes]]
  BY DEF SyncInv, TypeOK
<1>4. /\ \A r \in Records : /\ known'[c][r] = IF r \in P THEN version[r] ELSE known[c][r]
                            /\ held'[c][r] = IF r \in P THEN content[r] ELSE held[c][r]
      /\ \A b \in Clients \ {c} : known'[b] = known[b] /\ held'[b] = held[b]
                                  /\ cursor'[b] = cursor[b]
      /\ cursor'[c] = next
  BY <1>1, <1>3
<1>5. TypeOK'
  <2>1. [r \in Records |-> IF r \in P THEN version[r] ELSE known[c][r]] \in [Records -> Nat]
    BY <1>3, SMT
  <2>2. known' \in [Clients -> [Records -> Nat]] /\ cursor' \in [Clients -> Nat]
    BY <1>1, <1>3, <2>1, SMT
  <2>3. [r \in Records |-> IF r \in P THEN content[r] ELSE held[c][r]]
          \in [Records -> SUBSET Writes]
    BY <1>3, SMT
  <2>4. held' \in [Clients -> [Records -> SUBSET Writes]]
    BY <1>1, <1>3, <2>3
  <2> QED BY <1>2, <2>2, <2>4 DEF SyncInv, TypeOK, WriteRequests
<1>6. IdInv'
  BY <1>2, <1>3, <1>4, SMT DEF SyncInv, IdInv, Exists
<1>7. CopyInv'
  BY <1>2, <1>3, <1>4, SMT DEF SyncInv, CopyInv
<1>8. ASSUME NEW r \in Records, Exists(r), row_id[r] <= next, r \notin P
      PROVE  row_id[r] <= cursor[c]
  <2>1. CASE P = {}
    BY <1>1, <1>8, <2>1 DEF NextCursor
  <2>2. CASE P # {}
    <3>1. PICK q \in P : next = row_id[q]
      BY <1>1, <2>2 DEF NextCursor
    <3>2. Exists(q) /\ q \in Records
      BY <1>1 DEF IsPage, RowsAfter, Exists
    <3>3. row_id[r] # row_id[q]
      BY <1>8, <3>1, <3>2 DEF SyncInv, IdInv
    <3>4. r \notin RowsAfter(cursor[c])
      <4>1. row_id[r] \in Nat /\ row_id[q] \in Nat /\ row_id[r] <= row_id[q]
        BY <1>3, <1>8, <3>1, <3>2
      <4>2. row_id[r] < row_id[q]
        BY <4>1, <3>3, SMT
      <4>3. r \in RowsAfter(cursor[c]) => r \in P
        BY <1>1, <4>2 DEF IsPage
      <4> QED BY <1>8, <4>3
    <3> QED BY <1>3, <1>8, <3>4, SMT DEF RowsAfter, Exists
  <2> QED BY <2>1, <2>2
<1>9. NothingSkipped'
  <2>1. ASSUME NEW b \in Clients, NEW r \in Records, version[r] > 0, row_id[r] <= cursor'[b]
        PROVE  known'[b][r] > 0
    <3>1. CASE b # c
      BY <1>4, <2>1, <3>1 DEF SyncInv, NothingSkipped
    <3>2. CASE b = c /\ r \in P
      BY <1>4, <2>1, <3>2
    <3>3. CASE b = c /\ r \notin P
      BY <1>4, <1>8, <2>1, <3>3 DEF SyncInv, NothingSkipped, Exists
    <3> QED BY <3>1, <3>2, <3>3
  <2> QED BY <1>2, <2>1 DEF NothingSkipped
<1>10. SentInv' /\ NoLostUpdate'
  BY <1>2 DEF SyncInv, SentInv, NoLostUpdate
<1> QED BY <1>5, <1>6, <1>7, <1>9, <1>10 DEF SyncInv

(* SyncInv holds in every reachable state. *)
THEOREM SyncInvariant == Spec => []SyncInv
<1>1. Init => SyncInv
  <2> SUFFICES ASSUME Init PROVE SyncInv
    OBVIOUS
  <2>1. \A c \in Clients, r \in Records :
          /\ version[r] = 0 /\ row_id[r] = 0 /\ cursor[c] = 0 /\ known[c][r] = 0
          /\ held[c][r] = {} /\ content[r] = {}
    BY DEF Init
  <2>2. TypeOK
    <3>1. held \in [Clients -> [Records -> SUBSET Writes]]
      BY DEF Init
    <3>2. known \in [Clients -> [Records -> Nat]]
      BY DEF Init
    <3>3. version \in [Records -> Nat] /\ content \in [Records -> SUBSET Writes]
      BY DEF Init
    <3>4. row_id \in [Records -> Nat] /\ cursor \in [Clients -> Nat]
      BY DEF Init
    <3>5. sent \in [Writes -> WriteRequests \cup {NoRequest}]
      BY DEF Init
    <3> QED BY <3>1, <3>2, <3>3, <3>4, <3>5 DEF Init, TypeOK
  <2>3. IdInv
    BY SMT DEF Init, IdInv, Exists
  <2>4. CopyInv /\ NothingSkipped
    <3>1. CopyInv
      <4> SUFFICES ASSUME NEW c \in Clients, NEW r \in Records
                   PROVE  /\ known[c][r] <= version[r]
                          /\ known[c][r] = version[r] => held[c][r] = content[r]
        BY DEF CopyInv
      <4>1. known[c][r] = 0 /\ version[r] = 0 /\ held[c][r] = content[r]
        BY <2>1
      <4> QED BY <4>1, SMT
    <3>2. NothingSkipped
      <4> SUFFICES ASSUME NEW c \in Clients, NEW r \in Records, version[r] > 0
                   PROVE  known[c][r] > 0
        BY DEF NothingSkipped
      <4>1. version[r] = 0
        BY <2>1
      <4> QED BY <4>1, SMT
    <3> QED BY <3>1, <3>2
  <2>5. SentInv
    BY DEF Init, SentInv
  <2>6. NoLostUpdate
    BY FS_EmptySet DEF Init, NoLostUpdate
  <2> QED BY <2>2, <2>3, <2>4, <2>5, <2>6 DEF SyncInv
<1>2. ASSUME SyncInv, NEW c \in Clients, Restart(c) PROVE SyncInv'
  <2>1. /\ cursor' = [cursor EXCEPT ![c] = 0]
        /\ UNCHANGED <<version, content, row_id, deleted, last_id, known, held, sent, accepted>>
    BY <1>2 DEF Restart, row_vars, copy_vars
  <2>2. TypeOK'
    BY <1>2, <2>1 DEF SyncInv, TypeOK, WriteRequests
  <2>3. \A b \in Clients : cursor'[b] <= cursor[b] /\ cursor'[b] \in Nat
    BY <1>2, <2>1, SMT DEF SyncInv, TypeOK
  <2>4. IdInv' /\ NothingSkipped'
    BY <1>2, <2>1, <2>3, SMT DEF SyncInv, TypeOK, IdInv, Exists, NothingSkipped
  <2>5. CopyInv' /\ SentInv' /\ NoLostUpdate'
    BY <1>2, <2>1 DEF SyncInv, CopyInv, SentInv, NoLostUpdate
  <2> QED BY <2>2, <2>4, <2>5 DEF SyncInv
<1>3. ASSUME SyncInv, UNCHANGED vars PROVE SyncInv'
  <2>1. UNCHANGED <<version, content, row_id, deleted, last_id, cursor, known, held, sent,
                    accepted>>
    BY <1>3 DEF vars, row_vars, copy_vars
  <2>2. TypeOK'
    BY <1>3, <2>1 DEF SyncInv, TypeOK, WriteRequests
  <2>3. IdInv' /\ NothingSkipped' /\ CopyInv'
    BY <1>3, <2>1 DEF SyncInv, IdInv, Exists, NothingSkipped, CopyInv
  <2>4. SentInv' /\ NoLostUpdate'
    BY <1>3, <2>1 DEF SyncInv, SentInv, NoLostUpdate
  <2> QED BY <2>2, <2>3, <2>4 DEF SyncInv
<1>4. ASSUME SyncInv, NEW w \in Writes, PutRecord(w) \/ DeleteRecord(w) PROVE SyncInv'
  <2>1. sent[w] # NoRequest
    BY <1>4, SMT DEF PutRecord, DeleteRecord, NoRequest
  <2> QED BY <1>4, <2>1, ReplaceKeeps, InsertKeeps DEF PutRecord, DeleteRecord
<1>5. SyncInv /\ [Next]_vars => SyncInv'
  BY <1>2, <1>3, <1>4, PrepareKeeps, PageKeeps DEF Next, Poll
<1> QED BY <1>1, <1>5, PTL DEF Spec

(* UpsertRecord and TombstoneRecord lose no committed change and apply none *)
(* twice, whatever the clients send from which copy and how often.          *)
THEOREM UpdatesStay == Spec => []NoLostUpdate
BY SyncInvariant, PTL DEF SyncInv

(* ListChangesAfterCursor skips no record, whatever is inserted between two *)
(* pages and whatever the page sizes.                                       *)
THEOREM FeedSkipsNothing == Spec => []NothingSkipped
BY SyncInvariant, PTL DEF SyncInv

----------------------------------------------------------------------------
(* The pages of envelopes.                                                 *)

\* A row is stored once and listed once; what the client was given or owed was
\* listed then, so whatever leaves the list does not come back.
ListedInv ==
  /\ stage \in [Envelopes -> {"new", "stamped", "stored", "done"}]
  /\ \A e \in Envelopes : server_timestamp[e] <= MaxClock
  /\ \A e \in encrypted_envelopes : stage[e] \in {"stored", "done"}
  /\ \A e \in Envelopes : <<e, Reader>> \in delivery_state => stage[e] = "done"
  /\ handed \subseteq owed
  /\ \A e \in owed : stage[e] = "done" \/ (stage[e] = "stored" /\ route # "pending")

\* Nothing the client was given lies ahead of where it goes on, and after a page
\* that was refused or asked for with the largest limit it begins again.
CursorInv ==
  /\ next_cursor = <<>> \/ next_cursor \in Nat \X Nat
  /\ route = "since" => next_cursor = <<>>
  /\ limit = SizeMod - 1 \/ refused => next_cursor = <<>>
  /\ next_cursor # <<>> => \A e \in handed \cap Listed : ~ Ahead(e)
  /\ route = "since" => \A e \in handed \cap Listed : server_timestamp[e] <= since

PagesInv == HistoryTypeOK /\ ListedInv /\ CursorInv /\ PagesComplete

(* A finite set has an element that nothing in it precedes.                 *)
LEMMA MinimalExists ==
  ASSUME NEW P, IsFiniteSet(P), P # {}, NEW R, \A x \in P : <<x, x>> \notin R,
         \A x, y, z \in P : <<x, y>> \in R /\ <<y, z>> \in R => <<x, z>> \in R
  PROVE  \E x \in P : \A y \in P : <<y, x>> \notin R
<1> DEFINE Below(x) == {y \in P : <<y, x>> \in R}
           T == {Below(x) : x \in P}
<1>1. T \in SUBSET (SUBSET P)
  OBVIOUS
<1>2. T # {}
  <2>1. PICK x \in P : TRUE
    OBVIOUS
  <2>2. Below(x) \in T
    OBVIOUS
  <2> HIDE DEF T
  <2> QED BY <2>2
<1>3. SUBSET P = FiniteSubsetsOf(P)
  BY FS_FiniteSubsetsOfFinite
<1>4. PICK b \in T : \A c \in T : <<c, b>> \notin StrictSubsetOrdering(P)
  <2>1. T \subseteq FiniteSubsetsOf(P)
    BY <1>1, <1>3
  <2>2. IsWellFoundedOn(StrictSubsetOrdering(P), FiniteSubsetsOf(P))
    BY FS_StrictSubsetOrderingWellFounded
  <2> HIDE DEF T
  <2> QED BY <1>2, <2>1, <2>2, WFMin
<1>5. PICK x \in P : b = Below(x)
  OBVIOUS
<1>6. ASSUME NEW y \in P, <<y, x>> \in R PROVE FALSE
  <2>1. Below(y) \subseteq b /\ Below(y) # b
    BY <1>5, <1>6
  <2>2. Below(y) \in SUBSET P /\ b \in SUBSET P
    BY <1>5
  <2>3. Below(y) \in T
    OBVIOUS
  <2> HIDE DEF Below, T
  <2>4. <<Below(y), b>> \in StrictSubsetOrdering(P)
    BY <2>1, <2>2, SMT DEF StrictSubsetOrdering
  <2> QED BY <1>4, <2>3, <2>4
<1> QED BY <1>6

(* ORDER BY server_timestamp, envelope_id is a strict order of cursors.     *)
LEMMA CursorOrder ==
  ASSUME NEW k \in Nat \X Nat, NEW l \in Nat \X Nat, NEW m \in Nat \X Nat
  PROVE  /\ ~ Precedes(k, k)
         /\ Precedes(k, l) /\ Precedes(l, m) => Precedes(k, m)
         /\ k = l \/ Precedes(k, l) \/ Precedes(l, k)
<1>1. k[1] \in Nat /\ k[2] \in Nat /\ l[1] \in Nat /\ l[2] \in Nat /\ m[1] \in Nat /\ m[2] \in Nat
  OBVIOUS
<1>2. k[1] = l[1] /\ k[2] = l[2] => k = l
  BY SMT
<1> QED BY <1>1, <1>2, SMT DEF Precedes

(* It tells any two rows apart.                                             *)
LEMMA KeyOrder ==
  ASSUME HistoryTypeOK, NEW e \in Envelopes, NEW f \in Envelopes
  PROVE  /\ Key(e) \in Nat \X Nat
         /\ e # f => Precedes(Key(e), Key(f)) \/ Precedes(Key(f), Key(e))
<1>1. server_timestamp[e] \in Nat /\ server_timestamp[f] \in Nat /\ e \in Nat /\ f \in Nat
  BY PagesAssumption DEF HistoryTypeOK, EnvelopeTypeOK
<1> QED BY <1>1, SMT DEF Key, Precedes

(* The last row of a page.                                                  *)
LEMMA LastIs ==
  ASSUME HistoryTypeOK, NEW P \in SUBSET Envelopes, P # {}
  PROVE  Last(P) \in P /\ \A f \in P \ {Last(P)} : Precedes(Key(f), Key(Last(P)))
<1> DEFINE R == {ee \in P \X P : Precedes(Key(ee[2]), Key(ee[1]))}
<1>1. IsFiniteSet(P)
  BY PagesAssumption, FS_Subset
<1>2. \A e \in P : Key(e) \in Nat \X Nat
  BY KeyOrder
<1>3. \A e, f \in P : <<e, f>> \in R <=> Precedes(Key(f), Key(e))
  OBVIOUS
<1>4. /\ \A x \in P : <<x, x>> \notin R
      /\ \A x, y, z \in P : <<x, y>> \in R /\ <<y, z>> \in R => <<x, z>> \in R
  BY <1>2, <1>3, CursorOrder
<1>5. \E e \in P : \A f \in P : ~ Precedes(Key(e), Key(f))
  <2> HIDE DEF R
  <2> QED BY <1>1, <1>3, <1>4, MinimalExists
<1>6. Last(P) \in P /\ \A f \in P : ~ Precedes(Key(Last(P)), Key(f))
  BY <1>5 DEF Last
<1> QED BY <1>6, KeyOrder

(* LIMIT m keeps the first rows, and all of them when fewer than m come.    *)
LEMMA RowsShape ==
  ASSUME HistoryTypeOK, NEW S \in SUBSET Envelopes, NEW m \in Nat
  PROVE  /\ Rows(S, m) \subseteq S
         /\ \A e \in Rows(S, m), f \in S : Precedes(Key(f), Key(e)) => f \in Rows(S, m)
         /\ m = 0 => Rows(S, m) = {}
         /\ m >= SizeMod \div 2 \/ Cardinality(Rows(S, m)) < m => Rows(S, m) = S
<1> DEFINE Earlier(e) == {f \in S : Precedes(Key(f), Key(e))}
<1>1. IsFiniteSet(S) /\ \A e \in S : Key(e) \in Nat \X Nat
  BY PagesAssumption, FS_Subset, KeyOrder
<1>2. \A e \in S : IsFiniteSet(Earlier(e)) /\ Cardinality(Earlier(e)) \in Nat
  BY <1>1, FS_Subset, FS_CardinalityType
<1>3. SizeMod \div 2 \in Nat /\ SizeMod \div 2 >= 1
  BY PagesAssumption, SMT
<1>4. Rows(S, m) = {e \in S : m >= SizeMod \div 2 \/ Cardinality(Earlier(e)) < m}
  BY DEF Rows, WithinLimit
<1>5. ASSUME NEW e \in Rows(S, m), NEW f \in S, Precedes(Key(f), Key(e)) PROVE f \in Rows(S, m)
  <2>1. e \in S
    BY <1>4
  <2>2. Earlier(f) \subseteq Earlier(e)
    BY <1>1, <1>5, <2>1, CursorOrder
  <2>3. Cardinality(Earlier(f)) <= Cardinality(Earlier(e))
    BY <1>2, <2>1, <2>2, FS_Subset
  <2> HIDE DEF Earlier
  <2>4. Cardinality(Earlier(e)) < m => Cardinality(Earlier(f)) < m
    BY <1>2, <2>1, <2>3, SMT
  <2> QED BY <1>4, <1>5, <2>4
<1>6. ASSUME m = 0 PROVE Rows(S, m) = {}
  <2> HIDE DEF Earlier
  <2>1. ~ (m >= SizeMod \div 2)
    BY <1>3, <1>6, SMT
  <2>2. \A e \in S : ~ (Cardinality(Earlier(e)) < m)
    BY <1>2, <1>6, SMT
  <2> QED BY <1>4, <2>1, <2>2
<1>7. ASSUME Cardinality(Rows(S, m)) < m, Rows(S, m) # S PROVE FALSE
  <2> DEFINE P == S \ Rows(S, m)
             R == {ee \in P \X P : Precedes(Key(ee[1]), Key(ee[2]))}
  <2>1. IsFiniteSet(P) /\ P # {}
    BY <1>1, <1>4, <1>7, FS_Subset
  <2>2. \A e, f \in P : <<e, f>> \in R <=> Precedes(Key(e), Key(f))
    OBVIOUS
  <2>3. /\ \A x \in P : <<x, x>> \notin R
        /\ \A x, y, z \in P : <<x, y>> \in R /\ <<y, z>> \in R => <<x, z>> \in R
    BY <1>1, <2>2, CursorOrder
  <2>4. PICK e \in P : \A f \in P : ~ Precedes(Key(f), Key(e))
    <3> HIDE DEF P, R
    <3> QED BY <2>1, <2>2, <2>3, MinimalExists
  <2>5. Earlier(e) \subseteq Rows(S, m)
    BY <2>4
  <2>6. IsFiniteSet(Rows(S, m))
    BY <1>1, <1>4, FS_Subset
  <2>7. Cardinality(Earlier(e)) <= Cardinality(Rows(S, m)) /\ Cardinality(Rows(S, m)) \in Nat
    BY <2>5, <2>6, FS_Subset, FS_CardinalityType
  <2> HIDE DEF Earlier
  <2>8. Cardinality(Earlier(e)) < m
    BY <1>2, <1>7, <2>7, SMT
  <2> QED BY <1>4, <2>8
<1> QED BY <1>4, <1>5, <1>6, <1>7

\* The row that was asked for in addition is not handed out.
PageOf(rows, n) == IF Cardinality(rows) > n THEN rows \ {Last(rows)} ELSE rows

\* The first of the rows S, all of them when there are no more, and none when
\* limit + 1 wraps.
CutOf(page, S, n, more) ==
  /\ page \subseteq S
  /\ \A e \in page, f \in S : Precedes(Key(f), Key(e)) => f \in page
  /\ n # SizeMod - 1 /\ ~ more => page = S
  /\ n = SizeMod - 1 => page = {}

(* The page of GetPendingForDeviceCursored and ListForConversationCursored. *)
LEMMA PageShape ==
  ASSUME HistoryTypeOK, NEW S \in SUBSET Envelopes, NEW n \in 0..(SizeMod - 1)
  PROVE  CutOf(PageOf(Rows(S, (n + 1) % SizeMod), n), S, n,
               Cardinality(Rows(S, (n + 1) % SizeMod)) > n)
<1> DEFINE rows == Rows(S, (n + 1) % SizeMod)
           page == PageOf(rows, n)
           m == (n + 1) % SizeMod
<1>1. SizeMod \in Nat /\ SizeMod >= 2 /\ n \in Nat /\ n <= SizeMod - 1
  BY PagesAssumption, SMT
<1>2. /\ n = SizeMod - 1 => m = 0
      /\ n # SizeMod - 1 => m = n + 1
      /\ m \in Nat
  BY <1>1, SMT
<1> HIDE DEF m
<1>3. /\ rows \subseteq S
      /\ \A e \in rows, f \in S : Precedes(Key(f), Key(e)) => f \in rows
      /\ m = 0 => rows = {}
      /\ Cardinality(rows) < m => rows = S
  BY <1>2, RowsShape DEF m
<1> HIDE DEF rows
<1>4. \A e \in rows, f \in S : Precedes(Key(f), Key(e)) /\ e # Last(rows) => f # Last(rows)
  <2> SUFFICES ASSUME NEW e \in rows, e # Last(rows), Precedes(Key(Last(rows)), Key(e)) PROVE FALSE
    OBVIOUS
  <2>1. Precedes(Key(e), Key(Last(rows))) /\ Last(rows) \in rows
    BY <1>3, LastIs
  <2>2. Key(e) \in Nat \X Nat /\ Key(Last(rows)) \in Nat \X Nat
    BY <1>3, <2>1, KeyOrder
  <2> QED BY <2>1, <2>2, CursorOrder
<1>5. \A e \in page, f \in S : Precedes(Key(f), Key(e)) => f \in page
  BY <1>3, <1>4 DEF PageOf
<1>6. ASSUME n # SizeMod - 1, ~ (Cardinality(rows) > n) PROVE page = S
  <2>1. Cardinality(rows) \in Nat
    BY <1>3, PagesAssumption, FS_Subset, FS_CardinalityType
  <2>2. Cardinality(rows) < m
    BY <1>1, <1>2, <1>6, <2>1, SMT
  <2> QED BY <1>3, <1>6, <2>2 DEF PageOf
<1>7. page \subseteq S /\ (n = SizeMod - 1 => page = {})
  BY <1>2, <1>3 DEF PageOf
<1>8. CutOf(page, S, n, Cardinality(rows) > n)
  BY <1>5, <1>6, <1>7 DEF CutOf
<1> QED BY <1>8 DEF rows

(* A step of the server that lists again nothing the client was owed, and   *)
(* leaves the timestamps of that alone.                                     *)
LEMMA ServerKeeps ==
  ASSUME HistoryTypeOK, ListedInv, CursorInv, PagesComplete, UNCHANGED client_vars,
         \A e \in owed : server_timestamp'[e] = server_timestamp[e] /\ (e \in Listed' => e \in Listed)
  PROVE  CursorInv' /\ PagesComplete'
<1>1. UNCHANGED <<route, encodes, next_cursor, since, has_more, limit, refused, handed, owed, repeated>>
  BY DEF client_vars
<1>2. handed \subseteq owed
  BY DEF ListedInv
<1>3. \A e \in owed : Ahead(e)' <=> Ahead(e)
  BY <1>1 DEF Ahead, Key
<1>4. CursorInv'
  BY <1>1, <1>2, <1>3 DEF CursorInv
<1>5. PagesComplete'
  <2> SUFFICES ASSUME NEW e \in owed, e \in Listed', e \notin handed
               PROVE  IF route = "since"
                        THEN \/ server_timestamp[e] > since
                             \/ \E f \in handed : server_timestamp'[f] = server_timestamp[e]
                        ELSE (has_more /\ Ahead(e)) \/ limit = SizeMod - 1 \/ refused
    BY <1>1, <1>3 DEF PagesComplete
  <2> QED BY <1>2 DEF PagesComplete
<1> QED BY <1>4, <1>5

(* Every step of the server keeps what the client knows.                    *)
LEMMA ServerStep ==
  ASSUME PagesInv,
         \/ \E e \in Envelopes : Stamp(e) \/ Store(e) \/ Offline(e) \/ Ack(e)
         \/ Purge
         \/ Tick
  PROVE  PagesInv'
<1> USE PagesAssumption DEF PagesInv, HistoryTypeOK, DeviceTypeOK, EnvelopeTypeOK, device_vars,
        envelope_vars
<1>1. ASSUME NEW e \in Envelopes, Stamp(e) PROVE PagesInv'
  <2>1. HistoryTypeOK'
    BY <1>1, SMT DEF Stamp, client_vars
  <2>2. ListedInv'
    BY <1>1, SMT DEF Stamp, CheckDuplicate, ListedInv, client_vars
  <2>3. UNCHANGED Listed
    BY <1>1 DEF Stamp, Listed, GetPendingForDevice, client_vars
  <2>4. CursorInv' /\ PagesComplete'
    BY <1>1, <2>3, ServerKeeps DEF Stamp
  <2> QED BY <2>1, <2>2, <2>4
<1>2. ASSUME NEW e \in Envelopes, Store(e) PROVE PagesInv'
  <2>1. HistoryTypeOK'
    <3>1. stamp[e] \in Nat
      BY SMT
    <3>2. encrypted_envelopes' \subseteq Envelopes /\ server_timestamp' \in [Envelopes -> Nat]
      BY <1>2, <3>1 DEF Store, StoreEnvelope
    <3> QED BY <1>2, <3>2 DEF Store, StoreEnvelope, client_vars
  <2>2. ListedInv'
    BY <1>2, SMT DEF Store, StoreEnvelope, ListedInv, client_vars
  <2>3. e \notin owed
    BY <1>2 DEF Store, ListedInv
  <2>4. Listed' \subseteq Listed \cup {e}
    BY <1>2 DEF Store, StoreEnvelope, Listed, GetPendingForDevice, client_vars
  <2>5. \A f \in owed : server_timestamp'[f] = server_timestamp[f] /\ (f \in Listed' => f \in Listed)
    BY <1>2, <2>3, <2>4 DEF Store, StoreEnvelope
  <2>6. CursorInv' /\ PagesComplete'
    BY <1>2, <2>5, ServerKeeps DEF Store
  <2> QED BY <2>1, <2>2, <2>6
<1>3. ASSUME NEW e \in Envelopes, Offline(e) PROVE PagesInv'
  <2>1. HistoryTypeOK'
    BY <1>3, SMT DEF Offline, AddDeliveryState, client_vars
  <2>2. ListedInv'
    BY <1>3, SMT DEF Offline, AddDeliveryState, ListedInv, client_vars
  <2>3. ASSUME route = "pending" PROVE e \notin owed
    BY <1>3, <2>3 DEF Offline, ListedInv
  <2>4. \A f \in Envelopes \ {e} : <<f, Reader>> \in delivery_state' => <<f, Reader>> \in delivery_state
    BY <1>3, SMT DEF Offline, AddDeliveryState
  <2>5. \A f \in owed : f \in Listed' => f \in Listed
    BY <1>3, <2>3, <2>4 DEF Offline, AddDeliveryState, Listed, GetPendingForDevice, client_vars
  <2>6. CursorInv' /\ PagesComplete'
    BY <1>3, <2>5, ServerKeeps DEF Offline, AddDeliveryState
  <2> QED BY <2>1, <2>2, <2>6
<1>4. ASSUME NEW e \in Envelopes, Ack(e) PROVE PagesInv'
  <2>1. HistoryTypeOK'
    BY <1>4, SMT DEF Ack, MarkAcked, send_vars, client_vars
  <2>2. ListedInv'
    BY <1>4 DEF Ack, MarkAcked, ListedInv, send_vars, client_vars
  <2>3. Listed' \subseteq Listed
    BY <1>4 DEF Ack, MarkAcked, Listed, GetPendingForDevice, client_vars
  <2>4. CursorInv' /\ PagesComplete'
    BY <1>4, <2>3, ServerKeeps DEF Ack, MarkAcked
  <2> QED BY <2>1, <2>2, <2>4
<1>5. ASSUME Purge PROVE PagesInv'
  <2>1. HistoryTypeOK'
    BY <1>5 DEF Purge, DeleteExpired, DropRows, send_vars, client_vars
  <2>2. ListedInv'
    BY <1>5 DEF Purge, DeleteExpired, DropRows, ListedInv, send_vars, client_vars
  <2>3. Listed' \subseteq Listed
    BY <1>5 DEF Purge, DeleteExpired, DropRows, Listed, GetPendingForDevice, client_vars
  <2>4. CursorInv' /\ PagesComplete'
    BY <1>5, <2>3, ServerKeeps DEF Purge, DeleteExpired
  <2> QED BY <2>1, <2>2, <2>4
<1>6. ASSUME Tick PROVE PagesInv'
  <2>1. HistoryTypeOK'
    BY <1>6, SMT DEF Tick, client_vars
  <2>2. ListedInv'
    BY <1>6 DEF Tick, ListedInv, client_vars
  <2>3. UNCHANGED Listed
    BY <1>6 DEF Tick, Listed, GetPendingForDevice, client_vars
  <2>4. CursorInv' /\ PagesComplete'
    BY <1>6, <2>3, ServerKeeps DEF Tick
  <2> QED BY <2>1, <2>2, <2>4
<1> QED BY <1>1, <1>2, <1>3, <1>4, <1>5, <1>6

(* A page by cursor: the rows that it holds are the first of those ahead,   *)
(* so the next one goes on where it ends.                                   *)
LEMMA PageStep ==
  ASSUME PagesInv, NEW n \in PageLimits, route # "since", ParseEnvCursor, Page(n),
         limit' = n, refused' = FALSE,
         UNCHANGED <<device_vars, envelope_vars, send_vars, route, encodes, since>>
  PROVE  PagesInv'
<1> DEFINE S == {e \in Listed : Ahead(e)}
           rows == Rows(S, (n + 1) % SizeMod)
           more == Cardinality(rows) > n
           page == IF more THEN rows \ {Last(rows)} ELSE rows
<1>1. /\ has_more' = more
      /\ next_cursor' = IF page = {} THEN <<>> ELSE Key(Last(page))
      /\ handed' = (IF next_cursor = <<>> THEN {} ELSE handed) \cup page
      /\ owed' = (IF next_cursor = <<>> THEN {} ELSE owed) \cup S
      /\ repeated' = (repeated \/ (next_cursor # <<>> /\ page \cap handed # {}))
  BY DEF Page, Receive
<1>2. Listed \subseteq Envelopes /\ S \in SUBSET Envelopes
  BY DEF PagesInv, HistoryTypeOK, EnvelopeTypeOK, Listed, GetPendingForDevice
<1>3. n \in 0..(SizeMod - 1)
  BY PagesAssumption
<1>4. /\ page \subseteq S
      /\ \A e \in page, f \in S : Precedes(Key(f), Key(e)) => f \in page
      /\ n # SizeMod - 1 /\ ~ more => page = S
      /\ n = SizeMod - 1 => page = {}
  <2> HIDE DEF S
  <2>1. CutOf(PageOf(rows, n), S, n, more)
    BY <1>2, <1>3, PageShape DEF PagesInv
  <2>2. page = PageOf(rows, n)
    BY DEF PageOf
  <2> HIDE DEF rows, page, more
  <2> QED BY <2>1, <2>2 DEF CutOf
<1>5. /\ UNCHANGED <<server_timestamp, encrypted_envelopes, delivery_state, acked, stage, route, since>>
      /\ Listed' = Listed
      /\ \A e : Key(e)' = Key(e)
  BY DEF envelope_vars, send_vars, Listed, GetPendingForDevice, Key
<1>6. more \in BOOLEAN
  <2>1. rows \subseteq Envelopes
    BY <1>2 DEF Rows
  <2> HIDE DEF rows
  <2>2. Cardinality(rows) \in Nat
    BY <2>1, PagesAssumption, FS_Subset, FS_CardinalityType
  <2> QED BY <1>3, <2>2, SMT
<1> HIDE DEF S, rows, more, page
<1>7. /\ S \subseteq Listed
      /\ \A e \in S : Ahead(e)
      /\ \A e \in Listed : Ahead(e) => e \in S
  BY DEF S
<1>8. \A e \in Envelopes : Key(e) \in Nat \X Nat
  BY KeyOrder DEF PagesInv
<1>9. ASSUME page # {}
      PROVE  /\ Last(page) \in page
             /\ \A f \in page : ~ Precedes(Key(Last(page)), Key(f))
             /\ \A f \in S \ page : Precedes(Key(Last(page)), Key(f))
  <2>1. page \in SUBSET Envelopes
    BY <1>2, <1>4
  <2>2. Last(page) \in page /\ \A f \in page \ {Last(page)} : Precedes(Key(f), Key(Last(page)))
    BY <1>9, <2>1, LastIs DEF PagesInv
  <2>3. \A f \in page : ~ Precedes(Key(Last(page)), Key(f))
    BY <1>8, <2>1, <2>2, CursorOrder
  <2>4. \A f \in S \ page : Precedes(Key(Last(page)), Key(f))
    BY <1>2, <1>4, <2>1, <2>2, KeyOrder DEF PagesInv
  <2> QED BY <2>2, <2>3, <2>4
<1>10. /\ next_cursor' = <<>> <=> page = {}
       /\ next_cursor' = <<>> \/ next_cursor' \in Nat \X Nat
       /\ page # {} => next_cursor' = Key(Last(page))
  <2>1. \A k \in Nat \X Nat : k # <<>>
    BY SMT
  <2> QED BY <1>1, <1>2, <1>4, <1>8, <1>9, <2>1
<1>11. \A e \in Envelopes :
         Ahead(e)' <=> page = {} \/ Precedes(Key(Last(page)), Key(e))
  BY <1>5, <1>10 DEF Ahead
<1>12. HistoryTypeOK'
  <2>1. handed' \cup owed' \subseteq Envelopes
    BY <1>1, <1>2, <1>4 DEF PagesInv, HistoryTypeOK
  <2>2. {encodes', has_more', refused', repeated'} \subseteq BOOLEAN
    BY <1>1, <1>6 DEF PagesInv, HistoryTypeOK
  <2> QED BY <2>1, <2>2 DEF PagesInv, HistoryTypeOK, DeviceTypeOK, EnvelopeTypeOK, device_vars,
       envelope_vars, send_vars
<1>13. ListedInv'
  <2>1. handed' \subseteq owed'
    BY <1>1, <1>4 DEF PagesInv, ListedInv
  <2>2. \A e \in Listed : stage[e] = "done" \/ (stage[e] = "stored" /\ route # "pending")
    BY <1>2 DEF PagesInv, ListedInv, Listed, GetPendingForDevice
  <2>3. \A e \in owed' : stage[e] = "done" \/ (stage[e] = "stored" /\ route # "pending")
    BY <1>1, <1>7, <2>2 DEF PagesInv, ListedInv
  <2> QED BY <1>5, <2>1, <2>3 DEF PagesInv, ListedInv
<1>14. CursorInv'
  <2>1. limit' = SizeMod - 1 \/ refused' => next_cursor' = <<>>
    BY <1>4, <1>10
  <2>2. ASSUME next_cursor' # <<>>, NEW e \in handed', e \in Listed PROVE ~ Ahead(e)'
    <3>1. page # {} /\ e \in Envelopes
      BY <1>2, <1>10, <2>2
    <3>2. CASE e \in page
      BY <1>9, <1>11, <3>1, <3>2
    <3>3. CASE e \notin page
      <4>1. next_cursor \in Nat \X Nat /\ ~ Ahead(e) /\ next_cursor # <<>>
        BY <1>1, <2>2, <3>3 DEF PagesInv, CursorInv
      <4>2. ~ Precedes(next_cursor, Key(e)) /\ Precedes(next_cursor, Key(Last(page)))
        BY <1>4, <1>7, <1>9, <3>1, <4>1 DEF Ahead
      <4>3. Last(page) \in Envelopes
        BY <1>2, <1>4, <1>9, <3>1
      <4>4. ~ Precedes(Key(Last(page)), Key(e))
        BY <1>8, <3>1, <4>1, <4>2, <4>3, CursorOrder
      <4> QED BY <1>11, <3>1, <4>4
    <3> QED BY <3>2, <3>3
  <2> QED BY <1>5, <1>10, <2>1, <2>2 DEF PagesInv, CursorInv
<1>15. PagesComplete'
  <2>1. ~ repeated'
    <3>1. ASSUME next_cursor # <<>>, NEW e \in page, e \in handed PROVE FALSE
      BY <1>4, <1>7, <3>1 DEF PagesInv, CursorInv
    <3> QED BY <1>1, <3>1 DEF PagesInv, PagesComplete
  <2>2. ASSUME NEW e \in owed', e \in Listed, e \notin handed'
        PROVE  (has_more' /\ Ahead(e)') \/ limit' = SizeMod - 1
    <3>1. e \in S
      <4>1. CASE next_cursor = <<>>
        BY <1>1, <2>2, <4>1
      <4>2. CASE next_cursor # <<>>
        <5>1. e \in S \/ (e \in owed /\ e \notin handed)
          BY <1>1, <2>2, <4>2
        <5>2. ~ (limit = SizeMod - 1) /\ ~ refused
          BY <4>2 DEF PagesInv, CursorInv
        <5>3. ASSUME e \in owed, e \notin handed PROVE Ahead(e)
          BY <2>2, <5>2, <5>3 DEF PagesInv, PagesComplete
        <5> QED BY <1>7, <2>2, <5>1, <5>3
      <4> QED BY <4>1, <4>2
    <3>2. e \notin page /\ e \in Envelopes
      BY <1>1, <1>2, <2>2
    <3>3. n # SizeMod - 1 => more
      BY <1>4, <3>1, <3>2
    <3>4. Ahead(e)'
      BY <1>9, <1>11, <3>1, <3>2
    <3> QED BY <1>1, <3>3, <3>4
  <2> QED BY <1>5, <2>1, <2>2 DEF PagesComplete
<1> QED BY <1>12, <1>13, <1>14, <1>15 DEF PagesInv

(* A cursor that is not understood: the client begins again.                *)
LEMMA RefusedStep ==
  ASSUME PagesInv, NEW n \in PageLimits, GetPage(n), ~ ParseEnvCursor
  PROVE  PagesInv'
<1>1. /\ route # "since" /\ limit' = n /\ refused' /\ refused' \in BOOLEAN
      /\ has_more' = FALSE /\ next_cursor' = <<>>
      /\ UNCHANGED <<handed, owed, repeated, route, encodes, since>>
  BY DEF GetPage, ParseEnvCursor
<1>2. UNCHANGED <<device_vars, envelope_vars, send_vars>>
  BY DEF GetPage
<1>3. HistoryTypeOK'
  BY <1>1, <1>2 DEF PagesInv, HistoryTypeOK, DeviceTypeOK, EnvelopeTypeOK, device_vars,
     envelope_vars, send_vars
<1>4. ListedInv'
  BY <1>1, <1>2 DEF PagesInv, ListedInv, envelope_vars, send_vars
<1>5. CursorInv' /\ PagesComplete'
  BY <1>1 DEF PagesInv, CursorInv, PagesComplete
<1> QED BY <1>3, <1>4, <1>5 DEF PagesInv

(* A page by since: what it leaves of the rows ahead is not older than its  *)
(* last row.                                                                *)
LEMMA SinceStep ==
  ASSUME PagesInv, NEW n \in PageLimits, GetSince(n)
  PROVE  PagesInv'
<1> DEFINE S == {e \in Listed : server_timestamp[e] > since}
<1>1. PICK P \in SUBSET S :
        /\ IsSincePage(P, S, n)
        /\ handed' = handed \cup P
        /\ owed' = owed \cup S
        /\ repeated' = (repeated \/ P \cap handed # {})
        /\ since' = IF P = {} THEN since ELSE server_timestamp[Last(P)]
  BY DEF GetSince
<1>2. /\ route = "since" /\ limit' = n /\ has_more' = FALSE
      /\ UNCHANGED <<device_vars, envelope_vars, send_vars, route, encodes, next_cursor, refused>>
      /\ next_cursor = <<>>
  BY DEF GetSince, PagesInv, CursorInv
<1>3. Listed \subseteq Envelopes
  BY DEF PagesInv, HistoryTypeOK, EnvelopeTypeOK, Listed, GetPendingForDevice
<1>4. /\ UNCHANGED <<server_timestamp, encrypted_envelopes, delivery_state, acked, stage>>
      /\ Listed' = Listed
  BY <1>2 DEF envelope_vars, send_vars, Listed, GetPendingForDevice
<1>5. S \subseteq Listed /\ \A e \in Listed : e \in S <=> server_timestamp[e] > since
  OBVIOUS
<1> HIDE DEF S
<1>6. \A e \in Envelopes : server_timestamp[e] \in 0..MaxClock
  BY PagesAssumption, SMT DEF PagesInv, HistoryTypeOK, EnvelopeTypeOK, ListedInv
<1>7. since \in 0..MaxClock
  BY DEF PagesInv, HistoryTypeOK
<1>8. P # {} => /\ Last(P) \in P
                /\ \A e \in P : server_timestamp[e] <= server_timestamp[Last(P)]
  <2>1. ASSUME P # {}, NEW e \in P
        PROVE  Last(P) \in P /\ server_timestamp[e] <= server_timestamp[Last(P)]
    <3>1. Last(P) \in P /\ (e = Last(P) \/ Precedes(Key(e), Key(Last(P))))
      BY <1>3, <1>5, <2>1, LastIs DEF PagesInv
    <3>2. server_timestamp[e] \in 0..MaxClock /\ server_timestamp[Last(P)] \in 0..MaxClock
      BY <1>3, <1>5, <1>6, <2>1, <3>1
    <3> QED BY <3>1, <3>2, PagesAssumption, SMT DEF Precedes, Key
  <2> QED BY <2>1
<1>9. since' \in 0..MaxClock /\ since <= since' /\ \A e \in P : server_timestamp[e] <= since'
  <2>1. CASE P = {}
    BY <1>1, <1>7, <2>1, PagesAssumption, SMT
  <2>2. CASE P # {}
    <3>1. Last(P) \in S /\ Last(P) \in Envelopes /\ since' = server_timestamp[Last(P)]
      BY <1>1, <1>3, <1>5, <1>8, <2>2
    <3>2. server_timestamp[Last(P)] \in 0..MaxClock /\ server_timestamp[Last(P)] > since
      BY <1>5, <1>6, <3>1
    <3>3. since' \in 0..MaxClock /\ since <= since'
      BY <1>7, <3>1, <3>2, PagesAssumption, SMT
    <3> QED BY <1>8, <2>2, <3>1, <3>3
  <2> QED BY <2>1, <2>2
<1>10. HistoryTypeOK'
  <2>1. handed' \cup owed' \subseteq Envelopes
    BY <1>1, <1>3, <1>5 DEF PagesInv, HistoryTypeOK
  <2>2. {encodes', has_more', refused', repeated'} \subseteq BOOLEAN
    BY <1>1, <1>2 DEF PagesInv, HistoryTypeOK
  <2> QED BY <1>2, <1>9, <2>1, <2>2 DEF PagesInv, HistoryTypeOK, DeviceTypeOK, EnvelopeTypeOK,
       device_vars, envelope_vars, send_vars
<1>11. ListedInv'
  <2>1. handed' \subseteq owed'
    BY <1>1 DEF PagesInv, ListedInv
  <2>2. \A e \in S : stage[e] \in {"stored", "done"}
    BY <1>2, <1>5 DEF PagesInv, ListedInv, Listed
  <2> QED BY <1>1, <1>2, <1>4, <2>1, <2>2 DEF PagesInv, ListedInv
<1>12. \A e \in handed \cap Listed : server_timestamp[e] <= since
  BY <1>2 DEF PagesInv, CursorInv
<1>13. CursorInv'
  <2>1. ASSUME NEW e \in handed', e \in Listed PROVE server_timestamp[e] <= since'
    <3>1. CASE e \in P
      BY <1>9, <3>1
    <3>2. CASE e \notin P
      <4>1. server_timestamp[e] <= since /\ server_timestamp[e] \in 0..MaxClock
        BY <1>1, <1>3, <1>6, <1>12, <2>1, <3>2
      <4> QED BY <1>7, <1>9, <4>1, PagesAssumption, SMT
    <3> QED BY <3>1, <3>2
  <2> QED BY <1>2, <1>4, <2>1 DEF CursorInv
<1>14. PagesComplete'
  <2>1. ~ repeated'
    <3>1. ASSUME NEW e \in P, e \in handed PROVE FALSE
      <4>1. /\ server_timestamp[e] > since /\ server_timestamp[e] <= since
            /\ server_timestamp[e] \in 0..MaxClock
        BY <1>3, <1>5, <1>6, <1>12, <3>1
      <4> QED BY <1>7, <4>1, PagesAssumption, SMT
    <3> QED BY <1>1, <3>1 DEF PagesInv, PagesComplete
  <2>2. ASSUME NEW e \in owed', e \in Listed, e \notin handed'
        PROVE  \/ server_timestamp[e] > since'
               \/ \E f \in handed' : server_timestamp[f] = server_timestamp[e]
    <3>1. CASE e \in S
      <4>1. CASE P = {}
        BY <1>1, <1>5, <3>1, <4>1
      <4>2. CASE P # {}
        <5>1. Last(P) \in P /\ since' = server_timestamp[Last(P)] /\ Last(P) \in handed'
          BY <1>1, <1>8, <4>2
        <5>2. ~ (server_timestamp[e] < server_timestamp[Last(P)])
          BY <1>1, <2>2, <3>1, <5>1 DEF IsSincePage
        <5>3. server_timestamp[e] \in 0..MaxClock /\ server_timestamp[Last(P)] \in 0..MaxClock
          BY <1>3, <1>5, <1>6, <2>2, <5>1
        <5>4. server_timestamp[e] > since' \/ server_timestamp[Last(P)] = server_timestamp[e]
          BY <5>1, <5>2, <5>3, PagesAssumption, SMT
        <5> QED BY <5>1, <5>4
      <4> QED BY <4>1, <4>2
    <3>2. CASE e \notin S
      <4>1. e \in owed /\ e \notin handed /\ ~ (server_timestamp[e] > since)
        BY <1>1, <1>5, <2>2, <3>2
      <4>2. \E f \in handed : server_timestamp[f] = server_timestamp[e]
        BY <1>2, <2>2, <4>1 DEF PagesInv, PagesComplete
      <4> QED BY <1>1, <4>2
    <3> QED BY <3>1, <3>2
  <2> QED BY <1>2, <1>4, <2>1, <2>2 DEF PagesComplete
<1> QED BY <1>10, <1>11, <1>13, <1>14 DEF PagesInv

(* PagesInv holds in every reachable state. *)
THEOREM PagesInvariant == HistorySpec => []PagesInv
<1>1. ASSUME HistoryInit PROVE PagesInv
  <2>1. HistoryTypeOK
    <3>1. {clock, since} \subseteq 0..MaxClock /\ 0 \in 0..MaxClock /\ 0 \in Nat
      BY <1>1, PagesAssumption, SMT DEF HistoryInit
    <3> QED BY <1>1, <3>1 DEF HistoryInit, HistoryTypeOK, DeviceTypeOK, EnvelopeTypeOK
  <2>2. ListedInv
    BY <1>1, PagesAssumption, SMT DEF HistoryInit, ListedInv
  <2>3. CursorInv /\ PagesComplete
    BY <1>1 DEF HistoryInit, CursorInv, PagesComplete
  <2> QED BY <2>1, <2>2, <2>3 DEF PagesInv
<1>2. ASSUME PagesInv, [HistoryNext]_history_vars PROVE PagesInv'
  <2>1. ASSUME NEW n \in PageLimits, GetPage(n) PROVE PagesInv'
    <3>1. CASE ParseEnvCursor
      BY <1>2, <2>1, <3>1, PageStep DEF GetPage
    <3> QED BY <1>2, <2>1, <3>1, RefusedStep
  <2>2. CASE UNCHANGED history_vars
    <3>1. UNCHANGED <<device_vars, envelope_vars, send_vars, client_vars>>
      BY <2>2 DEF history_vars
    <3>2. HistoryTypeOK' /\ ListedInv' /\ UNCHANGED Listed
      BY <1>2, <3>1 DEF PagesInv, HistoryTypeOK, DeviceTypeOK, EnvelopeTypeOK, ListedInv, Listed,
         GetPendingForDevice, device_vars, envelope_vars, send_vars, client_vars
    <3>3. CursorInv' /\ PagesComplete'
      BY <1>2, <3>1, <3>2, ServerKeeps DEF PagesInv, envelope_vars
    <3> QED BY <3>2, <3>3 DEF PagesInv
  <2> QED BY <1>2, <2>1, <2>2, ServerStep, SinceStep DEF HistoryNext
<1> QED BY <1>1, <1>2, PTL DEF HistorySpec

(* Following next_cursor, or the last timestamp, page after page gives the  *)
(* client every row that lay ahead of it and none twice, but for the        *)
(* exceptions that PagesComplete names.                                     *)
THEOREM PagesMissNothing == HistorySpec => []PagesComplete
BY PagesInvariant, PTL DEF PagesInv
=============================================================================
