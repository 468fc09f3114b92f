---------------------------- MODULE Attachments ----------------------------
(***************************************************************************)
(* Attachment uploads: AttachmentService over the table attachment_        *)
(* metadata and the blob files.  Each repository call and each file        *)
(* operation is a step of its own; the database mutex is not held between  *)
(* them and nothing guards the files.                                      *)
(*                                                                         *)
(* The content of a file is its chunks.  Opening it with in|out keeps     *)
(* what is there and fails when there is no file; opening it with out      *)
(* alone creates or truncates it.                                          *)
(***************************************************************************)
EXTENDS Naturals, FiniteSets

CONSTANTS
  Uploads,       \* attachment ids
  Uploader,      \* [Uploads -> account that uploads]
  Size,          \* [Uploads -> Nat]: file_size declared in upload-init
  Chunks,        \* chunks a client sends
  MaxUpload,     \* max_upload_size_bytes
  Quota,         \* max_storage_per_user_bytes
  BlobRetention, \* attachment_retention_seconds, 0: never
  Undeletable,   \* SUBSET Uploads: blobs std::filesystem::remove fails for
  Removable,     \* accounts the administrator may delete
  UploadThreads, \* storage_pool threads
  MaxClock,      \* bound on the clock
  MaxKills       \* bound on crashes

ASSUME UploadAssumption ==
  /\ UploadThreads # {} /\ IsFiniteSet(UploadThreads)
  /\ IsFiniteSet(Uploads) /\ Size \in [Uploads -> Nat]
  /\ MaxUpload \in Nat /\ Quota \in Nat
  /\ BlobRetention \in Nat
  /\ MaxClock \in Nat
  /\ MaxKills \in Nat

VARIABLES
  meta,          \* [Uploads -> "unused", "open", "complete" or "deleted"]
  created_at,    \* [Uploads -> Nat]: created_at
  files,         \* SUBSET Uploads: blobs on disk
  content,       \* [Uploads -> SUBSET Chunks]: the chunks in each file
  point,         \* [UploadThreads -> label]
  att,           \* [UploadThreads -> SUBSET Uploads]: the attachments handled
  chunk,         \* [UploadThreads -> SUBSET Chunks]: the chunk being written
  fd,            \* [UploadThreads -> BOOLEAN]: the open file is still the blob
  now,           \* [UploadThreads -> Nat]: Now() of DeleteExpired
  clock, kills,
  written,       \* [Uploads -> SUBSET Chunks]: history, chunks answered with 200
  late,          \* [Uploads -> Nat]: history, writes after completion
  beside,        \* [Accounts -> Nat]: history, the most bytes that an account
                 \* had under way when another upload of it was let through
  exposed        \* [Uploads -> SUBSET Chunks]: history, chunks written while
                 \* another thread was about to create the file

upload_threads == <<point, att, chunk, fd, now>>
blob_vars == <<files, content>>
upload_history == <<written, late, beside, exposed>>
upload_vars == <<meta, created_at, blob_vars, upload_threads, clock, kills, upload_history>>

Accounts == {Uploader[a] : a \in Uploads}

UploadInit ==
  /\ meta = [a \in Uploads |-> "unused"]
  /\ created_at = [a \in Uploads |-> 0]
  /\ files = {}
  /\ content = [a \in Uploads |-> {}]
  /\ point = [w \in UploadThreads |-> "idle"]
  /\ att = [w \in UploadThreads |-> {}]
  /\ chunk = [w \in UploadThreads |-> {}]
  /\ fd = [w \in UploadThreads |-> FALSE]
  /\ now = [w \in UploadThreads |-> 0]
  /\ clock = 0
  /\ kills = 0
  /\ written = [a \in Uploads |-> {}]
  /\ late = [a \in Uploads |-> 0]
  /\ beside = [u \in Accounts |-> 0]
  /\ exposed = [a \in Uploads |-> {}]

----------------------------------------------------------------------------
HasRow(a) == meta[a] \in {"open", "complete"}

\* The declared bytes of some uploads; there are as many as SUM(file_size).
BytesOf(A) == UNION {{a} \X (1..Size[a]) : a \in A}

Finalized(u) == {a \in Uploads : meta[a] = "complete" /\ Uploader[a] = u}

\* Only finalized uploads count.
GetStorageUsedByUser(u) == Cardinality(BytesOf(Finalized(u)))

\* retention_until < now
ExpiredAt(a, t) == HasRow(a) /\ BlobRetention > 0 /\ created_at[a] + BlobRetention < t

Starts(w, label, A, C, t) ==
  /\ point[w] = "idle"
  /\ point' = [point EXCEPT ![w] = label]
  /\ att' = [att EXCEPT ![w] = A]
  /\ chunk' = [chunk EXCEPT ![w] = C]
  /\ now' = [now EXCEPT ![w] = t]
  /\ UNCHANGED fd

Proceed(w, label) ==
  /\ point' = [point EXCEPT ![w] = label]
  /\ UNCHANGED <<att, chunk, fd, now>>

Return(w) ==
  /\ point' = [point EXCEPT ![w] = "idle"]
  /\ att' = [att EXCEPT ![w] = {}]
  /\ chunk' = [chunk EXCEPT ![w] = {}]
  /\ fd' = [fd EXCEPT ![w] = FALSE]
  /\ now' = [now EXCEPT ![w] = 0]

----------------------------------------------------------------------------
(* InitUpload *)

\* InitUpload has let the upload through and it is not finalized.
Pending(a) ==
  meta[a] = "open" \/ \E w \in UploadThreads : point[w] \in {"init", "create"} /\ a \in att[w]

UnderWay(u) == {a \in Uploads : Pending(a) /\ Uploader[a] = u}

\* The history of one more upload of u.
RecordBeside(u) ==
  LET bytes == Cardinality(BytesOf(UnderWay(u)))
  IN  beside' = [beside EXCEPT ![u] = IF @ < bytes THEN bytes ELSE @]

\* Mutant of InitQuota: the new file is not counted.
InitQuotaUsedOnly(w, a) ==
  /\ Size[a] > 0 /\ Size[a] <= MaxUpload
  /\ meta[a] = "unused"
  /\ \A v \in UploadThreads : a \notin att[v]
  /\ GetStorageUsedByUser(Uploader[a]) <= Quota
  /\ Starts(w, "init", {a}, {}, 0)
  /\ RecordBeside(Uploader[a])
  /\ UNCHANGED <<meta, created_at, blob_vars, clock, kills, written, late, exposed>>

\* A fresh UUID stands for a; two threads never have the same one.
InitQuota(w, a) ==
  /\ Size[a] > 0 /\ Size[a] <= MaxUpload
  /\ meta[a] = "unused"
  /\ \A v \in UploadThreads : a \notin att[v]
  /\ GetStorageUsedByUser(Uploader[a]) + Size[a] <= Quota
  /\ Starts(w, "init", {a}, {}, 0)
  /\ RecordBeside(Uploader[a])
  /\ UNCHANGED <<meta, created_at, blob_vars, clock, kills, written, late, exposed>>

\* The membership is another component's; it may have either answer.
InitMember(w) ==
  /\ point[w] = "init"
  /\ Proceed(w, "create") \/ Return(w)
  /\ UNCHANGED <<meta, created_at, blob_vars, clock, kills, upload_history>>

\* Mutant of CreateAttachmentMeta: created_at is given retention_until.
CreateMetaUntil(a, t) ==
  /\ meta' = [meta EXCEPT ![a] = "open"]
  /\ created_at' = [created_at EXCEPT ![a] = t + BlobRetention]

CreateAttachmentMeta(a, t) ==
  /\ meta' = [meta EXCEPT ![a] = "open"]
  /\ created_at' = [created_at EXCEPT ![a] = t]

\* Now() and CreateAttachmentMeta, whose INSERT may fail (no such account any more).
InitCreate(w) ==
  /\ point[w] = "create"
  /\ \/ \E a \in att[w] : CreateAttachmentMeta(a, clock)
     \/ UNCHANGED <<meta, created_at>>
  /\ Return(w)
  /\ UNCHANGED <<blob_vars, clock, kills, upload_history>>

----------------------------------------------------------------------------
(* WriteChunk *)

ChunkCheck(w, a, k) ==
  /\ meta[a] = "open"
  /\ Starts(w, "chunk_open", {a}, {k}, 0)
  /\ UNCHANGED <<meta, created_at, blob_vars, clock, kills, upload_history>>

\* Mutant of ChunkOpen: every chunk opens with out.
ChunkOpenAnew(w) ==
  /\ point[w] = "chunk_open"
  /\ Proceed(w, "chunk_create")
  /\ UNCHANGED <<meta, created_at, blob_vars, clock, kills, upload_history>>

\* in|out
ChunkOpen(w) ==
  /\ point[w] = "chunk_open"
  /\ \E a \in att[w] :
       IF a \notin files
         THEN Proceed(w, "chunk_create")
         ELSE /\ point' = [point EXCEPT ![w] = "chunk_write"]
              /\ fd' = [fd EXCEPT ![w] = TRUE]
              /\ UNCHANGED <<att, chunk, now>>
  /\ UNCHANGED <<meta, created_at, blob_vars, clock, kills, upload_history>>

\* out: creates the file or truncates it.
ChunkCreate(w) ==
  /\ point[w] = "chunk_create"
  /\ files' = files \cup att[w]
  /\ content' = [a \in Uploads |-> IF a \in att[w] THEN {} ELSE content[a]]
  /\ point' = [point EXCEPT ![w] = "chunk_write"]
  /\ fd' = [fd EXCEPT ![w] = TRUE]
  /\ UNCHANGED <<meta, created_at, att, chunk, now, clock, kills, upload_history>>

AboutToCreate(v, a) == point[v] = "chunk_create" /\ a \in att[v]

\* The history of a chunk that a thread about to create the file will truncate.
RecordExposed(w, a) ==
  exposed' = [exposed EXCEPT ![a] =
                IF \E v \in UploadThreads : AboutToCreate(v, a)
                  THEN @ \cup chunk[w] ELSE @ \ chunk[w]]

\* The bytes go to the file that was opened, which may be unlinked by now.
ChunkWrite(w) ==
  /\ point[w] = "chunk_write"
  /\ \E a \in att[w] :
       /\ content' = IF fd[w] THEN [content EXCEPT ![a] = @ \cup chunk[w]] ELSE content
       /\ written' = [written EXCEPT ![a] = @ \cup chunk[w]]
       /\ late' = [late EXCEPT ![a] = IF meta[a] = "complete" THEN @ + 1 ELSE @]
       /\ RecordExposed(w, a)
  /\ Return(w)
  /\ UNCHANGED <<meta, created_at, files, clock, kills, beside>>

----------------------------------------------------------------------------
(* FinalizeUpload *)

FinalizeCheck(w, a) ==
  /\ meta[a] = "open"
  /\ Starts(w, "finalize_exists", {a}, {}, 0)
  /\ UNCHANGED <<meta, created_at, blob_vars, clock, kills, upload_history>>

\* Mutant of FinalizeExists: the file is not looked for.
FinalizeUnseen(w) ==
  /\ point[w] = "finalize_exists"
  /\ Proceed(w, "finalize_mark")
  /\ UNCHANGED <<meta, created_at, blob_vars, clock, kills, upload_history>>

FinalizeExists(w) ==
  /\ point[w] = "finalize_exists"
  /\ IF att[w] \subseteq files
       THEN Proceed(w, "finalize_mark")
       ELSE Return(w)
  /\ UNCHANGED <<meta, created_at, blob_vars, clock, kills, upload_history>>

\* MarkUploadComplete updates the row if there still is one.
FinalizeMark(w) ==
  /\ point[w] = "finalize_mark"
  /\ meta' = [a \in Uploads |->
                IF a \in att[w] /\ HasRow(a) THEN "complete" ELSE meta[a]]
  /\ Return(w)
  /\ UNCHANGED <<created_at, blob_vars, clock, kills, upload_history>>

----------------------------------------------------------------------------
(* DeleteExpired, run by the maintenance task *)

ExpireBegin(w) ==
  /\ \E a \in Uploads : ExpiredAt(a, clock)
  /\ Starts(w, "expire", {a \in Uploads : ExpiredAt(a, clock)}, {}, clock)
  /\ UNCHANGED <<meta, created_at, blob_vars, clock, kills, upload_history>>

\* remove unlinks the file under those who have it open; a failure is logged.
ExpireRemove(w) ==
  /\ point[w] = "expire"
  /\ \E a \in att[w] :
       /\ att' = [att EXCEPT ![w] = @ \ {a}]
       /\ files' = files \ ({a} \ Undeletable)
       /\ content' = IF a \in Undeletable THEN content ELSE [content EXCEPT ![a] = {}]
       /\ fd' = [v \in UploadThreads |-> fd[v] /\ (a \notin att[v] \/ a \in Undeletable)]
  /\ UNCHANGED <<meta, created_at, point, chunk, now, clock, kills, upload_history>>

ExpireRows(w) ==
  /\ point[w] = "expire"
  /\ att[w] = {}
  /\ meta' = [a \in Uploads |-> IF ExpiredAt(a, now[w]) THEN "deleted" ELSE meta[a]]
  /\ Return(w)
  /\ UNCHANGED <<created_at, blob_vars, clock, kills, upload_history>>

----------------------------------------------------------------------------
\* AdminService::DeleteUser deletes the rows and leaves the files.
DeleteUser(u) ==
  /\ u \in Removable
  /\ \E a \in Uploads : HasRow(a) /\ Uploader[a] = u
  /\ meta' = [a \in Uploads |->
                IF Uploader[a] = u /\ HasRow(a) THEN "deleted" ELSE meta[a]]
  /\ UNCHANGED <<created_at, blob_vars, upload_threads, clock, kills, upload_history>>

Tick ==
  /\ clock < MaxClock
  /\ clock' = clock + 1
  /\ UNCHANGED <<meta, created_at, blob_vars, upload_threads, kills, upload_history>>

\* Rows and files survive, handlers do not.
Crash ==
  /\ kills < MaxKills
  /\ kills' = kills + 1
  /\ point' = [w \in UploadThreads |-> "idle"]
  /\ att' = [w \in UploadThreads |-> {}]
  /\ chunk' = [w \in UploadThreads |-> {}]
  /\ fd' = [w \in UploadThreads |-> FALSE]
  /\ now' = [w \in UploadThreads |-> 0]
  /\ UNCHANGED <<meta, created_at, blob_vars, clock, upload_history>>

InitUpload(w) == (\E a \in Uploads : InitQuota(w, a)) \/ InitMember(w) \/ InitCreate(w)

WriteChunk(w) ==
  \/ \E a \in Uploads, k \in Chunks : ChunkCheck(w, a, k)
  \/ ChunkOpen(w) \/ ChunkCreate(w) \/ ChunkWrite(w)

FinalizeUpload(w) ==
  (\E a \in Uploads : FinalizeCheck(w, a)) \/ FinalizeExists(w) \/ FinalizeMark(w)

DeleteExpiredBlobs(w) == ExpireBegin(w) \/ ExpireRemove(w) \/ ExpireRows(w)

UploadNext ==
  \/ \E w \in UploadThreads :
       InitUpload(w) \/ WriteChunk(w) \/ FinalizeUpload(w) \/ DeleteExpiredBlobs(w)
  \/ \E u \in Removable : DeleteUser(u)
  \/ Tick
  \/ Crash

UploadSpec == UploadInit /\ [][UploadNext]_upload_vars

----------------------------------------------------------------------------
UploadPoints ==
  {"idle", "init", "create", "chunk_open", "chunk_create", "chunk_write",
   "finalize_exists", "finalize_mark", "expire"}

\* Types of the rows, the files and the handlers.
UploadTypeOK ==
  /\ meta \in [Uploads -> {"unused", "open", "complete", "deleted"}]
  /\ created_at \in [Uploads -> 0..MaxClock]
  /\ files \subseteq Uploads
  /\ content \in [Uploads -> SUBSET Chunks]
  /\ point \in [UploadThreads -> UploadPoints]
  /\ att \in [UploadThreads -> SUBSET Uploads]
  /\ chunk \in [UploadThreads -> SUBSET Chunks]
  /\ fd \in [UploadThreads -> BOOLEAN]
  /\ now \in [UploadThreads -> 0..MaxClock]
  /\ clock \in 0..MaxClock /\ kills \in 0..MaxKills
  /\ written \in [Uploads -> SUBSET Chunks]
  /\ late \in [Uploads -> Nat]
  /\ beside \in [Accounts -> Nat]
  /\ exposed \in [Uploads -> SUBSET Chunks]

\* What GetAttachment answers with can be opened: a finalized upload that has
\* not reached its retention_until has its blob, although FinalizeUpload looks
\* for the file before it marks the row and DeleteExpired removes files before
\* rows, with crashes in between.  WriteChunk looks at upload_complete before it
\* opens the file, so the blob can still change, but by no more than one chunk
\* per other thread.
CompleteHasBlob ==
  \A a \in Uploads :
    /\ meta[a] = "complete" /\ ~ ExpiredAt(a, clock) => a \in files
    /\ late[a] <= Cardinality(UploadThreads) - 1

\* InitUpload compares the quota with what is finalized, so uploads let through
\* side by side can exceed it together.  An account is over its quota by no more
\* than it had under way when yet another upload of it was let through; one that
\* finishes each upload before it begins the next is never over it.
QuotaOvershoot ==
  \A u \in Accounts : GetStorageUsedByUser(u) <= Quota + beside[u]

\* The open of a first chunk truncates what another first chunk has written in
\* between.  Nothing else loses a chunk: whatever was answered with 200 is in the
\* file of an unexpired upload, unless another thread had looked for the file in
\* vain and not yet created it when that chunk was written; whatever is sent at
\* the same time, and however a crash cuts it off.
ChunksKept ==
  \A a \in Uploads :
    HasRow(a) /\ ~ ExpiredAt(a, clock) => written[a] \ exposed[a] \subseteq content[a]
=============================================================================
