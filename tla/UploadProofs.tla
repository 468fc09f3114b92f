---------------------------- MODULE UploadProofs ----------------------------
(***************************************************************************)
(* Attachment uploads: what was finalized has its blob, what was answered  *)
(* is in it and how far an account can exceed its quota, for any number of *)
(* threads, uploads, chunks, sizes, crashes and clock ticks.               *)
(***************************************************************************)
EXTENDS Attachments, FiniteSetTheorems, TLAPS

\* The prover of every leaf that names none.
USE Zenon

ChunkPoints == {"chunk_open", "chunk_create", "chunk_write"}

\* retention_until has passed, whether or not there still is a row.
Old(a) == BlobRetention > 0 /\ created_at[a] + BlobRetention < clock

Writers(a) == {w \in UploadThreads : point[w] \in ChunkPoints /\ a \in att[w]}

\* What a handler under way knows of its attachments.  A row is created once, so
\* whoever handles an attachment that has one, or had, sees the same created_at.
HandledInv ==
  \A w \in UploadThreads :
    /\ now[w] <= clock
    /\ point[w] = "idle" => att[w] = {}
    /\ point[w] # "expire" => \A a, b \in att[w] : a = b
    /\ point[w] \in {"init", "create"} =>
         \A a \in att[w] : meta[a] = "unused" /\ \A v \in UploadThreads \ {w} : a \notin att[v]
    /\ point[w] \notin {"init", "create"} => \A a \in att[w] : meta[a] # "unused"
    /\ point[w] \in ChunkPoints => chunk[w] # {}
    /\ point[w] = "expire" =>
         BlobRetention > 0 /\ \A a \in att[w] : created_at[a] + BlobRetention < now[w]

FreshInv ==
  \A a \in Uploads : meta[a] = "unused" => a \notin files /\ written[a] = {} /\ late[a] = 0

\* A file goes only after its time, also one that FinalizeUpload has seen.
BlobInv ==
  /\ \A a \in Uploads : meta[a] = "complete" => a \in files \/ Old(a)
  /\ \A w \in UploadThreads :
       point[w] = "finalize_mark" => \A a \in att[w] : a \in files \/ Old(a)

\* Who may still write to a finalized upload had passed the test of WriteChunk
\* before; the thread that finalized it had not.
LateInv ==
  \A a \in Uploads :
    /\ meta[a] \in {"unused", "open"} => late[a] = 0
    /\ meta[a] = "complete" =>
         late[a] + Cardinality(Writers(a)) <= Cardinality(UploadThreads) - 1
    /\ meta[a] = "deleted" => late[a] <= Cardinality(UploadThreads) - 1

\* Before the file is there no chunk is answered, and whoever is about to create
\* it truncates only chunks that were written in the meantime.
FirstChunkInv ==
  \A a \in Uploads :
    HasRow(a) /\ ~ Old(a) =>
      /\ a \notin files => written[a] = {}
      /\ \A w \in UploadThreads : AboutToCreate(w, a) => written[a] \subseteq exposed[a]
      /\ \A w \in Writers(a) : point[w] = "chunk_write" => a \in files /\ fd[w]
      /\ written[a] \ exposed[a] \subseteq content[a]

\* What an account has finalized and has under way together.
Claimed(u) == Finalized(u) \cup UnderWay(u)

\* An upload that InitUpload lets through fits beside what is finalized, so the
\* account then exceeds the quota by what else it has under way.  Later steps
\* claim nothing more.
QuotaInv == \A u \in Accounts : Cardinality(BytesOf(Claimed(u))) <= Quota + beside[u]

UploadInv == UploadTypeOK /\ HandledInv /\ FreshInv /\ BlobInv /\ LateInv /\ FirstChunkInv
             /\ QuotaInv

(* The declared bytes of some of the uploads are finitely many.             *)
LEMMA BytesFinite ==
  ASSUME NEW A \in SUBSET Uploads
  PROVE  IsFiniteSet(BytesOf(A)) /\ Cardinality(BytesOf(A)) \in Nat
<1> DEFINE bytes == [a \in A |-> {a} \X (1..Size[a])]
           T == {{a} \X (1..Size[a]) : a \in A}
<1>1. IsFiniteSet(A)
  BY UploadAssumption, FS_Subset
<1>2. bytes \in Surjection(A, T)
  BY DEF Surjection
<1>3. IsFiniteSet(T)
  BY <1>1, <1>2, FS_Surjection
<1>4. ASSUME NEW a \in A PROVE IsFiniteSet({a} \X (1..Size[a]))
  <2>1. Size[a] \in Nat
    BY UploadAssumption
  <2>2. IsFiniteSet(1..Size[a])
    BY <2>1, FS_Interval, SMT
  <2> QED BY <2>2, FS_Product, FS_Singleton
<1>5. IsFiniteSet(UNION T)
  <2>1. \A S \in T : IsFiniteSet(S)
    BY <1>4
  <2> HIDE DEF T
  <2> QED BY <1>3, <2>1, FS_UNION
<1> QED BY <1>5, FS_CardinalityType DEF BytesOf

(* Every step keeps the types. *)
LEMMA UploadTypeStep ==
  ASSUME UploadTypeOK, [UploadNext]_upload_vars
  PROVE  UploadTypeOK'
<1> USE UploadAssumption DEF UploadTypeOK, UploadPoints, blob_vars, upload_threads, upload_history
<1>1. ASSUME NEW w \in UploadThreads, NEW a \in Uploads, InitQuota(w, a) PROVE UploadTypeOK'
  <2>1. beside' \in [Accounts -> Nat]
    <3>1. Cardinality(BytesOf(UnderWay(Uploader[a]))) \in Nat
      BY BytesFinite DEF UnderWay
    <3> QED BY <1>1, <3>1 DEF InitQuota, RecordBeside
  <2> QED BY <1>1, <2>1, SMT DEF InitQuota, Starts
<1>2. ASSUME NEW w \in UploadThreads, InitMember(w) PROVE UploadTypeOK'
  <2>1. CASE Proceed(w, "create")
    BY <1>2, <2>1 DEF InitMember, Proceed
  <2>2. CASE Return(w)
    BY <1>2, <2>2, SMT DEF InitMember, Return
  <2> QED BY <1>2, <2>1, <2>2 DEF InitMember
<1>3. ASSUME NEW w \in UploadThreads, InitCreate(w) PROVE UploadTypeOK'
  BY <1>3, SMT DEF InitCreate, CreateAttachmentMeta, Return
<1>4. ASSUME NEW w \in UploadThreads, NEW a \in Uploads, NEW k \in Chunks, ChunkCheck(w, a, k) PROVE UploadTypeOK'
  BY <1>4, SMT DEF ChunkCheck, Starts
<1>5. ASSUME NEW w \in UploadThreads, ChunkOpen(w) PROVE UploadTypeOK'
  BY <1>5 DEF ChunkOpen, Proceed
<1>6. ASSUME NEW w \in UploadThreads, ChunkCreate(w) PROVE UploadTypeOK'
  BY <1>6 DEF ChunkCreate
<1>7. ASSUME NEW w \in UploadThreads, ChunkWrite(w) PROVE UploadTypeOK'
  BY <1>7, SMT DEF ChunkWrite, Return, RecordExposed
<1>8. ASSUME NEW w \in UploadThreads, NEW a \in Uploads, FinalizeCheck(w, a) PROVE UploadTypeOK'
  BY <1>8, SMT DEF FinalizeCheck, Starts
<1>9. ASSUME NEW w \in UploadThreads, FinalizeExists(w) PROVE UploadTypeOK'
  <2>1. CASE Proceed(w, "finalize_mark")
    BY <1>9, <2>1 DEF FinalizeExists, Proceed
  <2>2. CASE Return(w)
    BY <1>9, <2>2, SMT DEF FinalizeExists, Return
  <2> QED BY <1>9, <2>1, <2>2 DEF FinalizeExists
<1>10. ASSUME NEW w \in UploadThreads, FinalizeMark(w) PROVE UploadTypeOK'
  BY <1>10, SMT DEF FinalizeMark, Return, HasRow
<1>11. ASSUME NEW w \in UploadThreads, ExpireBegin(w) PROVE UploadTypeOK'
  BY <1>11 DEF ExpireBegin, Starts, ExpiredAt
<1>12. ASSUME NEW w \in UploadThreads, ExpireRemove(w) PROVE UploadTypeOK'
  BY <1>12, SMT DEF ExpireRemove
<1>13. ASSUME NEW w \in UploadThreads, ExpireRows(w) PROVE UploadTypeOK'
  BY <1>13, SMT DEF ExpireRows, Return, ExpiredAt, HasRow
<1>14. ASSUME NEW u \in Removable, DeleteUser(u) PROVE UploadTypeOK'
  BY <1>14 DEF DeleteUser, HasRow
<1>15. CASE Tick
  BY <1>15, SMT DEF Tick
<1>16. CASE Crash
  BY <1>16, SMT DEF Crash
<1>17. CASE UNCHANGED upload_vars
  BY <1>17 DEF upload_vars
<1> QED BY <1>1, <1>2, <1>3, <1>4, <1>5, <1>6, <1>7, <1>8, <1>9, <1>10, <1>11, <1>12, <1>13, <1>14, <1>15, <1>16, <1>17
     DEF UploadNext, InitUpload, WriteChunk, FinalizeUpload, DeleteExpiredBlobs

(* Every step keeps what handlers know. *)
LEMMA HandledStep ==
  ASSUME UploadTypeOK, HandledInv, [UploadNext]_upload_vars
  PROVE  HandledInv'
<1> USE UploadAssumption DEF UploadTypeOK, UploadPoints, HandledInv, ChunkPoints, HasRow,
   blob_vars, upload_threads, upload_history
<1>1. ASSUME NEW w \in UploadThreads, NEW a \in Uploads, InitQuota(w, a) PROVE HandledInv'
  BY <1>1, SMT DEF InitQuota, Starts
<1>2. ASSUME NEW w \in UploadThreads, InitMember(w) PROVE HandledInv'
  BY <1>2, SMT DEF InitMember, Proceed, Return
<1>3. ASSUME NEW w \in UploadThreads, InitCreate(w) PROVE HandledInv'
  BY <1>3, SMT DEF InitCreate, CreateAttachmentMeta, Return
<1>4. ASSUME NEW w \in UploadThreads, NEW a \in Uploads, NEW k \in Chunks, ChunkCheck(w, a, k) PROVE HandledInv'
  BY <1>4, SMT DEF ChunkCheck, Starts
<1>5. ASSUME NEW w \in UploadThreads, ChunkOpen(w) PROVE HandledInv'
  BY <1>5, SMT DEF ChunkOpen, Proceed
<1>6. ASSUME NEW w \in UploadThreads, ChunkCreate(w) PROVE HandledInv'
  BY <1>6 DEF ChunkCreate
<1>7. ASSUME NEW w \in UploadThreads, ChunkWrite(w) PROVE HandledInv'
  BY <1>7, SMT DEF ChunkWrite, Return
<1>8. ASSUME NEW w \in UploadThreads, NEW a \in Uploads, FinalizeCheck(w, a) PROVE HandledInv'
  BY <1>8, SMT DEF FinalizeCheck, Starts
<1>9. ASSUME NEW w \in UploadThreads, FinalizeExists(w) PROVE HandledInv'
  BY <1>9, SMT DEF FinalizeExists, Proceed, Return
<1>10. ASSUME NEW w \in UploadThreads, FinalizeMark(w) PROVE HandledInv'
  BY <1>10, SMT DEF FinalizeMark, Return, HasRow
<1>11. ASSUME NEW w \in UploadThreads, ExpireBegin(w) PROVE HandledInv'
  BY <1>11, SMT DEF ExpireBegin, Starts, ExpiredAt
<1>12. ASSUME NEW w \in UploadThreads, ExpireRemove(w) PROVE HandledInv'
  BY <1>12, SMT DEF ExpireRemove
<1>13. ASSUME NEW w \in UploadThreads, ExpireRows(w) PROVE HandledInv'
  BY <1>13, SMT DEF ExpireRows, Return, ExpiredAt, HasRow
<1>14. ASSUME NEW u \in Removable, DeleteUser(u) PROVE HandledInv'
  BY <1>14, SMT DEF DeleteUser, HasRow
<1>15. CASE Tick
  BY <1>15, SMT DEF Tick
<1>16. CASE Crash
  BY <1>16, SMT DEF Crash
<1>17. CASE UNCHANGED upload_vars
  BY <1>17 DEF upload_vars
<1> QED BY <1>1, <1>2, <1>3, <1>4, <1>5, <1>6, <1>7, <1>8, <1>9, <1>10, <1>11, <1>12, <1>13, <1>14, <1>15, <1>16, <1>17
     DEF UploadNext, InitUpload, WriteChunk, FinalizeUpload, DeleteExpiredBlobs

(* Every step keeps unused ids clean. *)
LEMMA FreshStep ==
  ASSUME UploadTypeOK, HandledInv, FreshInv, [UploadNext]_upload_vars
  PROVE  FreshInv'
<1> USE UploadAssumption DEF UploadTypeOK, UploadPoints, HandledInv, FreshInv, blob_vars,
   upload_threads, upload_history
<1>1. ASSUME NEW w \in UploadThreads, NEW a \in Uploads, InitQuota(w, a) PROVE FreshInv'
  BY <1>1 DEF InitQuota, Starts
<1>2. ASSUME NEW w \in UploadThreads, InitMember(w) PROVE FreshInv'
  BY <1>2 DEF InitMember, Proceed, Return
<1>3. ASSUME NEW w \in UploadThreads, InitCreate(w) PROVE FreshInv'
  BY <1>3, SMT DEF InitCreate, CreateAttachmentMeta, Return
<1>4. ASSUME NEW w \in UploadThreads, NEW a \in Uploads, NEW k \in Chunks, ChunkCheck(w, a, k) PROVE FreshInv'
  BY <1>4 DEF ChunkCheck, Starts
<1>5. ASSUME NEW w \in UploadThreads, ChunkOpen(w) PROVE FreshInv'
  BY <1>5 DEF ChunkOpen, Proceed
<1>6. ASSUME NEW w \in UploadThreads, ChunkCreate(w) PROVE FreshInv'
  BY <1>6 DEF ChunkCreate
<1>7. ASSUME NEW w \in UploadThreads, ChunkWrite(w) PROVE FreshInv'
  BY <1>7, SMT DEF ChunkWrite, Return
<1>8. ASSUME NEW w \in UploadThreads, NEW a \in Uploads, FinalizeCheck(w, a) PROVE FreshInv'
  BY <1>8 DEF FinalizeCheck, Starts
<1>9. ASSUME NEW w \in UploadThreads, FinalizeExists(w) PROVE FreshInv'
  BY <1>9 DEF FinalizeExists, Proceed, Return
<1>10. ASSUME NEW w \in UploadThreads, FinalizeMark(w) PROVE FreshInv'
  BY <1>10 DEF FinalizeMark, Return, HasRow
<1>11. ASSUME NEW w \in UploadThreads, ExpireBegin(w) PROVE FreshInv'
  BY <1>11 DEF ExpireBegin, Starts, ExpiredAt
<1>12. ASSUME NEW w \in UploadThreads, ExpireRemove(w) PROVE FreshInv'
  BY <1>12 DEF ExpireRemove
<1>13. ASSUME NEW w \in UploadThreads, ExpireRows(w) PROVE FreshInv'
  BY <1>13 DEF ExpireRows, Return, ExpiredAt, HasRow
<1>14. ASSUME NEW u \in Removable, DeleteUser(u) PROVE FreshInv'
  BY <1>14 DEF DeleteUser, HasRow
<1>15. CASE Tick
  BY <1>15 DEF Tick
<1>16. CASE Crash
  BY <1>16 DEF Crash
<1>17. CASE UNCHANGED upload_vars
  BY <1>17 DEF upload_vars
<1> QED BY <1>1, <1>2, <1>3, <1>4, <1>5, <1>6, <1>7, <1>8, <1>9, <1>10, <1>11, <1>12, <1>13, <1>14, <1>15, <1>16, <1>17
     DEF UploadNext, InitUpload, WriteChunk, FinalizeUpload, DeleteExpiredBlobs

(* Every step keeps the blobs of unexpired uploads. *)
LEMMA BlobStep ==
  ASSUME UploadTypeOK, HandledInv, BlobInv, [UploadNext]_upload_vars
  PROVE  BlobInv'
<1> USE UploadAssumption DEF UploadTypeOK, UploadPoints, HandledInv, BlobInv, Old, blob_vars,
   upload_threads, upload_history
<1>1. ASSUME NEW w \in UploadThreads, NEW a \in Uploads, InitQuota(w, a) PROVE BlobInv'
  BY <1>1 DEF InitQuota, Starts
<1>2. ASSUME NEW w \in UploadThreads, InitMember(w) PROVE BlobInv'
  BY <1>2, SMT DEF InitMember, Proceed, Return
<1>3. ASSUME NEW w \in UploadThreads, InitCreate(w) PROVE BlobInv'
  BY <1>3, SMT DEF InitCreate, CreateAttachmentMeta, Return
<1>4. ASSUME NEW w \in UploadThreads, NEW a \in Uploads, NEW k \in Chunks, ChunkCheck(w, a, k) PROVE BlobInv'
  BY <1>4 DEF ChunkCheck, Starts
<1>5. ASSUME NEW w \in UploadThreads, ChunkOpen(w) PROVE BlobInv'
  BY <1>5, SMT DEF ChunkOpen, Proceed
<1>6. ASSUME NEW w \in UploadThreads, ChunkCreate(w) PROVE BlobInv'
  BY <1>6, SMT DEF ChunkCreate
<1>7. ASSUME NEW w \in UploadThreads, ChunkWrite(w) PROVE BlobInv'
  BY <1>7, SMT DEF ChunkWrite, Return
<1>8. ASSUME NEW w \in UploadThreads, NEW a \in Uploads, FinalizeCheck(w, a) PROVE BlobInv'
  BY <1>8 DEF FinalizeCheck, Starts
<1>9. ASSUME NEW w \in UploadThreads, FinalizeExists(w) PROVE BlobInv'
  BY <1>9, SMT DEF FinalizeExists, Proceed, Return
<1>10. ASSUME NEW w \in UploadThreads, FinalizeMark(w) PROVE BlobInv'
  BY <1>10, SMT DEF FinalizeMark, Return, HasRow
<1>11. ASSUME NEW w \in UploadThreads, ExpireBegin(w) PROVE BlobInv'
  BY <1>11, SMT DEF ExpireBegin, Starts, ExpiredAt
<1>12. ASSUME NEW w \in UploadThreads, ExpireRemove(w) PROVE BlobInv'
  BY <1>12, SMT DEF ExpireRemove
<1>13. ASSUME NEW w \in UploadThreads, ExpireRows(w) PROVE BlobInv'
  BY <1>13 DEF ExpireRows, Return, ExpiredAt, HasRow
<1>14. ASSUME NEW u \in Removable, DeleteUser(u) PROVE BlobInv'
  BY <1>14 DEF DeleteUser, HasRow
<1>15. CASE Tick
  BY <1>15, SMT DEF Tick
<1>16. CASE Crash
  BY <1>16 DEF Crash
<1>17. CASE UNCHANGED upload_vars
  BY <1>17 DEF upload_vars
<1> QED BY <1>1, <1>2, <1>3, <1>4, <1>5, <1>6, <1>7, <1>8, <1>9, <1>10, <1>11, <1>12, <1>13, <1>14, <1>15, <1>16, <1>17
     DEF UploadNext, InitUpload, WriteChunk, FinalizeUpload, DeleteExpiredBlobs

(* The threads that write to an upload are some of the threads.             *)
LEMMA WritersFinite ==
  ASSUME NEW a
  PROVE  /\ Cardinality(UploadThreads) \in Nat /\ Cardinality(UploadThreads) >= 1
         /\ IsFiniteSet(Writers(a)) /\ Cardinality(Writers(a)) \in Nat
         /\ \A w \in UploadThreads \ Writers(a) :
              Cardinality(Writers(a)) <= Cardinality(UploadThreads) - 1
<1>1. IsFiniteSet(UploadThreads) /\ Writers(a) \subseteq UploadThreads
  BY UploadAssumption DEF Writers
<1>2. Cardinality(UploadThreads) \in Nat /\ Cardinality(UploadThreads) >= 1
  <2>1. Cardinality(UploadThreads) \in Nat /\ Cardinality(UploadThreads) # 0
    BY <1>1, UploadAssumption, FS_CardinalityType, FS_EmptySet
  <2> QED BY <2>1, SMT
<1>3. ASSUME NEW w \in UploadThreads \ Writers(a)
      PROVE  Cardinality(Writers(a)) <= Cardinality(UploadThreads) - 1
  <2>1. /\ Writers(a) \subseteq UploadThreads \ {w} /\ IsFiniteSet(UploadThreads \ {w})
        /\ Cardinality(UploadThreads \ {w}) = Cardinality(UploadThreads) - 1
    BY <1>1, FS_RemoveElement
  <2> QED BY <2>1, FS_Subset, SMT
<1> QED BY <1>1, <1>2, <1>3, FS_Subset, FS_CardinalityType

(* A step that writes nothing, finalizes nothing and lets nobody through to *)
(* a finalized upload.                                                      *)
LEMMA LateKept ==
  ASSUME UploadTypeOK, UploadTypeOK', LateInv, late' = late,
         \A a \in Uploads :
           /\ meta'[a] \in {"unused", "open"} => meta[a] \in {"unused", "open"}
           /\ meta'[a] = "complete" => meta[a] = "complete" /\ Writers(a)' \subseteq Writers(a)
  PROVE  LateInv'
<1> SUFFICES ASSUME NEW a \in Uploads
             PROVE  /\ meta'[a] \in {"unused", "open"} => late[a] = 0
                    /\ meta'[a] = "complete" =>
                         late[a] + Cardinality(Writers(a)') <= Cardinality(UploadThreads) - 1
                    /\ meta'[a] = "deleted" => late[a] <= Cardinality(UploadThreads) - 1
  BY DEF LateInv
<1>1. late[a] \in Nat /\ meta[a] \in {"unused", "open", "complete", "deleted"}
  BY DEF UploadTypeOK
<1>2. Cardinality(Writers(a)) \in Nat /\ Cardinality(UploadThreads) \in Nat
      /\ Cardinality(UploadThreads) >= 1
  BY WritersFinite
<1>3. ASSUME Writers(a)' \subseteq Writers(a)
      PROVE  Cardinality(Writers(a)') \in Nat /\ Cardinality(Writers(a)') <= Cardinality(Writers(a))
  BY <1>3, WritersFinite, FS_Subset, FS_CardinalityType
<1>4. late[a] <= Cardinality(UploadThreads) - 1
  BY <1>1, <1>2, SMT DEF LateInv
<1> QED BY <1>1, <1>2, <1>3, <1>4, SMT DEF LateInv

(* WriteChunk: the write of a thread that had passed the test.              *)
LEMMA LateWrite ==
  ASSUME UploadTypeOK, HandledInv, LateInv, NEW w \in UploadThreads, ChunkWrite(w)
  PROVE  LateInv'
<1>1. PICK b \in att[w] :
        /\ late' = [late EXCEPT ![b] = IF meta[b] = "complete" THEN @ + 1 ELSE @]
        /\ b \in Uploads /\ UNCHANGED meta
  BY DEF ChunkWrite, UploadTypeOK
<1>2. /\ w \in Writers(b) /\ Writers(b)' = Writers(b) \ {w}
      /\ \A a \in Uploads \ {b} : Writers(a)' = Writers(a)
  BY <1>1 DEF ChunkWrite, Return, UploadTypeOK, HandledInv, Writers, ChunkPoints
<1>3. Cardinality(Writers(b)') = Cardinality(Writers(b)) - 1
  BY <1>2, WritersFinite, FS_RemoveElement
<1>4. Cardinality(Writers(b)) \in Nat /\ Cardinality(UploadThreads) \in Nat /\ late \in [Uploads -> Nat]
  BY WritersFinite DEF UploadTypeOK
<1>5. \A a \in Uploads \ {b} : late'[a] = late[a] /\ meta'[a] = meta[a]
  BY <1>1, <1>4
<1>6. meta'[b] = meta[b] /\ late'[b] = IF meta[b] = "complete" THEN late[b] + 1 ELSE late[b]
  BY <1>1, <1>4
<1>7. /\ meta[b] \in {"unused", "open"} => late'[b] = 0
      /\ meta[b] = "complete" =>
           late'[b] + Cardinality(Writers(b)') <= Cardinality(UploadThreads) - 1
      /\ meta[b] = "deleted" => late'[b] <= Cardinality(UploadThreads) - 1
  BY <1>1, <1>3, <1>4, <1>6, SMT DEF LateInv
<1> QED BY <1>1, <1>2, <1>5, <1>6, <1>7 DEF LateInv

(* MarkUploadComplete: the thread that finalizes is not among the writers.  *)
LEMMA LateMark ==
  ASSUME UploadTypeOK, LateInv, NEW w \in UploadThreads, FinalizeMark(w)
  PROVE  LateInv'
<1>1. /\ late' = late /\ late \in [Uploads -> Nat]
      /\ \A a \in Uploads :
           \/ meta'[a] = meta[a]
           \/ meta[a] \in {"open", "complete"} /\ meta'[a] = "complete"
  BY DEF FinalizeMark, HasRow, UploadTypeOK, upload_history
<1>2. \A a \in Uploads : Writers(a)' = Writers(a) /\ w \notin Writers(a)
  BY DEF FinalizeMark, Return, Writers, ChunkPoints, UploadTypeOK
<1>3. \A a \in Uploads : /\ Cardinality(Writers(a)) <= Cardinality(UploadThreads) - 1
                         /\ Cardinality(Writers(a)) \in Nat /\ Cardinality(UploadThreads) \in Nat
  BY <1>2, WritersFinite
<1> QED BY <1>1, <1>2, <1>3, SMT DEF LateInv

(* Every step keeps the bound on late writes. *)
LEMMA LateStep ==
  ASSUME UploadTypeOK, UploadTypeOK', HandledInv, LateInv, [UploadNext]_upload_vars
  PROVE  LateInv'
<1> USE UploadAssumption DEF UploadTypeOK, UploadPoints, HandledInv, Writers, ChunkPoints,
   blob_vars, upload_threads, upload_history
<1>1. ASSUME NEW w \in UploadThreads, NEW a \in Uploads, InitQuota(w, a) PROVE LateInv'
  BY <1>1, LateKept DEF InitQuota, Starts
<1>2. ASSUME NEW w \in UploadThreads, InitMember(w) PROVE LateInv'
  BY <1>2, LateKept, SMT DEF InitMember, Proceed, Return
<1>3. ASSUME NEW w \in UploadThreads, InitCreate(w) PROVE LateInv'
  BY <1>3, LateKept, SMT DEF InitCreate, CreateAttachmentMeta, Return
<1>4. ASSUME NEW w \in UploadThreads, NEW a \in Uploads, NEW k \in Chunks, ChunkCheck(w, a, k) PROVE LateInv'
  BY <1>4, LateKept DEF ChunkCheck, Starts
<1>5. ASSUME NEW w \in UploadThreads, ChunkOpen(w) PROVE LateInv'
  BY <1>5, LateKept, SMT DEF ChunkOpen, Proceed
<1>6. ASSUME NEW w \in UploadThreads, ChunkCreate(w) PROVE LateInv'
  BY <1>6, LateKept DEF ChunkCreate
<1>7. ASSUME NEW w \in UploadThreads, ChunkWrite(w) PROVE LateInv'
  BY <1>7, LateWrite
<1>8. ASSUME NEW w \in UploadThreads, NEW a \in Uploads, FinalizeCheck(w, a) PROVE LateInv'
  BY <1>8, LateKept DEF FinalizeCheck, Starts
<1>9. ASSUME NEW w \in UploadThreads, FinalizeExists(w) PROVE LateInv'
  BY <1>9, LateKept, SMT DEF FinalizeExists, Proceed, Return
<1>10. ASSUME NEW w \in UploadThreads, FinalizeMark(w) PROVE LateInv'
  BY <1>10, LateMark
<1>11. ASSUME NEW w \in UploadThreads, ExpireBegin(w) PROVE LateInv'
  BY <1>11, LateKept DEF ExpireBegin, Starts, ExpiredAt
<1>12. ASSUME NEW w \in UploadThreads, ExpireRemove(w) PROVE LateInv'
  BY <1>12, LateKept, SMT DEF ExpireRemove
<1>13. ASSUME NEW w \in UploadThreads, ExpireRows(w) PROVE LateInv'
  BY <1>13, LateKept, SMT DEF ExpireRows, Return, ExpiredAt, HasRow
<1>14. ASSUME NEW u \in Removable, DeleteUser(u) PROVE LateInv'
  BY <1>14, LateKept DEF DeleteUser, HasRow
<1>15. CASE Tick
  BY <1>15, LateKept DEF Tick
<1>16. CASE Crash
  BY <1>16, LateKept DEF Crash
<1>17. CASE UNCHANGED upload_vars
  BY <1>17, LateKept DEF upload_vars
<1> QED BY <1>1, <1>2, <1>3, <1>4, <1>5, <1>6, <1>7, <1>8, <1>9, <1>10, <1>11, <1>12, <1>13, <1>14, <1>15, <1>16, <1>17
     DEF UploadNext, InitUpload, WriteChunk, FinalizeUpload, DeleteExpiredBlobs

(* Every step keeps what was answered. *)
LEMMA FirstChunkStep ==
  ASSUME UploadTypeOK, HandledInv, FreshInv, FirstChunkInv, [UploadNext]_upload_vars
  PROVE  FirstChunkInv'
<1> USE UploadAssumption DEF UploadTypeOK, UploadPoints, HandledInv, FreshInv, FirstChunkInv,
   HasRow, Old, Writers, ChunkPoints, AboutToCreate, blob_vars, upload_threads, upload_history
<1>1. ASSUME NEW w \in UploadThreads, NEW a \in Uploads, InitQuota(w, a) PROVE FirstChunkInv'
  BY <1>1, SMT DEF InitQuota, Starts
<1>2. ASSUME NEW w \in UploadThreads, InitMember(w) PROVE FirstChunkInv'
  BY <1>2, SMT DEF InitMember, Proceed, Return
<1>3. ASSUME NEW w \in UploadThreads, InitCreate(w) PROVE FirstChunkInv'
  BY <1>3, SMT DEF InitCreate, CreateAttachmentMeta, Return
<1>4. ASSUME NEW w \in UploadThreads, NEW a \in Uploads, NEW k \in Chunks, ChunkCheck(w, a, k) PROVE FirstChunkInv'
  BY <1>4, SMT DEF ChunkCheck, Starts
<1>5. ASSUME NEW w \in UploadThreads, ChunkOpen(w) PROVE FirstChunkInv'
  BY <1>5, SMT DEF ChunkOpen, Proceed
<1>6. ASSUME NEW w \in UploadThreads, ChunkCreate(w) PROVE FirstChunkInv'
  BY <1>6, SMT DEF ChunkCreate
<1>7. ASSUME NEW w \in UploadThreads, ChunkWrite(w) PROVE FirstChunkInv'
  BY <1>7, SMT DEF ChunkWrite, Return, RecordExposed
<1>8. ASSUME NEW w \in UploadThreads, NEW a \in Uploads, FinalizeCheck(w, a) PROVE FirstChunkInv'
  BY <1>8, SMT DEF FinalizeCheck, Starts
<1>9. ASSUME NEW w \in UploadThreads, FinalizeExists(w) PROVE FirstChunkInv'
  BY <1>9, SMT DEF FinalizeExists, Proceed, Return
<1>10. ASSUME NEW w \in UploadThreads, FinalizeMark(w) PROVE FirstChunkInv'
  BY <1>10, SMT DEF FinalizeMark, Return, HasRow
<1>11. ASSUME NEW w \in UploadThreads, ExpireBegin(w) PROVE FirstChunkInv'
  BY <1>11, SMT DEF ExpireBegin, Starts, ExpiredAt
<1>12. ASSUME NEW w \in UploadThreads, ExpireRemove(w) PROVE FirstChunkInv'
  BY <1>12, SMT DEF ExpireRemove
<1>13. ASSUME NEW w \in UploadThreads, ExpireRows(w) PROVE FirstChunkInv'
  BY <1>13, SMT DEF ExpireRows, Return, ExpiredAt, HasRow
<1>14. ASSUME NEW u \in Removable, DeleteUser(u) PROVE FirstChunkInv'
  BY <1>14, SMT DEF DeleteUser, HasRow
<1>15. CASE Tick
  BY <1>15, SMT DEF Tick
<1>16. CASE Crash
  BY <1>16 DEF Crash
<1>17. CASE UNCHANGED upload_vars
  BY <1>17, SMT DEF upload_vars
<1> QED BY <1>1, <1>2, <1>3, <1>4, <1>5, <1>6, <1>7, <1>8, <1>9, <1>10, <1>11, <1>12, <1>13, <1>14, <1>15, <1>16, <1>17
     DEF UploadNext, InitUpload, WriteChunk, FinalizeUpload, DeleteExpiredBlobs

(* SUM(file_size) over fewer rows is no more.                               *)
LEMMA BytesMonotone ==
  ASSUME NEW B \in SUBSET Uploads, NEW A \in SUBSET B
  PROVE  Cardinality(BytesOf(A)) <= Cardinality(BytesOf(B))
<1>1. BytesOf(A) \subseteq BytesOf(B)
  BY DEF BytesOf
<1> QED BY <1>1, BytesFinite, FS_Subset

(* SUM(file_size) with one row more.                                        *)
LEMMA BytesOfOneMore ==
  ASSUME NEW A \in SUBSET Uploads, NEW a \in Uploads \ A
  PROVE  Cardinality(BytesOf(A \cup {a})) = Cardinality(BytesOf(A)) + Size[a]
<1> DEFINE new == {a} \X (1..Size[a])
<1>1. Size[a] \in Nat
  BY UploadAssumption
<1>2. IsFiniteSet(1..Size[a]) /\ Cardinality(1..Size[a]) = Size[a]
  <2>1. /\ IsFiniteSet(1..Size[a])
        /\ Cardinality(1..Size[a]) = IF 1 > Size[a] THEN 0 ELSE Size[a] - 1 + 1
    BY <1>1, FS_Interval, SMT
  <2> QED BY <1>1, <2>1, SMT
<1>3. IsFiniteSet(new) /\ Cardinality(new) = Size[a]
  <2>1. IsFiniteSet({a}) /\ Cardinality({a}) = 1
    BY FS_Singleton
  <2>2. IsFiniteSet(new) /\ Cardinality(new) = Cardinality({a}) * Cardinality(1..Size[a])
    BY <1>2, <2>1, FS_Product
  <2> QED BY <1>1, <1>2, <2>1, <2>2, SMT
<1>4. BytesOf(A \cup {a}) = BytesOf(A) \cup new
  BY DEF BytesOf
<1>5. Cardinality(BytesOf(A) \cap new) = 0
  <2>1. ASSUME NEW x \in BytesOf(A), x \in new PROVE FALSE
    <3>1. PICK b \in A : x \in {b} \X (1..Size[b])
      BY DEF BytesOf
    <3>2. x[1] = b /\ x[1] = a
      BY <2>1, <3>1
    <3> QED BY <3>2
  <2>2. BytesOf(A) \cap new = {}
    BY <2>1
  <2> QED BY <2>2, FS_EmptySet
<1>6. IsFiniteSet(BytesOf(A)) /\ Cardinality(BytesOf(A)) \in Nat
  BY BytesFinite
<1>7. Cardinality(BytesOf(A) \cup new) =
        Cardinality(BytesOf(A)) + Cardinality(new) - Cardinality(BytesOf(A) \cap new)
  <2> HIDE DEF new
  <2> QED BY <1>3, <1>6, FS_Union
<1>8. Cardinality(BytesOf(A \cup {a})) = Cardinality(BytesOf(A)) + Size[a] - 0
  BY <1>3, <1>4, <1>5, <1>7
<1> QED BY <1>1, <1>6, <1>8, SMT

(* SUM(file_size) over two sets of rows.                                    *)
LEMMA BytesOfBoth ==
  ASSUME NEW A \in SUBSET Uploads, NEW B \in SUBSET Uploads
  PROVE  Cardinality(BytesOf(A \cup B)) <= Cardinality(BytesOf(A)) + Cardinality(BytesOf(B))
<1>1. BytesOf(A \cup B) = BytesOf(A) \cup BytesOf(B)
  BY DEF BytesOf
<1>2. /\ IsFiniteSet(BytesOf(A)) /\ Cardinality(BytesOf(A)) \in Nat
      /\ IsFiniteSet(BytesOf(B)) /\ Cardinality(BytesOf(B)) \in Nat
  BY BytesFinite
<1>3. Cardinality(BytesOf(A) \cup BytesOf(B)) = Cardinality(BytesOf(A))
        + Cardinality(BytesOf(B)) - Cardinality(BytesOf(A) \cap BytesOf(B))
  BY <1>2, FS_Union
<1>4. Cardinality(BytesOf(A) \cap BytesOf(B)) \in Nat
  BY <1>2, FS_Intersection, FS_CardinalityType
<1> DEFINE both == Cardinality(BytesOf(A) \cup BytesOf(B))
           x == Cardinality(BytesOf(A))
           y == Cardinality(BytesOf(B))
           z == Cardinality(BytesOf(A) \cap BytesOf(B))
<1>5. both <= x + y
  <2>1. both = x + y - z /\ x \in Nat /\ y \in Nat /\ z \in Nat
    BY <1>2, <1>3, <1>4
  <2> HIDE DEF both, x, y, z
  <2> QED BY <2>1, SMT
<1> QED BY <1>1, <1>5

(* What is claimed are uploads, so their bytes can be counted.              *)
LEMMA ClaimedBytes ==
  ASSUME NEW u
  PROVE  Claimed(u) \in SUBSET Uploads /\ Cardinality(BytesOf(Claimed(u))) \in Nat
<1>1. Claimed(u) \in SUBSET Uploads
  BY DEF Claimed, Finalized, UnderWay
<1> QED BY <1>1, BytesFinite

(* A step that claims nothing more keeps the bound.                         *)
LEMMA QuotaKept ==
  ASSUME UploadTypeOK, QuotaInv, beside' = beside,
         \A a \in Uploads : /\ Pending(a)' => Pending(a)
                            /\ meta'[a] = "complete" => meta[a] = "complete" \/ Pending(a)
  PROVE  QuotaInv'
<1> SUFFICES ASSUME NEW u \in Accounts
             PROVE  Cardinality(BytesOf(Claimed(u)')) <= Quota + beside[u]
  BY DEF QuotaInv, BytesOf
<1>1. Claimed(u)' \in SUBSET Claimed(u)
  BY DEF Claimed, Finalized, UnderWay
<1>2. /\ Cardinality(BytesOf(Claimed(u)')) <= Cardinality(BytesOf(Claimed(u)))
      /\ Cardinality(BytesOf(Claimed(u)')) \in Nat /\ Cardinality(BytesOf(Claimed(u))) \in Nat
  BY <1>1, ClaimedBytes, BytesMonotone, BytesFinite
<1>3. Cardinality(BytesOf(Claimed(u))) <= Quota + beside[u]
  BY DEF QuotaInv
<1>4. Quota \in Nat /\ beside[u] \in Nat
  BY UploadAssumption DEF UploadTypeOK
<1> QED BY <1>2, <1>3, <1>4, SMT

(* InitUpload: what is finalized and the new upload fit, the rest is beside *)
(* it.                                                                      *)
LEMMA QuotaInit ==
  ASSUME UploadTypeOK, UploadTypeOK', QuotaInv,
         NEW w \in UploadThreads, NEW a \in Uploads, InitQuota(w, a)
  PROVE  QuotaInv'
<1> SUFFICES ASSUME NEW u \in Accounts
             PROVE  Cardinality(BytesOf(Claimed(u)')) <= Quota + beside'[u]
  BY DEF QuotaInv, BytesOf
<1>1. /\ UNCHANGED meta /\ Quota \in Nat /\ Size[a] \in Nat
      /\ beside \in [Accounts -> Nat] /\ beside' \in [Accounts -> Nat]
      /\ GetStorageUsedByUser(Uploader[a]) + Size[a] <= Quota
      /\ RecordBeside(Uploader[a])
  BY UploadAssumption DEF InitQuota, UploadTypeOK
<1>2. \A b \in Uploads : Pending(b)' => b = a \/ Pending(b)
  BY DEF InitQuota, Starts, UploadTypeOK, Pending
<1>3. CASE u # Uploader[a]
  <2>1. Claimed(u)' \in SUBSET Claimed(u)
    BY <1>1, <1>2, <1>3 DEF Claimed, Finalized, UnderWay
  <2>2. /\ Cardinality(BytesOf(Claimed(u)')) <= Cardinality(BytesOf(Claimed(u)))
        /\ Cardinality(BytesOf(Claimed(u)')) \in Nat /\ Cardinality(BytesOf(Claimed(u))) \in Nat
    BY <2>1, ClaimedBytes, BytesMonotone, BytesFinite
  <2>3. Cardinality(BytesOf(Claimed(u))) <= Quota + beside[u] /\ beside'[u] = beside[u]
    BY <1>1, <1>3 DEF QuotaInv, RecordBeside
  <2> QED BY <1>1, <2>2, <2>3, SMT
<1>4. CASE u = Uploader[a]
  <2> DEFINE F == Finalized(u)
             P == UnderWay(u)
  <2>1. F \in SUBSET Uploads /\ P \in SUBSET Uploads /\ a \in Uploads \ F
    BY DEF InitQuota, Finalized, UnderWay
  <2>2. Claimed(u)' \in SUBSET ((F \cup {a}) \cup P)
    BY <1>1, <1>2 DEF Claimed, Finalized, UnderWay
  <2> HIDE DEF F, P
  <2>3. Cardinality(BytesOf(F \cup {a})) = Cardinality(BytesOf(F)) + Size[a]
    BY <2>1, BytesOfOneMore
  <2>4. Cardinality(BytesOf((F \cup {a}) \cup P))
          <= Cardinality(BytesOf(F \cup {a})) + Cardinality(BytesOf(P))
    BY <2>1, BytesOfBoth
  <2>5. Cardinality(BytesOf(Claimed(u)')) <= Cardinality(BytesOf((F \cup {a}) \cup P))
    BY <2>1, <2>2, BytesMonotone
  <2>6. Cardinality(BytesOf(F)) + Size[a] <= Quota
    BY <1>1, <1>4 DEF F, GetStorageUsedByUser
  <2>7. beside'[u] >= Cardinality(BytesOf(P))
    <3>1. beside'[u] = IF beside[u] < Cardinality(BytesOf(P))
                         THEN Cardinality(BytesOf(P)) ELSE beside[u]
      BY <1>1, <1>4 DEF RecordBeside, P
    <3>2. Cardinality(BytesOf(P)) \in Nat /\ beside[u] \in Nat
      BY <1>1, <2>1, BytesFinite
    <3> QED BY <3>1, <3>2, SMT
  <2>8. /\ Cardinality(BytesOf(P)) \in Nat /\ Cardinality(BytesOf(F)) \in Nat
        /\ Cardinality(BytesOf(F \cup {a})) \in Nat
        /\ Cardinality(BytesOf((F \cup {a}) \cup P)) \in Nat
        /\ Cardinality(BytesOf(Claimed(u)')) \in Nat /\ beside'[u] \in Nat
    BY <1>1, <2>1, <2>2, BytesFinite
  <2> QED BY <1>1, <2>3, <2>4, <2>5, <2>6, <2>7, <2>8, SMT
<1> QED BY <1>3, <1>4

(* Every step keeps the bound on what an account claims.                    *)
LEMMA QuotaStep ==
  ASSUME UploadTypeOK, UploadTypeOK', HandledInv, QuotaInv, [UploadNext]_upload_vars
  PROVE  QuotaInv'
<1> USE DEF UploadTypeOK, UploadPoints, HandledInv, Pending, blob_vars, upload_threads, upload_history
<1>1. ASSUME NEW w \in UploadThreads, NEW a \in Uploads, InitQuota(w, a) PROVE QuotaInv'
  BY <1>1, QuotaInit
<1>2. ASSUME NEW w \in UploadThreads, InitMember(w) PROVE QuotaInv'
  BY <1>2, QuotaKept, SMT DEF InitMember, Proceed, Return
<1>3. ASSUME NEW w \in UploadThreads, InitCreate(w) PROVE QuotaInv'
  BY <1>3, QuotaKept, SMT DEF InitCreate, CreateAttachmentMeta, Return
<1>4. ASSUME NEW w \in UploadThreads, NEW a \in Uploads, NEW k \in Chunks, ChunkCheck(w, a, k) PROVE QuotaInv'
  BY <1>4, QuotaKept DEF ChunkCheck, Starts
<1>5. ASSUME NEW w \in UploadThreads, ChunkOpen(w) PROVE QuotaInv'
  BY <1>5, QuotaKept, SMT DEF ChunkOpen, Proceed
<1>6. ASSUME NEW w \in UploadThreads, ChunkCreate(w) PROVE QuotaInv'
  BY <1>6, QuotaKept DEF ChunkCreate
<1>7. ASSUME NEW w \in UploadThreads, ChunkWrite(w) PROVE QuotaInv'
  BY <1>7, QuotaKept DEF ChunkWrite, Return
<1>8. ASSUME NEW w \in UploadThreads, NEW a \in Uploads, FinalizeCheck(w, a) PROVE QuotaInv'
  BY <1>8, QuotaKept DEF FinalizeCheck, Starts
<1>9. ASSUME NEW w \in UploadThreads, FinalizeExists(w) PROVE QuotaInv'
  BY <1>9, QuotaKept, SMT DEF FinalizeExists, Proceed, Return
<1>10. ASSUME NEW w \in UploadThreads, FinalizeMark(w) PROVE QuotaInv'
  BY <1>10, QuotaKept, SMT DEF FinalizeMark, Return, HasRow
<1>11. ASSUME NEW w \in UploadThreads, ExpireBegin(w) PROVE QuotaInv'
  BY <1>11, QuotaKept DEF ExpireBegin, Starts, ExpiredAt
<1>12. ASSUME NEW w \in UploadThreads, ExpireRemove(w) PROVE QuotaInv'
  BY <1>12, QuotaKept, SMT DEF ExpireRemove
<1>13. ASSUME NEW w \in UploadThreads, ExpireRows(w) PROVE QuotaInv'
  BY <1>13, QuotaKept, SMT DEF ExpireRows, Return, ExpiredAt, HasRow
<1>14. ASSUME NEW u \in Removable, DeleteUser(u) PROVE QuotaInv'
  BY <1>14, QuotaKept DEF DeleteUser, HasRow
<1>15. CASE Tick
  BY <1>15, QuotaKept DEF Tick
<1>16. CASE Crash
  BY <1>16, QuotaKept DEF Crash
<1>17. CASE UNCHANGED upload_vars
  BY <1>17, QuotaKept DEF upload_vars
<1> QED BY <1>1, <1>2, <1>3, <1>4, <1>5, <1>6, <1>7, <1>8, <1>9, <1>10, <1>11, <1>12, <1>13, <1>14, <1>15, <1>16, <1>17
     DEF UploadNext, InitUpload, WriteChunk, FinalizeUpload, DeleteExpiredBlobs

(* UploadInv holds in every reachable state. *)
THEOREM UploadInvariant == UploadSpec => []UploadInv
<1>1. ASSUME UploadInit PROVE UploadInv
  <2>1. UploadTypeOK /\ HandledInv /\ FreshInv /\ BlobInv
    BY <1>1, UploadAssumption, SMT DEF UploadInit, UploadTypeOK, UploadPoints, HandledInv,
       ChunkPoints, FreshInv, BlobInv
  <2>2. LateInv
    BY <1>1 DEF UploadInit, LateInv
  <2>3. FirstChunkInv
    BY <1>1 DEF UploadInit, FirstChunkInv, HasRow
  <2>4. QuotaInv
    <3> SUFFICES ASSUME NEW u \in Accounts
                 PROVE  Cardinality(BytesOf(Claimed(u))) <= Quota + beside[u]
      BY DEF QuotaInv
    <3>1. Claimed(u) = {}
      BY <1>1 DEF UploadInit, Claimed, Finalized, UnderWay, Pending
    <3>2. Cardinality(BytesOf({})) = 0
      BY FS_EmptySet DEF BytesOf
    <3>3. beside[u] = 0 /\ Quota \in Nat
      BY <1>1, UploadAssumption DEF UploadInit
    <3> QED BY <3>1, <3>2, <3>3, SMT
  <2> QED BY <2>1, <2>2, <2>3, <2>4 DEF UploadInv
<1>2. UploadInv /\ [UploadNext]_upload_vars => UploadInv'
  BY UploadTypeStep, HandledStep, FreshStep, BlobStep, LateStep, FirstChunkStep, QuotaStep DEF UploadInv
<1> QED BY <1>1, <1>2, PTL DEF UploadSpec

(* GetAttachment finds the blob of every finalized upload until its time,   *)
(* although the file is looked for, marked and removed in separate steps;   *)
(* and no more than one chunk per other thread reaches it afterwards.       *)
THEOREM BlobsStay == UploadSpec => []CompleteHasBlob
<1>1. ASSUME UploadInv, NEW a \in Uploads PROVE late[a] <= Cardinality(UploadThreads) - 1
  <2>1. /\ late[a] \in Nat /\ meta[a] \in {"unused", "open", "complete", "deleted"}
        /\ Cardinality(UploadThreads) \in Nat /\ Cardinality(UploadThreads) >= 1
        /\ Cardinality(Writers(a)) \in Nat
    BY <1>1, WritersFinite DEF UploadInv, UploadTypeOK
  <2>2. /\ meta[a] \in {"unused", "open"} => late[a] = 0
        /\ meta[a] = "complete" =>
             late[a] + Cardinality(Writers(a)) <= Cardinality(UploadThreads) - 1
        /\ meta[a] = "deleted" => late[a] <= Cardinality(UploadThreads) - 1
    BY <1>1 DEF UploadInv, LateInv
  <2> QED BY <2>1, <2>2, SMT
<1>2. UploadInv => CompleteHasBlob
  BY <1>1 DEF UploadInv, BlobInv, Old, CompleteHasBlob, ExpiredAt, HasRow
<1> QED BY <1>2, UploadInvariant, PTL

(* WriteChunk: a chunk answered with 200 stays in the file of an unexpired  *)
(* upload unless it was written while another thread, which had found no    *)
(* file, was about to create it.                                            *)
THEOREM AnsweredChunksStay == UploadSpec => []ChunksKept
<1>1. UploadInv => ChunksKept
  BY DEF UploadInv, FirstChunkInv, ChunksKept, Old, ExpiredAt
<1> QED BY <1>1, UploadInvariant, PTL

(* InitUpload compares the quota with finalized uploads only; an account    *)
(* exceeds it by no more than it had under way beside an upload.            *)
THEOREM QuotaHolds == UploadSpec => []QuotaOvershoot
<1>1. ASSUME UploadInv PROVE QuotaOvershoot
  <2> SUFFICES ASSUME NEW u \in Accounts
               PROVE  GetStorageUsedByUser(u) <= Quota + beside[u]
    BY DEF QuotaOvershoot
  <2>1. Finalized(u) \in SUBSET Claimed(u)
    BY DEF Claimed
  <2>2. /\ GetStorageUsedByUser(u) <= Cardinality(BytesOf(Claimed(u)))
        /\ GetStorageUsedByUser(u) \in Nat /\ Cardinality(BytesOf(Claimed(u))) \in Nat
    BY <2>1, ClaimedBytes, BytesMonotone, BytesFinite DEF GetStorageUsedByUser
  <2>3. Cardinality(BytesOf(Claimed(u))) <= Quota + beside[u]
    BY <1>1 DEF UploadInv, QuotaInv
  <2>4. Quota \in Nat /\ beside[u] \in Nat
    BY <1>1, UploadAssumption DEF UploadInv, UploadTypeOK
  <2> QED BY <2>2, <2>3, <2>4, SMT
<1> QED BY <1>1, UploadInvariant, PTL
=============================================================================
