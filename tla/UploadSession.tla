---------------------------- MODULE UploadSession ----------------------------
(***************************************************************************)
(* The life of one upload session (handlers/upload.go, expiration.go): the *)
(* row of upload_sessions, the objects the upload leaves in the store, and *)
(* what CompleteUpload creates. A request handler reads the row first and  *)
(* acts on what it read; other requests run between any two of its calls,  *)
(* and nothing locks the row. Each member of Reqs is one HTTP request.     *)
(*                                                                         *)
(* A call that fails is "err" (not executed) or "lost" (executed, error    *)
(* returned); either ends the handler. A client that hangs up cancels the  *)
(* request's context, which looks the same. GetUploadStatus and            *)
(* ListUploadSessions only read and are left out.                          *)
(***************************************************************************)
EXTENDS Naturals, FiniteSets, Functions

CONSTANTS Reqs,         \* requests to the session
          ByteSize,     \* byte_size of the row
          Small,        \* byte_size is below the limit for presigned uploads
          MaxInFlight,  \* bound: requests open at once
          Faults        \* what may go wrong

UploadFaults == {"db", "storage", "infected", "presign", "queue"}

ASSUME UploadAssumption ==
  /\ IsFiniteSet(Reqs)
  /\ ByteSize \in Nat \ {0}
  /\ MaxInFlight \in Nat \ {0}
  /\ Small \in BOOLEAN
  /\ Faults \subseteq UploadFaults

VARIABLES
  width,      \* requests this client keeps open at once
  status,     \* upload_sessions.status
  received,   \* upload_sessions.received_bytes
  expired,    \* expires_at < now()
  presigned,  \* the client was given a presigned URL for the raw object
  raw,        \* the raw object is in the store
  stored,     \* bytes in chunk objects
  missed,     \* bytes in chunk objects whose request ended without counting them
  cleanup,    \* DeleteObject of the raw object: "none", "pending" or "over"
  videos,     \* videos rows created for the session
  jobs,       \* transcode_jobs rows created for the session
  enqueued,   \* messages enqueued for the session
  pc,         \* the next call of a request
  size        \* bytes in the body of a chunk request

rowVars   == <<status, received, expired, presigned>>
chunkVars == <<stored, missed>>
storeVars == <<raw, chunkVars, cleanup>>
mediaVars == <<videos, jobs, enqueued>>
vars == <<width, rowVars, storeVars, mediaVars, pc, size>>

TypeOK ==
  /\ width \in 1 .. MaxInFlight
  /\ status \in {"none", "pending", "uploading", "complete", "cancelled", "expired", "failed"}
  /\ received \in Nat
  /\ stored \in Nat
  /\ missed \in Nat
  /\ {expired, presigned, raw} \subseteq BOOLEAN
  /\ cleanup \in {"none", "pending", "over"}
  /\ {videos, jobs, enqueued} \subseteq 0 .. Cardinality(Reqs)
  /\ pc \in [Reqs -> {"new", "scan", "put", "count", "mark", "video", "job", "enqueue",
                      "cancel", "done"}]
  /\ size \in [Reqs -> 0 .. ByteSize]

Init ==
  /\ width \in 1 .. MaxInFlight
  /\ status = "none"
  /\ received = 0
  /\ stored = 0
  /\ missed = 0
  /\ expired = FALSE
  /\ presigned = FALSE
  /\ raw = FALSE
  /\ cleanup = "none"
  /\ videos = 0
  /\ jobs = 0
  /\ enqueued = 0
  /\ pc = [q \in Reqs |-> "new"]
  /\ size = [q \in Reqs |-> 0]

------------------------------------------------------------------------------
InFlight == {q \in Reqs : pc[q] \notin {"new", "done"}}

Outcomes(service) == {"ok"} \cup (IF service \in Faults THEN {"err", "lost"} ELSE {})
Executed(o) == o \in {"ok", "lost"}

Goto(q, label) == pc' = [pc EXCEPT ![q] = label]

(* The handler goes on if the call succeeded and answers 500 otherwise.    *)
Proceed(q, o, label) == Goto(q, IF o = "ok" THEN label ELSE "done")

(* A new request reads the row; it may be refused by what it finds.        *)
Arrives(q) ==
  /\ pc[q] = "new"
  /\ status # "none"
  /\ Cardinality(InFlight) < width

------------------------------------------------------------------------------
(* CreateSession: INSERT, then PresignPut, whose failure falls back to the *)
(* chunk endpoint.                                                         *)
CreateSession ==
  /\ status = "none"
  /\ status' = "pending"
  /\ presigned' \in {Small} \cup (IF "presign" \in Faults THEN {FALSE} ELSE {})
  /\ UNCHANGED <<width, received, expired, storeVars, mediaVars, pc, size>>

(* The client PUTs the file to the presigned URL, which is valid as long   *)
(* as the session.                                                         *)
ClientPut ==
  /\ presigned
  /\ ~ expired
  /\ raw' = TRUE
  /\ UNCHANGED <<width, rowVars, chunkVars, cleanup, mediaVars, pc, size>>

(* Two hours pass.                                                         *)
Expire ==
  /\ status # "none"
  /\ expired' = TRUE
  /\ UNCHANGED <<width, status, received, presigned, storeVars, mediaVars, pc, size>>

------------------------------------------------------------------------------
(* UploadChunk.                                                            *)

(* Seeded bug: the body is compared with the limit of the reader.          *)
ChunkReadLong(q) ==
  /\ Arrives(q)
  /\ status \in {"pending", "uploading"}
  /\ \E n \in 1 .. ByteSize + 1 : size' = [size EXCEPT ![q] = n]
  /\ Goto(q, "scan")
  /\ UNCHANGED <<width, rowVars, storeVars, mediaVars>>

(* SELECT byte_size, status, and the body, at most byte_size long.         *)
ChunkRead(q) ==
  /\ Arrives(q)
  /\ status \in {"pending", "uploading"}
  /\ \E n \in 1 .. ByteSize : size' = [size EXCEPT ![q] = n]
  /\ Goto(q, "scan")
  /\ UNCHANGED <<width, rowVars, storeVars, mediaVars>>

(* A scanner that fails is logged; an infected chunk fails the session,    *)
(* whatever became of it meanwhile, and the error of that UPDATE is        *)
(* ignored.                                                                *)
Scan(q) ==
  /\ pc[q] = "scan"
  /\ \/ /\ Goto(q, "put")
        /\ UNCHANGED status
     \/ /\ "infected" \in Faults
        /\ \E o \in Outcomes("db") : status' = IF Executed(o) THEN "failed" ELSE status
        /\ Goto(q, "done")
  /\ UNCHANGED <<width, received, expired, presigned, storeVars, mediaVars, size>>

(* PutObject under a fresh chunk key.                                      *)
PutChunk(q) ==
  /\ pc[q] = "put"
  /\ \E o \in Outcomes("storage") :
       /\ stored' = IF Executed(o) THEN stored + size[q] ELSE stored
       /\ missed' = IF o = "lost" THEN missed + size[q] ELSE missed
       /\ Proceed(q, o, "count")
  /\ UNCHANGED <<width, rowVars, raw, cleanup, mediaVars, size>>

(* Seeded bug: the count is set instead of increased.                      *)
CountChunkSet(q) ==
  /\ pc[q] = "count"
  /\ received' = size[q]
  /\ status' = "uploading"
  /\ Goto(q, "done")
  /\ UNCHANGED <<width, expired, presigned, storeVars, mediaVars, size>>

(* SET received_bytes = received_bytes + n, status = 'uploading', without  *)
(* a condition on the status.                                              *)
CountChunk(q) ==
  /\ pc[q] = "count"
  /\ \E o \in Outcomes("db") :
       IF Executed(o)
       THEN received' = received + size[q] /\ status' = "uploading" /\ UNCHANGED missed
       ELSE missed' = missed + size[q] /\ UNCHANGED <<received, status>>
  /\ Goto(q, "done")
  /\ UNCHANGED <<width, expired, presigned, raw, stored, cleanup, mediaVars, size>>

------------------------------------------------------------------------------
(* CompleteUpload.                                                         *)

(* Seeded bug: a completed session may be completed again.                 *)
CompleteReadAgain(q) ==
  /\ Arrives(q)
  /\ status # "cancelled"
  /\ Goto(q, "mark")
  /\ UNCHANGED <<width, rowVars, storeVars, mediaVars, size>>

(* Seeded bug: a cancelled session may be completed.                       *)
CompleteReadCancelled(q) ==
  /\ Arrives(q)
  /\ status # "complete"
  /\ Goto(q, "mark")
  /\ UNCHANGED <<width, rowVars, storeVars, mediaVars, size>>

CompleteRead(q) ==
  /\ Arrives(q)
  /\ status \notin {"complete", "cancelled"}
  /\ Goto(q, "mark")
  /\ UNCHANGED <<width, rowVars, storeVars, mediaVars, size>>

(* Seeded bug: completing also cleans up what was uploaded.                *)
MarkCompleteAndClean(q) ==
  /\ pc[q] = "mark"
  /\ \E o \in Outcomes("db") :
       /\ status' = IF Executed(o) THEN "complete" ELSE status
       /\ Proceed(q, o, "video")
  /\ cleanup' = "pending"
  /\ UNCHANGED <<width, received, expired, presigned, raw, chunkVars, mediaVars, size>>

MarkComplete(q) ==
  /\ pc[q] = "mark"
  /\ \E o \in Outcomes("db") :
       /\ status' = IF Executed(o) THEN "complete" ELSE status
       /\ Proceed(q, o, "video")
  /\ UNCHANGED <<width, received, expired, presigned, storeVars, mediaVars, size>>

InsertVideo(q) ==
  /\ pc[q] = "video"
  /\ \E o \in Outcomes("db") :
       /\ videos' = IF Executed(o) THEN videos + 1 ELSE videos
       /\ Proceed(q, o, "job")
  /\ UNCHANGED <<width, rowVars, storeVars, jobs, enqueued, size>>

InsertJob(q) ==
  /\ pc[q] = "job"
  /\ \E o \in Outcomes("db") :
       /\ jobs' = IF Executed(o) THEN jobs + 1 ELSE jobs
       /\ Proceed(q, o, "enqueue")
  /\ UNCHANGED <<width, rowVars, storeVars, videos, enqueued, size>>

(* queue.Enqueue; its error is logged and the request succeeds.            *)
EnqueueJob(q) ==
  /\ pc[q] = "enqueue"
  /\ \E o \in Outcomes("queue") : enqueued' = IF Executed(o) THEN enqueued + 1 ELSE enqueued
  /\ Goto(q, "done")
  /\ UNCHANGED <<width, rowVars, storeVars, videos, jobs, size>>

------------------------------------------------------------------------------
(* CancelUpload.                                                           *)

CancelRead(q) ==
  /\ Arrives(q)
  /\ status \notin {"complete", "cancelled", "expired"}
  /\ Goto(q, "cancel")
  /\ UNCHANGED <<width, rowVars, storeVars, mediaVars, size>>

(* The UPDATE, and on success the goroutine that deletes the raw object.   *)
MarkCancelled(q) ==
  /\ pc[q] = "cancel"
  /\ \E o \in Outcomes("db") :
       /\ status' = IF Executed(o) THEN "cancelled" ELSE status
       /\ cleanup' = IF o = "ok" THEN "pending" ELSE cleanup
  /\ Goto(q, "done")
  /\ UNCHANGED <<width, received, expired, presigned, raw, chunkVars, mediaVars, size>>

(* DeleteObject, 30 s at most; an error is logged.                         *)
DeleteRaw ==
  /\ cleanup = "pending"
  /\ cleanup' = "over"
  /\ \E o \in Outcomes("storage") : raw' = IF Executed(o) THEN FALSE ELSE raw
  /\ UNCHANGED <<width, rowVars, chunkVars, mediaVars, pc, size>>

(* expireSessions: one UPDATE ... RETURNING, then a deleting goroutine.    *)
(* (The server never starts the sweep; it may run here at any time.)       *)
ExpireSessions ==
  /\ expired
  /\ status \in {"pending", "uploading"}
  /\ status' = "expired"
  /\ cleanup' = "pending"
  /\ UNCHANGED <<width, received, expired, presigned, raw, chunkVars, mediaVars, pc, size>>

------------------------------------------------------------------------------
Next ==
  \/ CreateSession \/ ClientPut \/ Expire \/ DeleteRaw \/ ExpireSessions
  \/ \E q \in Reqs :
       \/ ChunkRead(q) \/ Scan(q) \/ PutChunk(q) \/ CountChunk(q)
       \/ CompleteRead(q) \/ MarkComplete(q) \/ InsertVideo(q) \/ InsertJob(q) \/ EnqueueJob(q)
       \/ CancelRead(q) \/ MarkCancelled(q)

Spec == Init /\ [][Next]_vars

------------------------------------------------------------------------------
(* Properties.                                                             *)

Uncounted == {q \in Reqs : pc[q] = "count"}

(* Every byte in the store is in received_bytes, belongs to a request that *)
(* is about to count it, or to one that ended in an error: however chunk   *)
(* requests overlap, none is counted twice, before it is stored, or lost.  *)
ReceivedIsStored ==
  received + missed + SumFunctionOnSet(size, Uncounted) = stored

(* A session becomes at most one video, if the client waits for the answer *)
(* to each request: whichever of its requests failed after taking effect.  *)
OneVideoIfPatient == width = 1 => videos <= 1

(* Once complete or cancelled, a session stays so, for such a client.      *)
EndedIsFinal ==
  [][(width = 1 /\ status \in {"complete", "cancelled"}) => status' = status]_vars

(* Before its session expires, the raw object of a video is never deleted  *)
(* by the clean-up of a cancelled session, for such a client.              *)
VideoKeepsRaw == width = 1 /\ ~ expired /\ videos > 0 => cleanup = "none"

(* The types, in particular that no chunk longer than byte_size is stored, *)
(* and the accounting of received_bytes.                                   *)
SessionInv == TypeOK /\ ReceivedIsStored

(* What an upload promises a client that waits for each answer: it becomes *)
(* one video, and while the session has not expired nothing deletes the    *)
(* file of that video.                                                     *)
PatientUpload == OneVideoIfPatient /\ VideoKeepsRaw
==============================================================================
