--------------------------- MODULE TranscodeWorker ---------------------------
(***************************************************************************)
(* The transcoding worker (services/worker/internal/processor) together    *)
(* with the queue it drains and the tail of CompleteUpload that feeds it.  *)
(*                                                                         *)
(* A worker process runs a pool of goroutines (Procs), each of which       *)
(* claims one message, takes it through processJob and retires it. Between *)
(* two calls to the database, Redis or the object store every other        *)
(* goroutine may run, so each call is an action of its own; pc says which  *)
(* call a goroutine makes next. Faults lists what may go wrong, so that a  *)
(* run can say which failures a property survives.                         *)
(*                                                                         *)
(* Left out: logging, the worker's metric counters, the heartbeat key      *)
(* (nothing reads it), the contents of files and of database columns no    *)
(* property mentions. The scaler only limits how many slots are in use.    *)
(***************************************************************************)
EXTENDS TranscodeQueue

CONSTANTS Workers,       \* worker processes
          Procs,         \* goroutine slots of all worker processes
          WorkerOf,      \* the process a slot belongs to
          Corrupt,       \* jobs whose input ffmpeg cannot decode
          Faults,        \* what may go wrong
          PosterColumn   \* the videos table has a column poster_object_key

FaultKinds == {"db", "redis", "dup", "storage", "ffmpeg", "search",
               "api", "rawgone", "crash", "shutdown"}

ASSUME WorkerAssumption ==
  /\ WorkerOf \in [Procs -> Workers]
  /\ Corrupt \subseteq Jobs
  /\ Faults \subseteq FaultKinds
  /\ PosterColumn \in BOOLEAN

VARIABLES
  submitting,    \* jobs whose row exists and whose Enqueue is still to come
  jobStatus,     \* transcode_jobs.status
  dbAttempt,     \* transcode_jobs.attempt
  progress,      \* transcode_jobs.progress_percent: 0, 1 (under way), 2 (100)
  videoStatus,   \* videos.status
  claims,        \* artifacts the videos and video_renditions rows advertise
  raw,           \* jobs whose raw object is in the object store
  objects,       \* artifacts of a video that are in the object store
  docs,          \* videos in the search index
  up,            \* "up", or "stopping" once ctx is cancelled or the process died
  pc,            \* the next call of each goroutine
  held,          \* the message a goroutine works on, 0 if none
  made,          \* posterKey # "", hasDash, hasSubtitles of the current job
  permanent,     \* IsPermanent(err) of the failure being handled
  reports        \* progress writes started by stderr readers, not yet done

apiVars   == <<submitting, raw>>
jobVars   == <<jobStatus, dbAttempt, progress>>
mediaVars == <<videoStatus, claims, objects, docs>>
procVars  == <<pc, held, made, permanent>>
vars == <<queueVars, apiVars, jobVars, mediaVars, procVars, up, reports>>

Artifacts == {"hls", "poster", "dash", "subtitles"}

Working == {"claimed", "download", "transcode", "upload", "poster", "publish",
            "index", "dash", "subtitles", "flags", "complete"}
Retiring == {"ack", "failed", "bury", "requeue", "reenqueue"}

(* The goroutine has a message; the first set is processJob, whose work    *)
(* directory <workDir>/<job id> exists.                                    *)
Active(p) == pc[p] \in Working \cup Retiring

RowsTypeOK ==
  /\ submitting \subseteq Jobs
  /\ jobStatus \in [Jobs -> {"none", "pending", "running", "complete", "failed"}]
  /\ dbAttempt \in [Jobs -> Nat]
  /\ progress \in [Jobs -> 0 .. 2]
  /\ videoStatus \in [Jobs -> {"none", "queued", "ready"}]
  /\ claims \in [Jobs -> SUBSET Artifacts]
  /\ raw \subseteq Jobs
  /\ objects \in [Jobs -> SUBSET Artifacts]
  /\ docs \subseteq Jobs

ProcTypeOK ==
  /\ up \in [Workers -> {"up", "stopping"}]
  /\ pc \in [Procs -> Working \cup Retiring \cup {"idle", "stopped"}]
  /\ held \in [Procs -> Nat]
  /\ \A p \in Procs : Active(p) => held[p] \in 1 .. delivered
  /\ made \in [Procs -> SUBSET Artifacts]
  /\ permanent \in [Procs -> BOOLEAN]
  /\ reports \subseteq Workers \X Jobs

(* Types, and: a goroutine with a message has one that was delivered.      *)
TypeOK == QueueTypeOK /\ RowsTypeOK /\ ProcTypeOK

Init ==
  /\ QueueInit
  /\ submitting = {}
  /\ jobStatus = [j \in Jobs |-> "none"]
  /\ dbAttempt = [j \in Jobs |-> 0]
  /\ progress = [j \in Jobs |-> 0]
  /\ videoStatus = [j \in Jobs |-> "none"]
  /\ claims = [j \in Jobs |-> {}]
  /\ raw = {}
  /\ objects = [j \in Jobs |-> {}]
  /\ docs = {}
  /\ up = [w \in Workers |-> "up"]
  /\ pc = [p \in Procs |-> "idle"]
  /\ held = [p \in Procs |-> 0]
  /\ made = [p \in Procs |-> {}]
  /\ permanent = [p \in Procs |-> FALSE]
  /\ reports = {}

------------------------------------------------------------------------------
(* The tail of CompleteUpload. (What precedes it is in UploadSession.)     *)

(* INSERT INTO videos, INSERT INTO transcode_jobs.                         *)
InsertJob(j) ==
  /\ jobStatus[j] = "none"
  /\ jobStatus' = [jobStatus EXCEPT ![j] = "pending"]
  /\ videoStatus' = [videoStatus EXCEPT ![j] = "queued"]
  /\ submitting' = submitting \cup {j}
  /\ raw' = raw \cup {j}
  /\ UNCHANGED <<queueVars, dbAttempt, progress, claims, objects, docs, procVars,
                 up, reports>>

(* queue.Enqueue of a fresh job. An error is logged and swallowed; a crash *)
(* of the API before the call has the same effect as "err".                *)
SubmitJob(j) ==
  /\ j \in submitting
  /\ \E o \in {"ok"} \cup (IF "api" \in Faults THEN {"err", "lost"} ELSE {})
                     \cup ({"dup"} \cap Faults) :
        Enqueue(j, 0, o)
  /\ submitting' = submitting \ {j}
  /\ UNCHANGED <<raw, jobVars, mediaVars, procVars, up, reports>>

(* A CancelUpload that raced CompleteUpload deletes the raw object.        *)
LoseRaw(j) ==
  /\ "rawgone" \in Faults
  /\ j \in raw
  /\ raw' = raw \ {j}
  /\ UNCHANGED <<queueVars, submitting, jobVars, mediaVars, procVars, up, reports>>

------------------------------------------------------------------------------
(* Helpers of the goroutine's steps.                                       *)

JobOf(p) == stream[held[p]].job
AttemptOf(p) == stream[held[p]].attempt
Cancelled(p) == up[WorkerOf[p]] = "stopping"

(* How a call made with ctx can end. Once ctx is cancelled it returns an   *)
(* error, whether or not the server executed it.                           *)
Outcomes(p, service) ==
  IF Cancelled(p) THEN {"err", "lost"}
  ELSE {"ok"} \cup (IF service \in Faults THEN {"err", "lost"} ELSE {})

(* Local work on ffmpeg's account fails whatever ctx says.                 *)
FFmpegErr == IF "ffmpeg" \in Faults THEN {"err"} ELSE {}

Goto(p, label) == pc' = [pc EXCEPT ![p] = label]

(* processJob returns an error.                                            *)
Fail(p, isPerm) ==
  /\ Goto(p, "failed")
  /\ permanent' = [permanent EXCEPT ![p] = isPerm]

(* Seeded bug: the slot is never given back to the pool.                   *)
FinishLeaking(p) ==
  /\ Goto(p, "stopped")
  /\ held' = [held EXCEPT ![p] = 0]
  /\ made' = [made EXCEPT ![p] = {}]
  /\ permanent' = [permanent EXCEPT ![p] = FALSE]

(* The goroutine returns and frees its slot; a stopping Run takes the slot *)
(* for good (the drain loop).                                              *)
Finish(p) ==
  /\ Goto(p, IF Cancelled(p) THEN "stopped" ELSE "idle")
  /\ held' = [held EXCEPT ![p] = 0]
  /\ made' = [made EXCEPT ![p] = {}]
  /\ permanent' = [permanent EXCEPT ![p] = FALSE]

------------------------------------------------------------------------------
(* processNext: claim.                                                     *)

(* Seeded bug: the id is taken from the reply before this one.             *)
ClaimPrevious(p) ==
  /\ pc[p] = "idle"
  /\ ~ Cancelled(p)
  /\ Deliver
  /\ held' = [held EXCEPT ![p] = delivered]
  /\ Goto(p, "claimed")
  /\ UNCHANGED <<apiVars, jobVars, mediaVars, made, permanent, up, reports>>

(* Seeded bug: pending entries are claimed again, however fresh.           *)
ClaimAgain(p) ==
  /\ pc[p] = "idle"
  /\ ~ Cancelled(p)
  /\ \/ Deliver /\ held' = [held EXCEPT ![p] = delivered + 1]
     \/ \E i \in pel : UNCHANGED queueVars /\ held' = [held EXCEPT ![p] = i]
  /\ Goto(p, "claimed")
  /\ UNCHANGED <<apiVars, jobVars, mediaVars, made, permanent, up, reports>>

Claim(p) ==
  /\ pc[p] = "idle"
  /\ ~ Cancelled(p)
  /\ Deliver
  /\ held' = [held EXCEPT ![p] = delivered + 1]
  /\ Goto(p, "claimed")
  /\ UNCHANGED <<apiVars, jobVars, mediaVars, made, permanent, up, reports>>

(* The entry was delivered but the reply never arrived (or could not be    *)
(* read): it stays pending and nobody works on it.                         *)
ClaimLost(p) ==
  /\ pc[p] = "idle"
  /\ "redis" \in Faults \/ Cancelled(p)
  /\ Deliver
  /\ Finish(p)
  /\ UNCHANGED <<apiVars, jobVars, mediaVars, up, reports>>

(* A goroutine waiting in XREADGROUP when ctx is cancelled.                *)
StopIdle(p) ==
  /\ pc[p] = "idle"
  /\ Cancelled(p)
  /\ Finish(p)
  /\ UNCHANGED <<queueVars, apiVars, jobVars, mediaVars, up, reports>>

------------------------------------------------------------------------------
(* processJob.                                                             *)

UpdateJobRunning(p) ==
  /\ pc[p] = "claimed"
  /\ \E o \in Outcomes(p, "db") :
       /\ IF Executed(o)
          THEN /\ jobStatus' = [jobStatus EXCEPT ![JobOf(p)] = "running"]
               /\ dbAttempt' = [dbAttempt EXCEPT ![JobOf(p)] = @ + 1]
          ELSE UNCHANGED <<jobStatus, dbAttempt>>
       /\ IF Succeeded(o) THEN Goto(p, "download") /\ UNCHANGED permanent
                          ELSE Fail(p, FALSE)
  /\ UNCHANGED <<queueVars, apiVars, progress, mediaVars, held, made, up, reports>>

(* ClassifyStorageError: "not found" is permanent, anything else transient. *)
Download(p) ==
  /\ pc[p] = "download"
  /\ \/ /\ JobOf(p) \in raw
        /\ \E o \in Outcomes(p, "storage") :
             IF Succeeded(o) THEN Goto(p, "transcode") /\ UNCHANGED permanent
                             ELSE Fail(p, FALSE)
     \/ /\ JobOf(p) \notin raw
        /\ \E isPerm \in (IF Cancelled(p) THEN {FALSE} ELSE {TRUE})
                         \cup (IF "storage" \in Faults THEN {FALSE} ELSE {}) :
             Fail(p, isPerm)
  /\ UNCHANGED <<queueVars, apiVars, jobVars, mediaVars, held, made, up, reports>>

(* cmd.Wait after the HLS command. Its error is *exec.ExitError, "exit     *)
(* status N"; ffmpeg's own words went to the stderr pipe. No phrase of     *)
(* ffmpegPermanentPhrases occurs in it, so ClassifyFFmpegError always      *)
(* answers Transient.                                                      *)
Transcode(p) ==
  /\ pc[p] = "transcode"
  /\ \/ /\ JobOf(p) \notin Corrupt
        /\ Goto(p, "upload")
        /\ UNCHANGED permanent
     \/ /\ JobOf(p) \in Corrupt \/ FFmpegErr # {}
        /\ Fail(p, FALSE)
  /\ UNCHANGED <<queueVars, apiVars, jobVars, mediaVars, held, made, up, reports>>

(* The stderr reader saw a timecode and starts the progress update. It is  *)
(* not joined: the write may land long after cmd.Wait has returned.        *)
ReportProgress(p) ==
  /\ pc[p] = "transcode"
  /\ reports' = reports \cup {<<WorkerOf[p], JobOf(p)>>}
  /\ UNCHANGED <<queueVars, apiVars, jobVars, mediaVars, procVars, up>>

(* Seeded bug: the last report wins.                                       *)
LastProgress(old, pct) == pct

(* SET progress_percent = GREATEST(progress_percent, pct), pct at most 99. *)
GreatestProgress(old, pct) == IF old > pct THEN old ELSE pct

WriteProgress(r) ==
  /\ r \in reports
  /\ reports' = reports \ {r}
  /\ \/ progress' = [progress EXCEPT ![r[2]] = GreatestProgress(@, 1)]
     \/ /\ "db" \in Faults \/ up[r[1]] = "stopping"
        /\ UNCHANGED progress
  /\ UNCHANGED <<queueVars, apiVars, jobStatus, dbAttempt, mediaVars, procVars, up>>

(* PutObject of every file of the HLS directory. A 404 (no such bucket) is *)
(* permanent. "hls" is in objects once every file is.                      *)
UploadHLSOutputs(p) ==
  /\ pc[p] = "upload"
  /\ \E o \in Outcomes(p, "storage") :
       /\ objects' = IF Executed(o)
                     THEN [objects EXCEPT ![JobOf(p)] = @ \cup {"hls"}]
                     ELSE objects
       /\ IF Succeeded(o) THEN Goto(p, "poster") /\ UNCHANGED permanent
          ELSE \E isPerm \in BOOLEAN :
                 /\ isPerm => o = "err" /\ ~ Cancelled(p)
                 /\ Fail(p, isPerm)
  /\ UNCHANGED <<queueVars, apiVars, jobVars, videoStatus, claims, docs, held, made,
                 up, reports>>

(* Seeded bug: the key is kept although the upload failed.                 *)
AttachRegardless(p, label, artifact, next, outcomes) ==
  /\ pc[p] = label
  /\ \E o \in outcomes :
       objects' = IF Executed(o) THEN [objects EXCEPT ![JobOf(p)] = @ \cup {artifact}]
                  ELSE objects
  /\ made' = [made EXCEPT ![p] = @ \cup {artifact}]
  /\ Goto(p, next)
  /\ UNCHANGED <<queueVars, apiVars, jobVars, videoStatus, claims, docs, held,
                 permanent, up, reports>>

(* A step whose failure is only logged: produce an artifact and upload it. *)
(* made remembers what this very attempt uploaded without an error.        *)
Attach(p, label, artifact, next, outcomes) ==
  /\ pc[p] = label
  /\ \E o \in outcomes :
       /\ objects' = IF Executed(o)
                     THEN [objects EXCEPT ![JobOf(p)] = @ \cup {artifact}]
                     ELSE objects
       /\ made' = IF Succeeded(o) THEN [made EXCEPT ![p] = @ \cup {artifact}] ELSE made
  /\ Goto(p, next)
  /\ UNCHANGED <<queueVars, apiVars, jobVars, videoStatus, claims, docs, held,
                 permanent, up, reports>>

GenerateAndUploadThumbnail(p) ==
  Attach(p, "poster", "poster", "publish", Outcomes(p, "storage") \cup FFmpegErr)

(* Seeded bug: ON CONFLICT DO NOTHING on the renditions.                   *)
UpdateVideoReadyAgain(p) ==
  /\ pc[p] = "publish"
  /\ LET j == JobOf(p)
     IN  \E o \in Outcomes(p, "db") :
           /\ IF PosterColumn /\ Executed(o)
              THEN /\ videoStatus' = [videoStatus EXCEPT ![j] = "ready"]
                   /\ claims' = [claims EXCEPT ![j] =
                                   (@ \ {"poster"}) \cup {"hls"} \cup (made[p] \cap {"poster"})]
              ELSE UNCHANGED <<videoStatus, claims>>
           /\ IF PosterColumn /\ Succeeded(o) THEN Goto(p, "index") /\ UNCHANGED permanent
                                              ELSE Fail(p, FALSE)
  /\ UNCHANGED <<queueVars, apiVars, jobVars, objects, docs, held, made, up, reports>>

(* One transaction: UPDATE videos and one INSERT per rendition. It fails   *)
(* if the column is missing, and on the UNIQUE (video_id, name) of         *)
(* video_renditions if an earlier attempt already committed.               *)
UpdateVideoReady(p) ==
  /\ pc[p] = "publish"
  /\ LET j == JobOf(p)
         accepted == PosterColumn /\ "hls" \notin claims[j]
     IN  \E o \in Outcomes(p, "db") :
           /\ IF accepted /\ Executed(o)
              THEN /\ videoStatus' = [videoStatus EXCEPT ![j] = "ready"]
                   /\ claims' = [claims EXCEPT ![j] =
                                   (@ \ {"poster"}) \cup {"hls"} \cup (made[p] \cap {"poster"})]
              ELSE UNCHANGED <<videoStatus, claims>>
           /\ IF accepted /\ Succeeded(o) THEN Goto(p, "index") /\ UNCHANGED permanent
                                          ELSE Fail(p, FALSE)
  /\ UNCHANGED <<queueVars, apiVars, jobVars, objects, docs, held, made, up, reports>>

(* SELECT the video, then IndexVideo; an error of either is only logged.   *)
IndexVideoReady(p) ==
  /\ pc[p] = "index"
  /\ \E o \in Outcomes(p, "search") :
       docs' = IF Executed(o) THEN docs \cup {JobOf(p)} ELSE docs
  /\ Goto(p, "dash")
  /\ UNCHANGED <<queueVars, apiVars, jobVars, videoStatus, claims, objects, held, made,
                 permanent, up, reports>>

UploadDASHOutputs(p) ==
  Attach(p, "dash", "dash", "subtitles", Outcomes(p, "storage") \cup FFmpegErr)

(* ErrNoSubtitleStream is an everyday outcome, not a fault.                *)
UploadSubtitleVTT(p) ==
  Attach(p, "subtitles", "subtitles", "flags", Outcomes(p, "storage") \cup {"err"})

(* UPDATE videos SET has_dash, has_subtitles, unless both are false.       *)
UpdateFlags(p) ==
  /\ pc[p] = "flags"
  /\ LET extras == made[p] \cap {"dash", "subtitles"}
     IN  \E o \in Outcomes(p, "db") :
           claims' = IF extras # {} /\ Executed(o)
                     THEN [claims EXCEPT ![JobOf(p)] = (@ \ {"dash", "subtitles"}) \cup extras]
                     ELSE claims
  /\ Goto(p, "complete")
  /\ UNCHANGED <<queueVars, apiVars, jobVars, videoStatus, objects, docs, held, made,
                 permanent, up, reports>>

UpdateJobComplete(p) ==
  /\ pc[p] = "complete"
  /\ \E o \in Outcomes(p, "db") :
       /\ IF Executed(o)
          THEN /\ jobStatus' = [jobStatus EXCEPT ![JobOf(p)] = "complete"]
               /\ progress' = [progress EXCEPT ![JobOf(p)] = 2]
          ELSE UNCHANGED <<jobStatus, progress>>
       /\ IF Succeeded(o) THEN Goto(p, "ack") /\ UNCHANGED permanent
                          ELSE Fail(p, FALSE)
  /\ UNCHANGED <<queueVars, apiVars, dbAttempt, mediaVars, held, made, up, reports>>

------------------------------------------------------------------------------
(* processNext: after processJob.                                          *)

(* Seeded bug: a finished job is never acknowledged.                       *)
AckForgotten(p) ==
  /\ pc[p] = "ack"
  /\ Finish(p)
  /\ UNCHANGED <<queueVars, apiVars, jobVars, mediaVars, up, reports>>

AckDone(p) ==
  /\ pc[p] = "ack"
  /\ \E o \in Outcomes(p, "redis") : Ack(held[p], o)
  /\ Finish(p)
  /\ UNCHANGED <<apiVars, jobVars, mediaVars, up, reports>>

(* updateJobFailed ignores its error. What follows depends on the error's  *)
(* class and on NackWithAttempt's test.                                    *)
UpdateJobFailed(p) ==
  /\ pc[p] = "failed"
  /\ \E o \in Outcomes(p, "db") :
       jobStatus' = IF Executed(o) THEN [jobStatus EXCEPT ![JobOf(p)] = "failed"]
                    ELSE jobStatus
  /\ Goto(p, IF permanent[p] \/ Exhausted(AttemptOf(p)) THEN "bury" ELSE "requeue")
  /\ UNCHANGED <<queueVars, apiVars, dbAttempt, progress, mediaVars, held, made,
                 permanent, up, reports>>

(* Seeded bug: no return after MoveToDeadLetter, the job is retried too.   *)
BuryThenRetry(p) ==
  /\ pc[p] = "bury"
  /\ MoveToDeadLetter(held[p], [job |-> JobOf(p), attempt |-> AttemptOf(p),
                                origMsgID |-> held[p], permanent |-> permanent[p]], "ok")
  /\ Goto(p, "requeue")
  /\ UNCHANGED <<apiVars, jobVars, mediaVars, held, made, permanent, up, reports>>

(* MoveToDeadLetter, called directly or by NackWithAttempt, which has      *)
(* incremented job.Attempt.                                                *)
Bury(p) ==
  /\ pc[p] = "bury"
  /\ LET entry == [job       |-> JobOf(p),
                   attempt   |-> AttemptOf(p) + IF permanent[p] THEN 0 ELSE 1,
                   origMsgID |-> held[p],
                   permanent |-> permanent[p]]
         outcomes == Outcomes(p, "redis")
     IN  \E o \in outcomes \cup (IF "err" \in outcomes THEN {"half"} ELSE {}) :
           MoveToDeadLetter(held[p], entry, o)
  /\ Finish(p)
  /\ UNCHANGED <<apiVars, jobVars, mediaVars, up, reports>>

(* Seeded bug: the retry is enqueued before the Ack.                       *)
NackEnqueueFirst(p) ==
  /\ pc[p] = "requeue"
  /\ \E o \in Outcomes(p, "redis") :
       /\ Enqueue(JobOf(p), AttemptOf(p) + 1, o)
       /\ IF Succeeded(o) THEN Goto(p, "ack") /\ UNCHANGED <<held, made, permanent>>
                          ELSE Finish(p)
  /\ UNCHANGED <<apiVars, jobVars, mediaVars, up, reports>>

(* NackWithAttempt acks first and enqueues second.                         *)
NackAck(p) ==
  /\ pc[p] = "requeue"
  /\ \E o \in Outcomes(p, "redis") :
       /\ Ack(held[p], o)
       /\ IF Succeeded(o) THEN Goto(p, "reenqueue") /\ UNCHANGED <<held, made, permanent>>
                          ELSE Finish(p)
  /\ UNCHANGED <<apiVars, jobVars, mediaVars, up, reports>>

(* Seeded bug: the message is acknowledged and nothing is enqueued.        *)
NackDropped(p) ==
  /\ pc[p] = "reenqueue"
  /\ Finish(p)
  /\ UNCHANGED <<queueVars, apiVars, jobVars, mediaVars, up, reports>>

NackEnqueue(p) ==
  /\ pc[p] = "reenqueue"
  /\ \E o \in Outcomes(p, "redis") \cup ({"dup"} \cap Faults) :
       Enqueue(JobOf(p), AttemptOf(p) + 1, o)
  /\ Finish(p)
  /\ UNCHANGED <<apiVars, jobVars, mediaVars, up, reports>>

------------------------------------------------------------------------------
(* The process.                                                            *)

SlotsOf(w) == {p \in Procs : WorkerOf[p] = w}

(* SIGINT or SIGTERM: ctx is cancelled; Run starts no more goroutines and  *)
(* waits for the ones under way.                                           *)
Shutdown(w) ==
  /\ "shutdown" \in Faults
  /\ up[w] = "up"
  /\ up' = [up EXCEPT ![w] = "stopping"]
  /\ UNCHANGED <<queueVars, apiVars, jobVars, mediaVars, procVars, reports>>

(* The process dies: every goroutine is gone, what they did stays.         *)
Crash(w) ==
  /\ "crash" \in Faults
  /\ up' = [up EXCEPT ![w] = "stopping"]
  /\ pc' = [p \in Procs |-> IF p \in SlotsOf(w) THEN "stopped" ELSE pc[p]]
  /\ held' = [p \in Procs |-> IF p \in SlotsOf(w) THEN 0 ELSE held[p]]
  /\ made' = [p \in Procs |-> IF p \in SlotsOf(w) THEN {} ELSE made[p]]
  /\ permanent' = [p \in Procs |-> IF p \in SlotsOf(w) THEN FALSE ELSE permanent[p]]
  /\ reports' = {r \in reports : r[1] # w}
  /\ UNCHANGED <<queueVars, apiVars, jobVars, mediaVars>>

(* A new process takes over once Run has returned or the old one died.     *)
Restart(w) ==
  /\ up[w] = "stopping"
  /\ \A p \in SlotsOf(w) : pc[p] = "stopped"
  /\ up' = [up EXCEPT ![w] = "up"]
  /\ pc' = [p \in Procs |-> IF p \in SlotsOf(w) THEN "idle" ELSE pc[p]]
  /\ reports' = {r \in reports : r[1] # w}
  /\ UNCHANGED <<queueVars, apiVars, jobVars, mediaVars, held, made, permanent>>

(* Everything a goroutine does from its claim to its end.                  *)
Step(p) ==
  \/ Claim(p) \/ StopIdle(p)
  \/ UpdateJobRunning(p) \/ Download(p) \/ Transcode(p) \/ UploadHLSOutputs(p)
  \/ GenerateAndUploadThumbnail(p) \/ UpdateVideoReady(p) \/ IndexVideoReady(p)
  \/ UploadDASHOutputs(p) \/ UploadSubtitleVTT(p) \/ UpdateFlags(p)
  \/ UpdateJobComplete(p) \/ AckDone(p)
  \/ UpdateJobFailed(p) \/ Bury(p) \/ NackAck(p) \/ NackEnqueue(p)

Next ==
  \/ \E j \in Jobs : InsertJob(j) \/ SubmitJob(j) \/ LoseRaw(j)
  \/ \E p \in Procs : Step(p) \/ ClaimLost(p) \/ ReportProgress(p)
  \/ \E r \in Workers \X Jobs : WriteProgress(r)
  \/ \E w \in Workers : Shutdown(w) \/ Crash(w) \/ Restart(w)

Spec == Init /\ [][Next]_vars

(* A goroutine that can run does run, the API finishes its requests, a     *)
(* started database write ends, and the supervisor restarts a worker       *)
(* (restart: unless-stopped in docker-compose.prod.yml).                   *)
Fairness ==
  /\ \A j \in Jobs : WF_vars(SubmitJob(j))
  /\ \A p \in Procs : WF_vars(Step(p))
  /\ \A r \in Workers \X Jobs : WF_vars(WriteProgress(r))
  /\ \A w \in Workers : WF_vars(Restart(w))

FairSpec == Spec /\ Fairness

------------------------------------------------------------------------------
(* Properties.                                                             *)

Undelivered(i) == i \in delivered + 1 .. Len(stream)

(* Two goroutines are never at work on the same job, whichever worker they *)
(* run in: they would share the directory <workDir>/<job id>, and the one  *)
(* to finish first would remove it under the other (processor.go:192-196). *)
(* Nothing locks a job; what keeps them apart is that a retry is enqueued  *)
(* only after the goroutine has finished with the message it retries.      *)
JobMutex ==
  \A p, q \in Procs :
    Active(p) /\ Active(q) /\ JobOf(p) = JobOf(q) => p = q

(* A job is started at most MaxAttempts times, over all workers, crashes,  *)
(* restarts and lost replies, and no message carries an Attempt that the   *)
(* test of NackWithAttempt would have refused.                             *)
AttemptsBounded ==
  MaxAttempts > 0 =>
    /\ \A j \in Jobs : dbAttempt[j] <= MaxAttempts
    /\ \A i \in 1 .. Len(stream) : stream[i].attempt < MaxAttempts

(* What the database says a video has is in the object store, a video is   *)
(* 'ready' exactly when its renditions are recorded, and search only knows *)
(* ready videos: whatever step of an attempt failed or was done twice.     *)
MediaBacked ==
  /\ \A j \in Jobs : claims[j] \subseteq objects[j]
  /\ \A j \in Jobs : videoStatus[j] = "ready" <=> "hls" \in claims[j]
  /\ \A j \in docs : videoStatus[j] = "ready"

(* The dead-letter queue is the end: a job in it has no message to come,   *)
(* no goroutine at work, and is in it once.                                *)
DeadStaysDead ==
  \A e \in dlq :
    /\ \A i \in 1 .. Len(stream) : Undelivered(i) => stream[i].job # e.job
    /\ \A p \in Procs : Active(p) => JobOf(p) # e.job
    /\ \A f \in dlq : f.job = e.job => f = e

(* progress_percent never goes back, although stderr readers outlive the   *)
(* attempt they report on and write after its completion.                  *)
ProgressMonotone ==
  [][\A j \in Jobs : progress'[j] >= progress[j]]_vars

(* A published video is never published again: the retry of an attempt     *)
(* that failed after its commit leaves status, renditions and poster alone. *)
PublishedOnce ==
  [][\A j \in Jobs : "hls" \in claims[j] =>
       /\ videoStatus'[j] = "ready"
       /\ claims'[j] \cap {"hls", "poster"} = claims[j] \cap {"hls", "poster"}]_vars

(* What the rows say of a job never goes back: progress and publication.   *)
RowsAdvance == ProgressMonotone /\ PublishedOnce

Held(i) == \E p \in Procs : Active(p) /\ held[p] = i

(* A pending message is in the hands of a live goroutine, and an accepted  *)
(* upload is never forgotten: its job is about to be enqueued, waits in    *)
(* the stream, is being worked on, is complete, or is dead. (Only while    *)
(* Redis replies and no process dies or is shut down.)                     *)
NoJobForgotten ==
  /\ \A i \in pel : Held(i)
  /\ \A j \in Jobs : jobStatus[j] # "none" =>
       \/ j \in submitting
       \/ \E i \in 1 .. Len(stream) : Undelivered(i) /\ stream[i].job = j
       \/ \E p \in Procs : Active(p) /\ JobOf(p) = j
       \/ jobStatus[j] = "complete"
       \/ \E e \in dlq : e.job = j

(* Every accepted upload is eventually transcoded or in the dead-letter    *)
(* queue, for good.                                                        *)
Settles ==
  \A j \in Jobs :
    jobStatus[j] # "none" ~> [](jobStatus[j] = "complete" \/ \E e \in dlq : e.job = j)

(* metrics.go:17-18, of pending messages: "claimed by a consumer but not   *)
(* yet acknowledged (i.e., currently being processed or awaiting retry)".  *)
(* So, if all workers are up from some time on, the pending message of a   *)
(* job does not stay pending for ever.                                     *)
PendingIsResolved ==
  <>[](\A w \in Workers : up[w] = "up") =>
    \A j \in Jobs :
      (\E i \in pel : stream[i].job = j) ~> (\A i \in pel : stream[i].job # j)

(* The promise of JobLifecycle: its state is read off the rows, the        *)
(* goroutines and the dead-letter queue.                                   *)
Lifecycle == INSTANCE JobLifecycle WITH
  accepted  <- {j \in Jobs : jobStatus[j] # "none"},
  workers   <- [j \in Jobs |-> {p \in Procs : Active(p) /\ JobOf(p) = j}],
  attempts  <- dbAttempt,
  published <- {j \in Jobs : videoStatus[j] = "ready"},
  dead      <- {e.job : e \in dlq}

(* Every step of the pipeline, with its retries, lost replies, crashes and *)
(* shutdowns, is a step of JobLifecycle or invisible there (processor.go,  *)
(* queue.go): one goroutine at a time, at most MaxAttempts starts over all *)
(* workers, publication once and only by a goroutine at work, and no way   *)
(* back from the dead-letter queue.                                        *)
ImplementsLifecycle == Lifecycle!Spec
==============================================================================
