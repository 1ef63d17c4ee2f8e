------------------------ MODULE TranscodeWorkerProofs ------------------------
(***************************************************************************)
(* Proofs about TranscodeWorker, for every set of jobs, workers and        *)
(* goroutines, every MaxAttempts and every set of faults, and, at the end, *)
(* about the WorkerPool that decides how many goroutines a worker has.     *)
(***************************************************************************)
EXTENDS TranscodeWorker, WorkerPool, SequenceTheorems, FiniteSetTheorems, TLAPS

------------------------------------------------------------------------------
(* What the operations of the queue preserve.                              *)

(* Enqueue keeps the queue well-typed, appends at the end only, and leaves *)
(* everything but the stream alone.                                        *)
LEMMA EnqueueQueue ==
  ASSUME QueueTypeOK, NEW j \in Jobs, NEW a \in Nat, NEW o, Enqueue(j, a, o)
  PROVE  /\ QueueTypeOK'
         /\ UNCHANGED <<delivered, pel, dlq>>
         /\ Len(stream') >= Len(stream)
         /\ \A i \in 1 .. Len(stream) : stream'[i] = stream[i]
         /\ \A i \in 1 .. Len(stream') :
              i > Len(stream) => stream'[i] = [job |-> j, attempt |-> a]
         /\ o # "dup" => Len(stream') <= Len(stream) + 1
<1> DEFINE m == [job |-> j, attempt |-> a]
<1>1. m \in Message /\ stream \in Seq(Message)
  BY DEF Message, QueueTypeOK
<1> HIDE DEF m
<1>2. CASE stream' = stream
  BY <1>1, <1>2 DEF Enqueue, QueueTypeOK
<1>3. CASE o # "dup" /\ stream' = Append(stream, m)
  <2>1. /\ stream' \in Seq(Message)
        /\ Len(stream') = Len(stream) + 1
        /\ \A i \in 1 .. Len(stream) : stream'[i] = stream[i]
        /\ stream'[Len(stream) + 1] = m
    BY <1>1, <1>3, AppendProperties
  <2>2. Len(stream) \in Nat
    BY <1>1
  <2>3. \A i \in 1 .. Len(stream') : i > Len(stream) => stream'[i] = m
    BY <2>1, <2>2
  <2> QED BY <2>1, <2>2, <2>3 DEF Enqueue, QueueTypeOK, m
<1>4. CASE o = "dup" /\ stream' = Append(Append(stream, m), m)
  <2> DEFINE s1 == Append(stream, m)
  <2>1. /\ s1 \in Seq(Message)
        /\ Len(s1) = Len(stream) + 1
        /\ \A i \in 1 .. Len(stream) : s1[i] = stream[i]
        /\ s1[Len(stream) + 1] = m
    BY <1>1, AppendProperties
  <2> HIDE DEF s1
  <2>2. /\ stream' \in Seq(Message)
        /\ Len(stream') = Len(s1) + 1
        /\ \A i \in 1 .. Len(s1) : stream'[i] = s1[i]
        /\ stream'[Len(s1) + 1] = m
    BY <1>1, <1>4, <2>1, AppendProperties DEF s1
  <2>3. Len(stream) \in Nat
    BY <1>1
  <2>4. /\ \A i \in 1 .. Len(stream) : stream'[i] = stream[i]
        /\ \A i \in 1 .. Len(stream') : i > Len(stream) => stream'[i] = m
    BY <2>1, <2>2, <2>3
  <2> QED BY <1>4, <2>1, <2>2, <2>3, <2>4 DEF Enqueue, QueueTypeOK, m
<1> QED BY <1>2, <1>3, <1>4 DEF Enqueue, m

LEMMA DeliverQueue ==
  ASSUME QueueTypeOK, Deliver
  PROVE  QueueTypeOK' /\ delivered + 1 \in 1 .. delivered'
BY DEF Deliver, QueueTypeOK

LEMMA AckQueue ==
  ASSUME QueueTypeOK, NEW id, NEW o, Ack(id, o)
  PROVE  QueueTypeOK' /\ UNCHANGED <<stream, delivered, dlq>>
BY DEF Ack, QueueTypeOK

LEMMA DeadLetterQueue ==
  ASSUME QueueTypeOK, NEW id, NEW e \in DeadLetterEntry, NEW o,
         MoveToDeadLetter(id, e, o)
  PROVE  QueueTypeOK' /\ UNCHANGED <<stream, delivered>> /\ dlq' \in {dlq, dlq \cup {e}}
BY DEF MoveToDeadLetter, QueueTypeOK

------------------------------------------------------------------------------
(* Type correctness.                                                       *)

LEMMA TypeInit == Init => TypeOK
BY DEF Init, TypeOK, RowsTypeOK, ProcTypeOK, QueueInit, QueueTypeOK, Active, Working, Retiring

(* The message of an active goroutine is one of the stream.                *)
LEMMA HeldMessage ==
  ASSUME TypeOK, NEW p \in Procs, Active(p)
  PROVE  /\ held[p] \in 1 .. Len(stream)
         /\ JobOf(p) \in Jobs
         /\ AttemptOf(p) \in Nat
<1>1. held[p] \in 1 .. Len(stream) /\ stream \in Seq(Message)
  BY DEF TypeOK, QueueTypeOK, ProcTypeOK
<1>2. stream[held[p]] \in Message
  BY <1>1
<1> QED BY <1>1, <1>2 DEF JobOf, AttemptOf, Message

LEMMA TypeNext == TypeOK /\ [Next]_vars => TypeOK'
<1> SUFFICES ASSUME TypeOK, [Next]_vars PROVE TypeOK'
  OBVIOUS
<1> USE WorkerAssumption DEF TypeOK, RowsTypeOK, ProcTypeOK
<1>1. ASSUME NEW j \in Jobs, InsertJob(j) PROVE TypeOK'
  BY <1>1 DEF InsertJob, queueVars, procVars, Active, QueueTypeOK
<1>2. ASSUME NEW j \in Jobs, SubmitJob(j) PROVE TypeOK'
  <2>1. QueueTypeOK' /\ UNCHANGED delivered
    BY <1>2, EnqueueQueue DEF SubmitJob
  <2> QED BY <1>2, <2>1 DEF SubmitJob, jobVars, mediaVars, procVars, Active
<1>3. ASSUME NEW j \in Jobs, LoseRaw(j) PROVE TypeOK'
  BY <1>3 DEF LoseRaw, queueVars, jobVars, mediaVars, procVars, Active, QueueTypeOK
<1>4. ASSUME NEW p \in Procs, Claim(p) PROVE TypeOK'
  BY <1>4, DeliverQueue DEF Claim, Deliver, apiVars, jobVars, mediaVars, Active, Goto,
     QueueTypeOK, Working
<1>5. ASSUME NEW p \in Procs, ClaimLost(p) PROVE TypeOK'
  BY <1>5, DeliverQueue DEF ClaimLost, Deliver, apiVars, jobVars, mediaVars, Active, Goto,
     Finish, QueueTypeOK, Working, Retiring
<1>6. ASSUME NEW p \in Procs, StopIdle(p) PROVE TypeOK'
  BY <1>6 DEF StopIdle, queueVars, apiVars, jobVars, mediaVars, Active, Goto, Finish,
     QueueTypeOK, Working, Retiring
<1>7. ASSUME NEW p \in Procs, UpdateJobRunning(p) PROVE TypeOK'
  <2>1. Active(p) /\ JobOf(p) \in Jobs
    BY <1>7, HeldMessage DEF UpdateJobRunning, Active, Working
  <2>2. RowsTypeOK'
    BY <1>7, <2>1 DEF UpdateJobRunning, apiVars, mediaVars
  <2>3. QueueTypeOK' /\ ProcTypeOK'
    <3>1. QueueTypeOK'
      BY <1>7 DEF UpdateJobRunning, queueVars, QueueTypeOK
    <3>2. ProcTypeOK'
      <4>1. /\ UNCHANGED <<delivered, held, made, up, reports>>
            /\ pc[p] = "claimed"
            /\ permanent' = permanent \/ permanent' = [permanent EXCEPT ![p] = FALSE]
            /\ \E l \in Working \cup Retiring : pc' = [pc EXCEPT ![p] = l]
        BY <1>7 DEF UpdateJobRunning, queueVars, Goto, Fail, Working, Retiring
      <4>2. \A q \in Procs : Active(q)' => Active(q)
        BY <4>1 DEF Active, Working
      <4> QED BY <4>1, <4>2
    <3> QED BY <3>1, <3>2
  <2> QED BY <2>2, <2>3
<1>8. ASSUME NEW p \in Procs, Download(p) PROVE TypeOK'
  <2>1. QueueTypeOK' /\ RowsTypeOK'
    BY <1>8 DEF Download, queueVars, apiVars, jobVars, mediaVars, QueueTypeOK
  <2>2. ASSUME NEW isPerm \in BOOLEAN, Fail(p, isPerm) PROVE ProcTypeOK'
    BY <1>8, <2>2 DEF Download, queueVars, Active, Goto, Fail, Working, Retiring
  <2>3. ASSUME Goto(p, "transcode"), UNCHANGED permanent PROVE ProcTypeOK'
    BY <1>8, <2>3 DEF Download, queueVars, Active, Goto, Working
  <2> HIDE DEF TypeOK, RowsTypeOK, ProcTypeOK
  <2>4. \/ Goto(p, "transcode") /\ UNCHANGED permanent
        \/ \E isPerm \in BOOLEAN : Fail(p, isPerm)
    BY <1>8 DEF Download
  <2>5. ProcTypeOK'
    BY <2>2, <2>3, <2>4
  <2> QED BY <2>1, <2>5 DEF TypeOK
<1>9. ASSUME NEW p \in Procs, Transcode(p) PROVE TypeOK'
  BY <1>9 DEF Transcode, queueVars, apiVars, jobVars, mediaVars, Active, Goto,
     Fail, QueueTypeOK, Working, Retiring
<1>10. ASSUME NEW p \in Procs, ReportProgress(p) PROVE TypeOK'
  <2>1. Active(p) /\ JobOf(p) \in Jobs
    BY <1>10, HeldMessage DEF ReportProgress, Active, Working
  <2> QED BY <1>10, <2>1 DEF ReportProgress, queueVars, apiVars, jobVars, mediaVars, procVars,
     Active, QueueTypeOK
<1>11. ASSUME NEW r \in Workers \X Jobs, WriteProgress(r) PROVE TypeOK'
  <2>1. QueueTypeOK' /\ ProcTypeOK'
    BY <1>11 DEF WriteProgress, queueVars, procVars, Active, QueueTypeOK
  <2>2. r[2] \in Jobs /\ GreatestProgress(progress[r[2]], 1) \in 0 .. 2
    BY DEF GreatestProgress
  <2>3. progress' \in [Jobs -> 0 .. 2]
    BY <1>11, <2>2 DEF WriteProgress
  <2>4. RowsTypeOK'
    BY <1>11, <2>3 DEF WriteProgress, apiVars, mediaVars
  <2> QED BY <2>1, <2>4
<1>12. ASSUME NEW p \in Procs, UploadHLSOutputs(p) PROVE TypeOK'
  <2>1. Active(p) /\ JobOf(p) \in Jobs
    BY <1>12, HeldMessage DEF UploadHLSOutputs, Active, Working
  <2>2. QueueTypeOK' /\ RowsTypeOK'
    BY <1>12, <2>1 DEF UploadHLSOutputs, queueVars, apiVars, jobVars, QueueTypeOK, Artifacts
  <2>3. ASSUME NEW isPerm \in BOOLEAN, Fail(p, isPerm) PROVE ProcTypeOK'
    BY <1>12, <2>3 DEF UploadHLSOutputs, queueVars, Active, Goto, Fail, Working, Retiring
  <2>4. ASSUME Goto(p, "poster"), UNCHANGED permanent PROVE ProcTypeOK'
    BY <1>12, <2>4 DEF UploadHLSOutputs, queueVars, Active, Goto, Working
  <2> QED BY <1>12, <2>2, <2>3, <2>4 DEF UploadHLSOutputs
<1>13. ASSUME NEW p \in Procs, NEW label \in Working, NEW artifact \in Artifacts,
              NEW next \in Working, NEW outcomes,
              Attach(p, label, artifact, next, outcomes)
       PROVE  TypeOK'
  <2>1. Active(p) /\ JobOf(p) \in Jobs
    BY <1>13, HeldMessage DEF Attach, Active
  <2> QED BY <1>13, <2>1 DEF Attach, queueVars, apiVars, jobVars, Active, Goto, QueueTypeOK
<1>14. ASSUME NEW p \in Procs,
              GenerateAndUploadThumbnail(p) \/ UploadDASHOutputs(p) \/ UploadSubtitleVTT(p)
       PROVE  TypeOK'
  <2>1. /\ {"poster", "publish", "dash", "subtitles", "flags"} \subseteq Working
        /\ {"poster", "dash", "subtitles"} \subseteq Artifacts
    BY DEF Working, Artifacts
  <2> HIDE DEF TypeOK, RowsTypeOK, ProcTypeOK
  <2>2. CASE GenerateAndUploadThumbnail(p)
    BY <1>13, <2>1, <2>2 DEF GenerateAndUploadThumbnail
  <2>3. CASE UploadDASHOutputs(p)
    BY <1>13, <2>1, <2>3 DEF UploadDASHOutputs
  <2>4. CASE UploadSubtitleVTT(p)
    BY <1>13, <2>1, <2>4 DEF UploadSubtitleVTT
  <2> QED BY <1>14, <2>2, <2>3, <2>4
<1>15. ASSUME NEW p \in Procs, UpdateVideoReady(p) PROVE TypeOK'
  <2>1. Active(p) /\ JobOf(p) \in Jobs
    BY <1>15, HeldMessage DEF UpdateVideoReady, Active, Working
  <2>2. QueueTypeOK' /\ RowsTypeOK'
    <3>1. videoStatus' \in [Jobs -> {"none", "queued", "ready"}]
      BY <1>15, <2>1 DEF UpdateVideoReady
    <3>2. claims' \in [Jobs -> SUBSET Artifacts]
      BY <1>15, <2>1 DEF UpdateVideoReady, Artifacts
    <3> QED BY <1>15, <3>1, <3>2
        DEF UpdateVideoReady, queueVars, apiVars, jobVars, QueueTypeOK
  <2>3. ProcTypeOK'
    <3>1. /\ UNCHANGED <<delivered, held, made, up, reports>>
          /\ pc[p] = "publish"
          /\ permanent' = permanent \/ permanent' = [permanent EXCEPT ![p] = FALSE]
          /\ \E l \in Working \cup Retiring : pc' = [pc EXCEPT ![p] = l]
      BY <1>15 DEF UpdateVideoReady, queueVars, Goto, Fail, Working, Retiring
    <3>2. \A q \in Procs : Active(q)' => Active(q)
      BY <3>1 DEF Active, Working
    <3> QED BY <3>1, <3>2
  <2> QED BY <2>2, <2>3
<1>16. ASSUME NEW p \in Procs, IndexVideoReady(p) PROVE TypeOK'
  <2>1. Active(p) /\ JobOf(p) \in Jobs
    BY <1>16, HeldMessage DEF IndexVideoReady, Active, Working
  <2> QED BY <1>16, <2>1 DEF IndexVideoReady, queueVars, apiVars, jobVars, Active, Goto,
     QueueTypeOK, Working
<1>17. ASSUME NEW p \in Procs, UpdateFlags(p) PROVE TypeOK'
  <2>1. Active(p) /\ JobOf(p) \in Jobs
    BY <1>17, HeldMessage DEF UpdateFlags, Active, Working
  <2> QED BY <1>17, <2>1 DEF UpdateFlags, queueVars, apiVars, jobVars, Active, Goto,
     QueueTypeOK, Working, Artifacts
<1>18. ASSUME NEW p \in Procs, UpdateJobComplete(p) PROVE TypeOK'
  <2>1. Active(p) /\ JobOf(p) \in Jobs
    BY <1>18, HeldMessage DEF UpdateJobComplete, Active, Working
  <2>2. QueueTypeOK' /\ RowsTypeOK'
    <3>1. jobStatus' \in [Jobs -> {"none", "pending", "running", "complete", "failed"}]
      BY <1>18, <2>1 DEF UpdateJobComplete
    <3>2. progress' \in [Jobs -> 0 .. 2]
      BY <1>18, <2>1 DEF UpdateJobComplete
    <3> QED BY <1>18, <3>1, <3>2
        DEF UpdateJobComplete, queueVars, apiVars, mediaVars, QueueTypeOK
  <2>3. ProcTypeOK'
    <3>1. /\ UNCHANGED <<delivered, held, made, up, reports>>
          /\ pc[p] = "complete"
          /\ permanent' = permanent \/ permanent' = [permanent EXCEPT ![p] = FALSE]
          /\ \E l \in Working \cup Retiring : pc' = [pc EXCEPT ![p] = l]
      BY <1>18 DEF UpdateJobComplete, queueVars, Goto, Fail, Working, Retiring
    <3>2. \A q \in Procs : Active(q)' => Active(q)
      BY <3>1 DEF Active, Working
    <3> QED BY <3>1, <3>2
  <2> QED BY <2>2, <2>3
<1>19. ASSUME NEW p \in Procs, AckDone(p) PROVE TypeOK'
  <2>1. QueueTypeOK' /\ UNCHANGED delivered
    BY <1>19, AckQueue DEF AckDone
  <2> QED BY <1>19, <2>1 DEF AckDone, apiVars, jobVars, mediaVars, Active, Goto, Finish,
     Working, Retiring
<1>20. ASSUME NEW p \in Procs, UpdateJobFailed(p) PROVE TypeOK'
  <2>1. Active(p) /\ JobOf(p) \in Jobs
    BY <1>20, HeldMessage DEF UpdateJobFailed, Active, Retiring
  <2> QED BY <1>20, <2>1 DEF UpdateJobFailed, queueVars, apiVars, mediaVars, Active, Goto,
     QueueTypeOK, Working, Retiring
<1>21. ASSUME NEW p \in Procs, Bury(p) PROVE TypeOK'
  <2>1. JobOf(p) \in Jobs /\ AttemptOf(p) \in Nat /\ permanent[p] \in BOOLEAN /\ held[p] \in Nat
    BY <1>21, HeldMessage DEF Bury, Active, Retiring
  <2> DEFINE entry == [job       |-> JobOf(p),
                       attempt   |-> AttemptOf(p) + IF permanent[p] THEN 0 ELSE 1,
                       origMsgID |-> held[p],
                       permanent |-> permanent[p]]
  <2>2. entry \in DeadLetterEntry
    BY <2>1 DEF DeadLetterEntry
  <2>3. \E o : MoveToDeadLetter(held[p], entry, o)
    BY <1>21 DEF Bury
  <2> HIDE DEF entry
  <2>4. QueueTypeOK' /\ UNCHANGED delivered
    BY <2>2, <2>3, DeadLetterQueue
  <2> QED BY <1>21, <2>4 DEF Bury, apiVars, jobVars, mediaVars, Active, Goto, Finish,
     Working, Retiring
<1>22. ASSUME NEW p \in Procs, NackAck(p) PROVE TypeOK'
  <2>1. QueueTypeOK' /\ UNCHANGED delivered
    BY <1>22, AckQueue DEF NackAck
  <2>2. RowsTypeOK'
    BY <1>22 DEF NackAck, apiVars, jobVars, mediaVars
  <2>3. ASSUME Finish(p) PROVE ProcTypeOK'
    BY <1>22, <2>1, <2>3 DEF NackAck, Active, Goto, Finish, Working, Retiring
  <2>4. ASSUME Goto(p, "reenqueue"), UNCHANGED <<held, made, permanent>> PROVE ProcTypeOK'
    BY <1>22, <2>1, <2>4 DEF NackAck, Active, Goto, Working, Retiring
  <2> QED BY <1>22, <2>1, <2>2, <2>3, <2>4 DEF NackAck
<1>23. ASSUME NEW p \in Procs, NackEnqueue(p) PROVE TypeOK'
  <2>1. JobOf(p) \in Jobs /\ AttemptOf(p) + 1 \in Nat
    BY <1>23, HeldMessage DEF NackEnqueue, Active, Retiring
  <2>2. QueueTypeOK' /\ UNCHANGED delivered
    BY <1>23, <2>1, EnqueueQueue DEF NackEnqueue
  <2> QED BY <1>23, <2>2 DEF NackEnqueue, apiVars, jobVars, mediaVars, Active, Goto, Finish,
     Working, Retiring
<1>24. ASSUME NEW w \in Workers, Shutdown(w) PROVE TypeOK'
  BY <1>24 DEF Shutdown, queueVars, apiVars, jobVars, mediaVars, procVars, Active, QueueTypeOK
<1>25. ASSUME NEW w \in Workers, Crash(w) PROVE TypeOK'
  BY <1>25 DEF Crash, queueVars, apiVars, jobVars, mediaVars, Active, QueueTypeOK, Working,
     Retiring
<1>26. ASSUME NEW w \in Workers, Restart(w) PROVE TypeOK'
  BY <1>26 DEF Restart, queueVars, apiVars, jobVars, mediaVars, Active, QueueTypeOK, Working,
     Retiring
<1>27. CASE UNCHANGED vars
  BY <1>27 DEF vars, queueVars, apiVars, jobVars, mediaVars, procVars, Active, QueueTypeOK
<1> QED
  BY <1>1, <1>2, <1>3, <1>4, <1>5, <1>6, <1>7, <1>8, <1>9, <1>10, <1>11, <1>12, <1>14,
     <1>15, <1>16, <1>17, <1>18, <1>19, <1>20, <1>21, <1>22, <1>23, <1>24, <1>25, <1>26,
     <1>27 DEF Next, Step

(* Every state the workers reach is well-typed; in particular a goroutine  *)
(* that has a message has one that was delivered.                          *)
THEOREM TypeCorrect == Spec => []TypeOK
BY TypeInit, TypeNext, PTL DEF Spec

------------------------------------------------------------------------------
(* The queue discipline, when XADD is not executed twice. Its parts:       *)

(* A message is held by at most one goroutine.                             *)
OneHolder ==
  \A p, q \in Procs : Active(p) /\ Active(q) /\ held[p] = held[q] => p = q

(* A job that was not enqueued yet has no message and was never started.   *)
FreshJobs ==
  /\ \A j \in submitting : jobStatus[j] # "none"
  /\ \A j \in Jobs : j \in submitting \/ jobStatus[j] = "none" =>
       /\ dbAttempt[j] = 0
       /\ \A i \in 1 .. Len(stream) : stream[i].job # j

(* Of two messages of one job the earlier has the smaller Attempt, was     *)
(* delivered, and is out of every goroutine's hands.                       *)
Superseded ==
  \A i, k \in 1 .. Len(stream) : i < k /\ stream[i].job = stream[k].job =>
    /\ stream[i].attempt < stream[k].attempt
    /\ i <= delivered
    /\ \A p \in Procs : Active(p) => held[p] # i

(* The Attempt of the message that is to run or running bounds how often   *)
(* its job was started.                                                    *)
AttemptCount ==
  /\ \A i \in 1 .. Len(stream) : i > delivered => dbAttempt[stream[i].job] <= stream[i].attempt
  /\ \A p \in Procs : Active(p) =>
       dbAttempt[JobOf(p)] <= AttemptOf(p) + (IF pc[p] = "claimed" THEN 0 ELSE 1)

(* Only a message with attempts left is on its way back into the stream.   *)
RetryAllowed ==
  \A p \in Procs : pc[p] \in {"requeue", "reenqueue"} => ~ Exhausted(AttemptOf(p))

(* A dead-lettered message was the last of its job and is in nobody's hands. *)
DeadIsLast ==
  \A e \in dlq :
    /\ e.origMsgID \in 1 .. delivered
    /\ stream[e.origMsgID].job = e.job
    /\ \A i \in 1 .. Len(stream) : stream[i].job = e.job => i <= e.origMsgID
    /\ \A p \in Procs : Active(p) => held[p] # e.origMsgID
    /\ \A f \in dlq : f.job = e.job => f = e

QueueInv ==
  /\ OneHolder
  /\ FreshJobs
  /\ Superseded
  /\ AttemptCount
  /\ RetryAllowed
  /\ AttemptsBounded
  /\ DeadIsLast

LEMMA QueueInvInit == Init => QueueInv
BY MaxAttemptsAssumption DEF Init, QueueInit, QueueInv, OneHolder, FreshJobs, Superseded,
   AttemptCount, RetryAllowed, AttemptsBounded, DeadIsLast, Active, Working, Retiring

(* QueueInv makes no demand on a goroutine that has no message, so it      *)
(* survives every step that only lets goroutines go on or leave.           *)
GoesOn(q) ==
  Active(q)' =>
    /\ Active(q)
    /\ held'[q] = held[q]
    /\ pc'[q] = "claimed" => pc[q] = "claimed"
    /\ pc'[q] \in {"requeue", "reenqueue"} =>
         pc[q] \in {"requeue", "reenqueue"} \/ ~ Exhausted(AttemptOf(q))

LEMMA QueueInvFrame ==
  ASSUME TypeOK, QueueInv,
         UNCHANGED <<stream, delivered, dlq, submitting, dbAttempt>>,
         \A j \in Jobs : jobStatus'[j] = "none" => jobStatus[j] = "none",
         \A q \in Procs : GoesOn(q)
  PROVE  QueueInv'
<1> USE DEF QueueInv, GoesOn
<1>1. OneHolder'
  BY DEF OneHolder
<1>2. FreshJobs'
  BY DEF FreshJobs, TypeOK, RowsTypeOK
<1>3. Superseded'
  BY DEF Superseded
<1>4. AttemptCount'
  <2>1. \A i \in 1 .. Len(stream') :
          i > delivered' => dbAttempt'[stream'[i].job] <= stream'[i].attempt
    BY DEF AttemptCount
  <2>2. ASSUME NEW p \in Procs, Active(p)'
        PROVE  (dbAttempt[JobOf(p)] <= AttemptOf(p) + (IF pc[p] = "claimed" THEN 0 ELSE 1))'
    <3>1. /\ Active(p) /\ held'[p] = held[p]
          /\ JobOf(p)' = JobOf(p) /\ AttemptOf(p)' = AttemptOf(p)
          /\ dbAttempt'[JobOf(p)] = dbAttempt[JobOf(p)]
      BY <2>2 DEF JobOf, AttemptOf
    <3>2. dbAttempt[JobOf(p)] \in Nat /\ AttemptOf(p) \in Nat
      BY <3>1, HeldMessage DEF TypeOK, RowsTypeOK
    <3> QED BY <2>2, <3>1, <3>2 DEF AttemptCount
  <2> QED BY <2>1, <2>2 DEF AttemptCount
<1>5. RetryAllowed'
  BY DEF RetryAllowed, AttemptOf, Exhausted, Active, Retiring
<1>6. AttemptsBounded'
  BY DEF AttemptsBounded
<1>7. DeadIsLast'
  BY DEF DeadIsLast
<1> QED BY <1>1, <1>2, <1>3, <1>4, <1>5, <1>6, <1>7

(* JobMutex and DeadStaysDead follow from the parts.                       *)
LEMMA QueueInvImplies ==
  ASSUME TypeOK, QueueInv
  PROVE  JobMutex /\ DeadStaysDead
<1> USE DEF QueueInv
<1>1. ASSUME NEW p \in Procs, NEW q \in Procs, Active(p), Active(q), JobOf(p) = JobOf(q)
      PROVE  p = q
  <2>1. held[p] \in 1 .. Len(stream) /\ held[q] \in 1 .. Len(stream)
    BY <1>1, HeldMessage
  <2>2. ~ (held[p] < held[q]) /\ ~ (held[q] < held[p])
    BY <1>1, <2>1 DEF Superseded, JobOf
  <2>3. held[p] = held[q]
    BY <2>1, <2>2
  <2> QED BY <1>1, <2>3 DEF OneHolder
<1>2. ASSUME NEW e \in dlq, NEW p \in Procs, Active(p), JobOf(p) = e.job
      PROVE  FALSE
  <2>1. held[p] \in 1 .. Len(stream) /\ e.origMsgID \in 1 .. Len(stream)
    BY <1>2, HeldMessage DEF DeadIsLast, TypeOK, QueueTypeOK
  <2>2. held[p] <= e.origMsgID /\ held[p] # e.origMsgID
    BY <1>2, <2>1 DEF DeadIsLast, JobOf
  <2>3. stream[held[p]].job = stream[e.origMsgID].job
    BY <1>2 DEF DeadIsLast, JobOf
  <2> QED BY <1>2, <2>1, <2>2, <2>3 DEF Superseded
<1>3. ASSUME NEW e \in dlq, NEW i \in 1 .. Len(stream), Undelivered(i)
      PROVE  stream[i].job # e.job
  BY <1>3 DEF DeadIsLast, Undelivered, TypeOK, QueueTypeOK
<1>4. JobMutex
  BY <1>1 DEF JobMutex
<1>5. DeadStaysDead
  BY <1>2, <1>3 DEF DeadStaysDead, DeadIsLast
<1> QED BY <1>4, <1>5

(* A message in a goroutine's hands is the last of its job.                *)
LEMMA HeldIsLast ==
  ASSUME TypeOK, QueueInv, NEW p \in Procs, Active(p),
         NEW i \in 1 .. Len(stream), stream[i].job = JobOf(p)
  PROVE  i <= held[p] /\ stream[i].attempt <= AttemptOf(p)
<1>1. held[p] \in 1 .. Len(stream) /\ AttemptOf(p) \in Nat
  BY HeldMessage
<1>2. ~ (held[p] < i)
  BY <1>1 DEF QueueInv, Superseded, JobOf
<1>3. stream[i].attempt \in Nat
  <2>1. stream[i] \in Message
    BY DEF TypeOK, QueueTypeOK
  <2> QED BY <2>1 DEF Message
<1>4. CASE i = held[p]
  BY <1>1, <1>3, <1>4 DEF AttemptOf
<1>5. CASE i < held[p]
  BY <1>1, <1>3, <1>5 DEF QueueInv, Superseded, JobOf, AttemptOf
<1> QED BY <1>1, <1>2, <1>4, <1>5

LEMMA QueueInvInsertJob ==
  ASSUME TypeOK, QueueInv, NEW j \in Jobs, InsertJob(j)
  PROVE  QueueInv'
<1> USE DEF QueueInv, InsertJob, queueVars, procVars
<1>1. FreshJobs'
  BY DEF FreshJobs, TypeOK, RowsTypeOK
<1>2. /\ OneHolder' /\ Superseded' /\ AttemptCount' /\ RetryAllowed' /\ AttemptsBounded'
      /\ DeadIsLast'
  BY DEF OneHolder, Superseded, AttemptCount, RetryAllowed, AttemptsBounded, DeadIsLast,
     Active, JobOf, AttemptOf, Exhausted
<1> QED BY <1>1, <1>2

(* A new message at the end of the stream, all of whose predecessors of    *)
(* the same job are delivered, out of hand and lower in Attempt.           *)
LEMMA QueueInvAppend ==
  ASSUME TypeOK, QueueInv, NEW j \in Jobs, NEW a \in Nat, NEW o, o # "dup",
         Enqueue(j, a, o),
         UNCHANGED dbAttempt,
         dbAttempt[j] <= a,
         MaxAttempts > 0 => a < MaxAttempts,
         \A i \in 1 .. Len(stream) : stream[i].job = j =>
            /\ stream[i].attempt < a
            /\ i <= delivered
            /\ \A q \in Procs : Active(q)' => held'[q] # i,
         \A e \in dlq : e.job # j,
         \A k \in Jobs : jobStatus'[k] = "none" => jobStatus[k] = "none",
         j \notin submitting', jobStatus[j] # "none", UNCHANGED jobStatus,
         submitting' \subseteq submitting,
         \A q \in Procs : GoesOn(q)
  PROVE  QueueInv'
<1> USE DEF QueueInv, GoesOn
<1>1. /\ QueueTypeOK' /\ UNCHANGED <<delivered, pel, dlq>>
      /\ Len(stream') >= Len(stream)
      /\ \A i \in 1 .. Len(stream) : stream'[i] = stream[i]
      /\ \A i \in 1 .. Len(stream') :
           i > Len(stream) => stream'[i] = [job |-> j, attempt |-> a]
      /\ Len(stream') <= Len(stream) + 1
  BY EnqueueQueue DEF TypeOK
<1>2. Len(stream) \in Nat /\ delivered \in 0 .. Len(stream) /\ Len(stream') \in Nat
  BY <1>1 DEF TypeOK, QueueTypeOK
<1>3. \A q \in Procs : Active(q)' =>
        /\ held[q] \in 1 .. Len(stream) /\ held'[q] \in 1 .. Len(stream)
        /\ JobOf(q)' = JobOf(q) /\ AttemptOf(q)' = AttemptOf(q)
        /\ JobOf(q) \in Jobs /\ AttemptOf(q) \in Nat /\ dbAttempt[JobOf(q)] \in Nat
  BY <1>1, HeldMessage DEF JobOf, AttemptOf, TypeOK, RowsTypeOK
<1>4. OneHolder'
  BY DEF OneHolder
<1>5. FreshJobs'
  BY <1>1, <1>2 DEF FreshJobs
<1>6. Superseded'
  <2> SUFFICES ASSUME NEW i \in 1 .. Len(stream'), NEW k \in 1 .. Len(stream'),
                      i < k, stream'[i].job = stream'[k].job
               PROVE  /\ stream'[i].attempt < stream'[k].attempt
                      /\ i <= delivered'
                      /\ \A q \in Procs : Active(q)' => held'[q] # i
    BY DEF Superseded
  <2>1. CASE k <= Len(stream)
    <3>1. /\ i \in 1 .. Len(stream) /\ k \in 1 .. Len(stream)
          /\ stream'[i] = stream[i] /\ stream'[k] = stream[k] /\ delivered' = delivered
      BY <1>1, <1>2, <2>1
    <3>2. /\ stream[i].attempt < stream[k].attempt /\ i <= delivered
          /\ \A q \in Procs : Active(q) => held[q] # i
      BY <3>1 DEF Superseded
    <3> QED BY <3>1, <3>2
  <2>2. CASE k > Len(stream)
    <3>1. i \in 1 .. Len(stream) /\ stream'[k] = [job |-> j, attempt |-> a]
      BY <1>1, <1>2, <2>2
    <3>2. stream'[i] = stream[i] /\ stream[i].job = j
      BY <1>1, <3>1
    <3> QED BY <1>1, <3>1, <3>2
  <2> QED BY <1>2, <2>1, <2>2
<1>7. AttemptCount'
  <2>1. ASSUME NEW i \in 1 .. Len(stream'), i > delivered'
        PROVE  dbAttempt'[stream'[i].job] <= stream'[i].attempt
    <3>1. CASE i <= Len(stream)
      BY <1>1, <1>2, <2>1, <3>1 DEF AttemptCount
    <3>2. CASE i > Len(stream)
      BY <1>1, <3>2
    <3> QED BY <1>2, <3>1, <3>2
  <2>2. ASSUME NEW q \in Procs, Active(q)'
        PROVE  (dbAttempt[JobOf(q)] <= AttemptOf(q) + (IF pc[q] = "claimed" THEN 0 ELSE 1))'
    BY <1>3, <2>2 DEF AttemptCount
  <2> QED BY <2>1, <2>2 DEF AttemptCount
<1>8. RetryAllowed'
  BY <1>3 DEF RetryAllowed, Exhausted, Active, Retiring
<1>9. AttemptsBounded'
  <2>1. ASSUME MaxAttempts > 0, NEW i \in 1 .. Len(stream')
        PROVE  stream'[i].attempt < MaxAttempts
    <3>1. CASE i <= Len(stream)
      BY <1>1, <1>2, <2>1, <3>1 DEF AttemptsBounded
    <3>2. CASE i > Len(stream)
      BY <1>1, <2>1, <3>2
    <3> QED BY <1>2, <3>1, <3>2
  <2> QED BY <2>1 DEF AttemptsBounded
<1>10. DeadIsLast'
  <2> SUFFICES ASSUME NEW e \in dlq
               PROVE  /\ e.origMsgID \in 1 .. delivered
                      /\ stream'[e.origMsgID].job = e.job
                      /\ \A i \in 1 .. Len(stream') : stream'[i].job = e.job => i <= e.origMsgID
                      /\ \A q \in Procs : Active(q)' => held'[q] # e.origMsgID
                      /\ \A f \in dlq : f.job = e.job => f = e
    BY <1>1 DEF DeadIsLast
  <2>1. e.origMsgID \in 1 .. Len(stream)
    BY <1>2 DEF DeadIsLast
  <2>2. ASSUME NEW i \in 1 .. Len(stream'), stream'[i].job = e.job
        PROVE  i <= e.origMsgID
    <3>1. i <= Len(stream)
      BY <1>1, <1>2, <2>2
    <3> QED BY <1>1, <1>2, <2>2, <3>1 DEF DeadIsLast
  <2> QED BY <1>1, <2>1, <2>2 DEF DeadIsLast
<1> QED BY <1>4, <1>5, <1>6, <1>7, <1>8, <1>9, <1>10

LEMMA QueueInvDeliver ==
  ASSUME TypeOK, QueueInv, NEW p \in Procs, Deliver,
         UNCHANGED <<submitting, jobStatus, dbAttempt>>,
         Active(p)' => held'[p] = delivered + 1 /\ pc'[p] = "claimed",
         \A q \in Procs \ {p} : GoesOn(q)
  PROVE  QueueInv'
<1> USE DEF QueueInv, GoesOn
<1>1. /\ UNCHANGED <<stream, dlq>> /\ delivered' = delivered + 1
      /\ delivered \in Nat /\ delivered + 1 \in 1 .. Len(stream) /\ Len(stream) \in Nat
  BY DEF Deliver, TypeOK, QueueTypeOK
<1>2. \A q \in Procs \ {p} : Active(q)' =>
        /\ held[q] \in 1 .. delivered
        /\ JobOf(q)' = JobOf(q) /\ AttemptOf(q)' = AttemptOf(q)
        /\ JobOf(q) \in Jobs /\ AttemptOf(q) \in Nat /\ dbAttempt[JobOf(q)] \in Nat
  BY <1>1, HeldMessage DEF JobOf, AttemptOf, TypeOK, RowsTypeOK, ProcTypeOK
<1>3. OneHolder'
  <2> SUFFICES ASSUME NEW q \in Procs, NEW r \in Procs, Active(q)', Active(r)',
                      held'[q] = held'[r]
               PROVE  q = r
    BY DEF OneHolder
  <2>1. CASE q # p /\ r # p
    BY <2>1 DEF OneHolder
  <2>2. CASE q = p \/ r = p
    BY <1>1, <1>2, <2>2
  <2> QED BY <2>1, <2>2
<1>4. FreshJobs'
  BY <1>1 DEF FreshJobs
<1>5. Superseded'
  BY <1>1 DEF Superseded
<1>6. AttemptCount'
  <2>1. \A i \in 1 .. Len(stream') :
          i > delivered' => dbAttempt'[stream'[i].job] <= stream'[i].attempt
    BY <1>1 DEF AttemptCount
  <2>2. ASSUME NEW q \in Procs \ {p}, Active(q)'
        PROVE  (dbAttempt[JobOf(q)] <= AttemptOf(q) + (IF pc[q] = "claimed" THEN 0 ELSE 1))'
    BY <1>2, <2>2 DEF AttemptCount
  <2>3. ASSUME Active(p)'
        PROVE  (dbAttempt[JobOf(p)] <= AttemptOf(p) + (IF pc[p] = "claimed" THEN 0 ELSE 1))'
    <3>1. dbAttempt[stream[delivered + 1].job] <= stream[delivered + 1].attempt
      BY <1>1 DEF AttemptCount
    <3>2. stream[delivered + 1] \in Message
      BY <1>1 DEF TypeOK, QueueTypeOK
    <3>3. dbAttempt[stream[delivered + 1].job] \in Nat /\ stream[delivered + 1].attempt \in Nat
      BY <3>2 DEF Message, TypeOK, RowsTypeOK
    <3> QED BY <1>1, <2>3, <3>1, <3>3 DEF JobOf, AttemptOf
  <2> QED BY <2>1, <2>2, <2>3 DEF AttemptCount
<1>7. RetryAllowed'
  BY <1>2 DEF RetryAllowed, Exhausted, Active, Retiring
<1>8. AttemptsBounded'
  BY <1>1 DEF AttemptsBounded
<1>9. DeadIsLast'
  <2>1. \A e \in dlq : e.origMsgID \in 1 .. delivered
    BY DEF DeadIsLast
  <2> QED BY <1>1, <2>1 DEF DeadIsLast
<1> QED BY <1>3, <1>4, <1>5, <1>6, <1>7, <1>8, <1>9

LEMMA QueueInvUpdateJobRunning ==
  ASSUME TypeOK, QueueInv, NEW p \in Procs, UpdateJobRunning(p)
  PROVE  QueueInv'
<1> USE DEF QueueInv
<1>1. /\ Active(p) /\ pc[p] = "claimed" /\ held[p] \in 1 .. Len(stream)
      /\ JobOf(p) \in Jobs /\ AttemptOf(p) \in Nat
  BY HeldMessage DEF UpdateJobRunning, Active, Working
<1>2. UNCHANGED <<stream, delivered, dlq, submitting, held>>
  BY DEF UpdateJobRunning, queueVars, apiVars
<1>3. pc'[p] \in {"download", "failed"} /\ \A q \in Procs \ {p} : pc'[q] = pc[q]
  BY DEF UpdateJobRunning, Goto, Fail, TypeOK, ProcTypeOK
<1>4. CASE dbAttempt' = dbAttempt
  <2>1. \A j \in Jobs : jobStatus'[j] = "none" => jobStatus[j] = "none"
    BY <1>1 DEF UpdateJobRunning, TypeOK, RowsTypeOK
  <2>2. \A q \in Procs : GoesOn(q)
    BY <1>1, <1>2, <1>3 DEF GoesOn, Active, Working, Retiring
  <2> QED BY <1>2, <1>4, <2>1, <2>2, QueueInvFrame
<1>5. CASE /\ dbAttempt' = [dbAttempt EXCEPT ![JobOf(p)] = @ + 1]
           /\ jobStatus' = [jobStatus EXCEPT ![JobOf(p)] = "running"]
  <2>1. \A q \in Procs : /\ Active(q)' <=> Active(q)
                         /\ JobOf(q)' = JobOf(q) /\ AttemptOf(q)' = AttemptOf(q)
    BY <1>1, <1>2, <1>3 DEF Active, Working, Retiring, JobOf, AttemptOf
  <2>2. dbAttempt[JobOf(p)] \in Nat /\ dbAttempt[JobOf(p)] <= AttemptOf(p)
    BY <1>1 DEF AttemptCount, TypeOK, RowsTypeOK
  <2>3. /\ dbAttempt'[JobOf(p)] <= AttemptOf(p) + 1
        /\ \A j \in Jobs \ {JobOf(p)} : dbAttempt'[j] = dbAttempt[j]
    BY <1>1, <1>5, <2>2 DEF TypeOK, RowsTypeOK
  <2>4. OneHolder' /\ Superseded' /\ DeadIsLast'
    BY <1>2, <2>1 DEF OneHolder, Superseded, DeadIsLast
  <2>5. RetryAllowed'
    BY <1>2, <1>3, <2>1 DEF RetryAllowed, Exhausted
  <2>6. FreshJobs'
    <3>1. jobStatus[JobOf(p)] # "none" /\ JobOf(p) \notin submitting
      BY <1>1 DEF FreshJobs, JobOf
    <3> QED BY <1>1, <1>2, <1>5, <2>3, <3>1 DEF FreshJobs, TypeOK, RowsTypeOK
  <2>7. AttemptCount'
    <3>1. ASSUME NEW i \in 1 .. Len(stream), i > delivered
          PROVE  dbAttempt'[stream[i].job] <= stream[i].attempt
      <4>1. held[p] <= delivered /\ delivered \in Nat
        BY <1>1 DEF TypeOK, ProcTypeOK, QueueTypeOK
      <4>2. stream[i].job # JobOf(p)
        BY <1>1, <3>1, <4>1, HeldIsLast
      <4>3. stream[i] \in Message
        BY DEF TypeOK, QueueTypeOK
      <4> QED BY <2>3, <3>1, <4>2, <4>3 DEF AttemptCount, Message
    <3>2. ASSUME NEW q \in Procs, Active(q)
          PROVE  dbAttempt'[JobOf(q)] <= AttemptOf(q) + (IF pc'[q] = "claimed" THEN 0 ELSE 1)
      <4>1. CASE q = p
        BY <1>3, <2>3, <4>1
      <4>2. CASE q # p
        <5>1. JobOf(q) # JobOf(p)
          BY <1>1, <3>2, <4>2, QueueInvImplies DEF JobMutex
        <5>2. JobOf(q) \in Jobs
          BY <3>2, HeldMessage
        <5> QED BY <1>3, <2>3, <3>2, <4>2, <5>1, <5>2 DEF AttemptCount
      <4> QED BY <4>1, <4>2
    <3> QED BY <1>2, <2>1, <3>1, <3>2 DEF AttemptCount
  <2>8. AttemptsBounded'
    <3>1. ASSUME MaxAttempts > 0 PROVE dbAttempt'[JobOf(p)] <= MaxAttempts
      <4>1. AttemptOf(p) < MaxAttempts
        BY <1>1, <3>1 DEF AttemptsBounded, AttemptOf
      <4> QED BY <1>1, <1>5, <2>2, <4>1, MaxAttemptsAssumption DEF TypeOK, RowsTypeOK
    <3> QED BY <1>2, <2>3, <3>1 DEF AttemptsBounded
  <2> QED BY <2>4, <2>5, <2>6, <2>7, <2>8
<1> QED BY <1>4, <1>5 DEF UpdateJobRunning

LEMMA QueueInvBury ==
  ASSUME TypeOK, QueueInv, NEW p \in Procs, Bury(p)
  PROVE  QueueInv'
<1>1. /\ Active(p) /\ held[p] \in 1 .. Len(stream)
      /\ JobOf(p) \in Jobs /\ AttemptOf(p) \in Nat /\ held[p] \in 1 .. delivered
  BY HeldMessage DEF Bury, Active, Retiring, TypeOK, ProcTypeOK
<1> DEFINE entry == [job       |-> JobOf(p),
                     attempt   |-> AttemptOf(p) + IF permanent[p] THEN 0 ELSE 1,
                     origMsgID |-> held[p],
                     permanent |-> permanent[p]]
<1>2. /\ UNCHANGED <<stream, delivered, submitting, jobStatus, dbAttempt>>
      /\ dlq' \in {dlq, dlq \cup {entry}}
  BY DEF Bury, MoveToDeadLetter, apiVars, jobVars
<1>3. entry.job = JobOf(p) /\ entry.origMsgID = held[p]
  OBVIOUS
<1> HIDE DEF entry
<1>4. ~ Active(p)' /\ \A q \in Procs \ {p} : pc'[q] = pc[q] /\ held'[q] = held[q]
  BY DEF Bury, Finish, Goto, Active, Working, Retiring, TypeOK, ProcTypeOK
<1>5. \A q \in Procs : GoesOn(q)
  BY <1>4 DEF GoesOn, Active
<1>6. CASE dlq' = dlq
  BY <1>2, <1>5, <1>6, QueueInvFrame
<1>7. CASE dlq' = dlq \cup {entry}
  <2>1. \A e \in dlq : e.job # JobOf(p)
    BY <1>1, QueueInvImplies DEF DeadStaysDead
  <2>2. \A i \in 1 .. Len(stream) : stream[i].job = JobOf(p) => i <= held[p]
    BY <1>1, HeldIsLast
  <2>3. \A q \in Procs : Active(q)' => Active(q) /\ held'[q] = held[q] /\ held[q] # held[p]
    BY <1>1, <1>4, <1>5 DEF GoesOn, QueueInv, OneHolder
  <2>4. DeadIsLast'
    <3>1. ASSUME NEW e \in dlq
          PROVE  /\ e.origMsgID \in 1 .. delivered
                 /\ stream[e.origMsgID].job = e.job
                 /\ \A i \in 1 .. Len(stream) : stream[i].job = e.job => i <= e.origMsgID
                 /\ \A q \in Procs : Active(q)' => held'[q] # e.origMsgID
                 /\ \A f \in dlq : f.job = e.job => f = e
      BY <2>3 DEF QueueInv, DeadIsLast
    <3>2. /\ held[p] \in 1 .. delivered
          /\ stream[held[p]].job = JobOf(p)
          /\ \A q \in Procs : Active(q)' => held'[q] # held[p]
      BY <1>1, <2>3 DEF JobOf
    <3> QED BY <1>2, <1>3, <1>7, <2>1, <2>2, <3>1, <3>2 DEF DeadIsLast
  <2>5. /\ OneHolder' /\ FreshJobs' /\ Superseded'
    BY <1>2, <2>3 DEF QueueInv, OneHolder, FreshJobs, Superseded
  <2>6. AttemptCount' /\ RetryAllowed' /\ AttemptsBounded'
    BY <1>2, <1>4, <1>5 DEF QueueInv, AttemptCount, RetryAllowed, AttemptsBounded,
       GoesOn, JobOf, AttemptOf, Exhausted, Active, Retiring
  <2> QED BY <2>4, <2>5, <2>6 DEF QueueInv
<1> QED BY <1>2, <1>6, <1>7

LEMMA QueueInvSubmitJob ==
  ASSUME TypeOK, QueueInv, "dup" \notin Faults, NEW j \in Jobs, SubmitJob(j)
  PROVE  QueueInv'
<1>1. PICK o \in {"ok", "err", "lost"} : Enqueue(j, 0, o)
  BY DEF SubmitJob
<1>2. /\ j \in submitting /\ jobStatus[j] # "none" /\ dbAttempt[j] = 0
      /\ \A i \in 1 .. Len(stream) : stream[i].job # j
  BY DEF SubmitJob, QueueInv, FreshJobs
<1>3. \A e \in dlq : e.job # j
  BY <1>2 DEF QueueInv, DeadIsLast, TypeOK, QueueTypeOK
<1>4. UNCHANGED <<jobStatus, dbAttempt, pc, held>> /\ submitting' = submitting \ {j}
  BY DEF SubmitJob, jobVars, procVars
<1>5. \A q \in Procs : GoesOn(q)
  BY <1>4 DEF GoesOn, Active
<1> QED BY <1>1, <1>2, <1>3, <1>4, <1>5, MaxAttemptsAssumption, QueueInvAppend

LEMMA QueueInvNackEnqueue ==
  ASSUME TypeOK, QueueInv, "dup" \notin Faults, NEW p \in Procs, NackEnqueue(p)
  PROVE  QueueInv'
<1>1. /\ Active(p) /\ pc[p] = "reenqueue" /\ held[p] \in 1 .. Len(stream)
      /\ JobOf(p) \in Jobs /\ AttemptOf(p) \in Nat /\ held[p] \in 1 .. delivered
  BY HeldMessage DEF NackEnqueue, Active, Retiring, TypeOK, ProcTypeOK
<1>2. PICK o \in {"ok", "err", "lost"} : Enqueue(JobOf(p), AttemptOf(p) + 1, o)
  BY DEF NackEnqueue, Outcomes
<1>3. UNCHANGED <<submitting, jobStatus, dbAttempt>>
  BY DEF NackEnqueue, apiVars, jobVars
<1>4. ~ Active(p)' /\ \A q \in Procs \ {p} : pc'[q] = pc[q] /\ held'[q] = held[q]
  BY DEF NackEnqueue, Finish, Goto, Active, Working, Retiring, TypeOK, ProcTypeOK
<1>5. \A q \in Procs : GoesOn(q)
  BY <1>4 DEF GoesOn, Active
<1>6. dbAttempt[JobOf(p)] <= AttemptOf(p) + 1
  BY <1>1 DEF QueueInv, AttemptCount
<1>7. MaxAttempts > 0 => AttemptOf(p) + 1 < MaxAttempts
  BY <1>1, MaxAttemptsAssumption DEF QueueInv, RetryAllowed, Exhausted
<1>8. ASSUME NEW i \in 1 .. Len(stream), stream[i].job = JobOf(p)
      PROVE  /\ stream[i].attempt < AttemptOf(p) + 1
             /\ i <= delivered
             /\ \A q \in Procs : Active(q)' => held'[q] # i
  <2>1. i <= held[p] /\ stream[i].attempt <= AttemptOf(p)
    BY <1>1, <1>8, HeldIsLast
  <2>2. stream[i] \in Message
    BY DEF TypeOK, QueueTypeOK
  <2>3. stream[i].attempt < AttemptOf(p) + 1 /\ i <= delivered
    BY <1>1, <2>1, <2>2 DEF Message, TypeOK, QueueTypeOK
  <2>4. ASSUME NEW q \in Procs, Active(q)', held'[q] = i PROVE FALSE
    <3>1. q # p /\ Active(q) /\ JobOf(q) = JobOf(p)
      BY <1>4, <1>5, <1>8, <2>4 DEF GoesOn, JobOf
    <3> QED BY <1>1, <3>1, QueueInvImplies DEF JobMutex
  <2> QED BY <2>3, <2>4
<1>9. \A e \in dlq : e.job # JobOf(p)
  BY <1>1, QueueInvImplies DEF DeadStaysDead
<1>10. jobStatus[JobOf(p)] # "none" /\ JobOf(p) \notin submitting
  BY <1>1 DEF QueueInv, FreshJobs, JobOf
<1> QED
  BY <1>1, <1>2, <1>3, <1>5, <1>6, <1>7, <1>8, <1>9, <1>10, QueueInvAppend

LEMMA QueueInvNext ==
  ASSUME "dup" \notin Faults, TypeOK, QueueInv, [Next]_vars
  PROVE  QueueInv'
<1> USE DEF TypeOK, ProcTypeOK
<1> DEFINE Frame == /\ UNCHANGED <<stream, delivered, dlq, submitting, dbAttempt>>
                    /\ \A j \in Jobs : jobStatus'[j] = "none" => jobStatus[j] = "none"
                    /\ \A q \in Procs : GoesOn(q)
<1>1. ASSUME Frame PROVE QueueInv'
  BY <1>1, QueueInvFrame
<1>2. ASSUME NEW j \in Jobs, InsertJob(j) \/ SubmitJob(j) PROVE QueueInv'
  BY <1>2, QueueInvInsertJob, QueueInvSubmitJob
<1>3. ASSUME NEW j \in Jobs, LoseRaw(j) PROVE Frame
  BY <1>3 DEF LoseRaw, queueVars, jobVars, procVars, GoesOn, Active
<1>4. ASSUME NEW p \in Procs, Claim(p) PROVE QueueInv'
  <2>1. /\ Deliver /\ UNCHANGED <<submitting, jobStatus, dbAttempt>>
        /\ held'[p] = delivered + 1 /\ pc'[p] = "claimed"
    BY <1>4 DEF Claim, apiVars, jobVars, Goto
  <2>2. \A q \in Procs \ {p} : GoesOn(q)
    BY <1>4 DEF Claim, Goto, GoesOn, Active
  <2> QED BY <2>1, <2>2, QueueInvDeliver
<1>5. ASSUME NEW p \in Procs, ClaimLost(p) PROVE QueueInv'
  <2>1. Deliver /\ UNCHANGED <<submitting, jobStatus, dbAttempt>> /\ ~ Active(p)'
    BY <1>5 DEF ClaimLost, apiVars, jobVars, Goto, Finish, Active, Working, Retiring
  <2>2. \A q \in Procs \ {p} : GoesOn(q)
    BY <1>5 DEF ClaimLost, Goto, Finish, GoesOn, Active
  <2> QED BY <2>1, <2>2, QueueInvDeliver
<1>6. ASSUME NEW p \in Procs, StopIdle(p) PROVE Frame
  BY <1>6 DEF StopIdle, queueVars, apiVars, jobVars, Finish, Goto, GoesOn, Active, Working,
     Retiring
<1>7. ASSUME NEW p \in Procs, Download(p) PROVE Frame
  <2>1. /\ UNCHANGED <<queueVars, apiVars, jobVars, held>> /\ pc[p] = "download"
        /\ pc' = [pc EXCEPT ![p] = "transcode"] \/ pc' = [pc EXCEPT ![p] = "failed"]
    BY <1>7 DEF Download, Fail, Goto
  <2> QED BY <2>1 DEF queueVars, apiVars, jobVars, GoesOn, Active, Working, Retiring
<1>8. ASSUME NEW p \in Procs, Transcode(p) PROVE Frame
  BY <1>8 DEF Transcode, queueVars, apiVars, jobVars, Fail, Goto, GoesOn, Active, Working,
     Retiring
<1>9. ASSUME NEW p \in Procs, ReportProgress(p) PROVE Frame
  BY <1>9 DEF ReportProgress, queueVars, apiVars, jobVars, procVars, GoesOn, Active
<1>10. ASSUME NEW r \in Workers \X Jobs, WriteProgress(r) PROVE Frame
  BY <1>10 DEF WriteProgress, queueVars, apiVars, procVars, GoesOn, Active
<1>11. ASSUME NEW p \in Procs, UploadHLSOutputs(p) PROVE Frame
  BY <1>11 DEF UploadHLSOutputs, queueVars, apiVars, jobVars, Fail, Goto, GoesOn, Active,
     Working, Retiring
<1>12. ASSUME NEW p \in Procs,
              GenerateAndUploadThumbnail(p) \/ UploadDASHOutputs(p) \/ UploadSubtitleVTT(p)
       PROVE  Frame
  BY <1>12 DEF GenerateAndUploadThumbnail, UploadDASHOutputs, UploadSubtitleVTT, Attach,
     queueVars, apiVars, jobVars, Goto, GoesOn, Active, Working, Retiring
<1>13. ASSUME NEW p \in Procs, UpdateVideoReady(p) PROVE Frame
  BY <1>13 DEF UpdateVideoReady, queueVars, apiVars, jobVars, Fail, Goto, GoesOn, Active,
     Working, Retiring
<1>14. ASSUME NEW p \in Procs, IndexVideoReady(p) PROVE Frame
  BY <1>14 DEF IndexVideoReady, queueVars, apiVars, jobVars, Goto, GoesOn, Active,
     Working, Retiring
<1>15. ASSUME NEW p \in Procs, UpdateFlags(p) PROVE Frame
  BY <1>15 DEF UpdateFlags, queueVars, apiVars, jobVars, Goto, GoesOn, Active,
     Working, Retiring
<1>16. ASSUME NEW p \in Procs, UpdateJobComplete(p) PROVE Frame
  <2>1. UNCHANGED <<stream, delivered, dlq, submitting, dbAttempt>>
    BY <1>16 DEF UpdateJobComplete, queueVars, apiVars
  <2>2. \A j \in Jobs : jobStatus'[j] = "none" => jobStatus[j] = "none"
    BY <1>16 DEF UpdateJobComplete, RowsTypeOK
  <2>3. \A q \in Procs : GoesOn(q)
    BY <1>16 DEF UpdateJobComplete, Fail, Goto, GoesOn, Active, Working, Retiring
  <2> QED BY <2>1, <2>2, <2>3
<1>17. ASSUME NEW p \in Procs, AckDone(p) PROVE Frame
  BY <1>17 DEF AckDone, Ack, apiVars, jobVars, Finish, Goto, GoesOn, Active, Working,
     Retiring
<1>18. ASSUME NEW p \in Procs, UpdateJobFailed(p) PROVE Frame
  <2>1. UNCHANGED <<stream, delivered, dlq, submitting, dbAttempt>>
    BY <1>18 DEF UpdateJobFailed, queueVars, apiVars
  <2>2. \A j \in Jobs : jobStatus'[j] = "none" => jobStatus[j] = "none"
    BY <1>18 DEF UpdateJobFailed, RowsTypeOK
  <2>3. \A q \in Procs : GoesOn(q)
    BY <1>18 DEF UpdateJobFailed, Goto, GoesOn, Active, Working, Retiring
  <2> QED BY <2>1, <2>2, <2>3
<1>19. ASSUME NEW p \in Procs, NackAck(p) PROVE Frame
  <2>1. UNCHANGED <<stream, delivered, dlq, submitting, dbAttempt, jobStatus>>
    BY <1>19 DEF NackAck, Ack, apiVars, jobVars
  <2>2. ASSUME Finish(p) PROVE \A q \in Procs : GoesOn(q)
    BY <1>19, <2>2 DEF NackAck, Finish, Goto, GoesOn, Active, Working, Retiring
  <2>3. ASSUME Goto(p, "reenqueue"), UNCHANGED held PROVE \A q \in Procs : GoesOn(q)
    BY <1>19, <2>3 DEF NackAck, Goto, GoesOn, Active, Working, Retiring
  <2> QED BY <1>19, <2>1, <2>2, <2>3 DEF NackAck
<1>20. ASSUME NEW p \in Procs, UpdateJobRunning(p) \/ Bury(p) \/ NackEnqueue(p)
       PROVE  QueueInv'
  BY <1>20, QueueInvUpdateJobRunning, QueueInvBury, QueueInvNackEnqueue
<1>21. ASSUME NEW w \in Workers, Shutdown(w) \/ Crash(w) \/ Restart(w) PROVE Frame
  <2>1. ASSUME Shutdown(w) PROVE Frame
    BY <2>1 DEF Shutdown, queueVars, apiVars, jobVars, procVars, GoesOn, Active
  <2>2. ASSUME Crash(w) PROVE Frame
    BY <2>2 DEF Crash, queueVars, apiVars, jobVars, GoesOn, Active, Working, Retiring
  <2>3. ASSUME Restart(w) PROVE Frame
    BY <2>3 DEF Restart, queueVars, apiVars, jobVars, GoesOn, Active, Working, Retiring
  <2> QED BY <1>21, <2>1, <2>2, <2>3
<1>22. ASSUME UNCHANGED vars PROVE Frame
  BY <1>22 DEF vars, queueVars, apiVars, jobVars, procVars, GoesOn, Active
<1> HIDE DEF Frame
<1> QED
  BY <1>1, <1>2, <1>3, <1>4, <1>5, <1>6, <1>7, <1>8, <1>9, <1>10, <1>11, <1>12, <1>13,
     <1>14, <1>15, <1>16, <1>17, <1>18, <1>19, <1>20, <1>21, <1>22 DEF Next, Step

(* If XADD is never executed twice, then in every run, whatever else       *)
(* fails, two goroutines are never at work on the same job, so the work    *)
(* directory <workDir>/<job id> has one owner.                             *)
THEOREM JobMutexHolds ==
  ASSUME "dup" \notin Faults
  PROVE  Spec => []JobMutex
<1>1. Init => TypeOK /\ QueueInv
  BY TypeInit, QueueInvInit
<1>2. TypeOK /\ QueueInv /\ [Next]_vars => (TypeOK /\ QueueInv)'
  BY TypeNext, QueueInvNext
<1>3. TypeOK /\ QueueInv => JobMutex
  BY QueueInvImplies
<1> QED BY <1>1, <1>2, <1>3, PTL DEF Spec

(* Under the same condition no job is started more than MaxAttempts times, *)
(* over all workers, crashes, restarts, lost replies and partial failures. *)
THEOREM AttemptsBoundedHolds ==
  ASSUME "dup" \notin Faults
  PROVE  Spec => []AttemptsBounded
<1>1. Init => TypeOK /\ QueueInv
  BY TypeInit, QueueInvInit
<1>2. TypeOK /\ QueueInv /\ [Next]_vars => (TypeOK /\ QueueInv)'
  BY TypeNext, QueueInvNext
<1>3. TypeOK /\ QueueInv => AttemptsBounded
  BY DEF QueueInv
<1> QED BY <1>1, <1>2, <1>3, PTL DEF Spec

(* Under the same condition a job in the dead-letter queue has no message  *)
(* to come and no goroutine at work, and is in it once.                    *)
THEOREM DeadStaysDeadHolds ==
  ASSUME "dup" \notin Faults
  PROVE  Spec => []DeadStaysDead
<1>1. Init => TypeOK /\ QueueInv
  BY TypeInit, QueueInvInit
<1>2. TypeOK /\ QueueInv /\ [Next]_vars => (TypeOK /\ QueueInv)'
  BY TypeNext, QueueInvNext
<1>3. TypeOK /\ QueueInv => DeadStaysDead
  BY QueueInvImplies
<1> QED BY <1>1, <1>2, <1>3, PTL DEF Spec

(* No two messages have the same job and Attempt: each is another start.   *)
LEMMA StreamIsBounded ==
  ASSUME TypeOK, QueueInv, MaxAttempts > 0, IsFiniteSet(Jobs)
  PROVE  Len(stream) <= Cardinality(Jobs) * MaxAttempts
<1> DEFINE ids == 1 .. Len(stream)
           starts == Jobs \X (0 .. MaxAttempts - 1)
           f == [i \in ids |-> <<stream[i].job, stream[i].attempt>>]
<1>1. MaxAttempts \in Nat /\ stream \in Seq(Message) /\ Len(stream) \in Nat
  BY MaxAttemptsAssumption DEF TypeOK, QueueTypeOK
<1>2. \A i \in ids : stream[i].job \in Jobs /\ stream[i].attempt \in 0 .. MaxAttempts - 1
  <2>1. \A i \in ids : stream[i] \in Message
    BY <1>1
  <2>2. \A i \in ids : stream[i].attempt < MaxAttempts
    BY DEF QueueInv, AttemptsBounded
  <2> QED BY <1>1, <2>1, <2>2 DEF Message
<1>3. ASSUME NEW i \in ids, NEW k \in ids, f[i] = f[k] PROVE i = k
  <2>1. stream[i].job = stream[k].job /\ stream[i].attempt = stream[k].attempt
    BY <1>3
  <2>2. stream[i].attempt \in Nat /\ i \in Int /\ k \in Int
    BY <1>1, <1>2
  <2>3. ~ (i < k) /\ ~ (k < i)
    BY <2>1, <2>2 DEF QueueInv, Superseded
  <2> QED BY <2>2, <2>3
<1>4. f \in Injection(ids, starts)
  <2>1. f \in [ids -> starts]
    BY <1>2
  <2> QED BY <1>3, <2>1 DEF Injection, IsInjective
<1>5. IsFiniteSet(0 .. MaxAttempts - 1) /\ Cardinality(0 .. MaxAttempts - 1) = MaxAttempts
  <2>1. ASSUME NEW n \in Nat, n > 0
        PROVE  IsFiniteSet(0 .. n - 1) /\ Cardinality(0 .. n - 1) = n
    <3>1. n - 1 \in Int /\ ~ (0 > n - 1)
      BY <2>1
    <3>2. IsFiniteSet(0 .. n - 1) /\ Cardinality(0 .. n - 1) = n - 1 - 0 + 1
      BY <3>1, FS_Interval
    <3> QED BY <3>2
  <2> QED BY <1>1, <2>1
<1>6. IsFiniteSet(starts) /\ Cardinality(starts) = Cardinality(Jobs) * MaxAttempts
  BY <1>5, FS_Product
<1>7. Cardinality(ids) = Len(stream)
  <2>1. ASSUME NEW n \in Nat PROVE Cardinality(1 .. n) = n
    <3>1. Cardinality(1 .. n) = IF 1 > n THEN 0 ELSE n - 1 + 1
      BY FS_Interval
    <3> QED BY <3>1
  <2> QED BY <1>1, <2>1
<1> HIDE DEF ids, starts, f
<1>8. Cardinality(ids) <= Cardinality(starts)
  BY <1>4, <1>6, FS_Injection
<1> QED BY <1>6, <1>7, <1>8

(* The stream holds at most MaxAttempts messages for a job. Ack (XACK)     *)
(* takes a message off the pending list and not off the stream, and        *)
(* nothing trims it, so this bounds what Redis keeps; and ClaimPending     *)
(* (XREADGROUP with ">") gets a message once at most, so it bounds how     *)
(* often the jobs accepted are started, crashes, lost answers and failed   *)
(* statements included.                                                    *)
THEOREM StreamBounded ==
  ASSUME "dup" \notin Faults, MaxAttempts > 0, IsFiniteSet(Jobs)
  PROVE  Spec => [](Len(stream) <= Cardinality(Jobs) * MaxAttempts)
<1>1. Init => TypeOK /\ QueueInv
  BY TypeInit, QueueInvInit
<1>2. TypeOK /\ QueueInv /\ [Next]_vars => (TypeOK /\ QueueInv)'
  BY TypeNext, QueueInvNext
<1>3. TypeOK /\ QueueInv => Len(stream) <= Cardinality(Jobs) * MaxAttempts
  BY StreamIsBounded
<1> QED BY <1>1, <1>2, <1>3, PTL DEF Spec

------------------------------------------------------------------------------
(* Media. This part needs nothing of Faults: it holds even if messages are *)
(* duplicated and two goroutines transcode the same job.                   *)

(* A job's rows precede its messages.                                      *)
RowsFirst ==
  /\ \A i \in 1 .. Len(stream) : jobStatus[stream[i].job] # "none"
  /\ \A j \in submitting : jobStatus[j] # "none"
  /\ \A j \in Jobs : jobStatus[j] = "none" => claims[j] = {}

(* What a goroutine believes to have uploaded or published, it has.        *)
UploadsKnown ==
  \A p \in Procs :
    /\ made[p] # {} => Active(p) /\ made[p] \subseteq objects[JobOf(p)]
    /\ pc[p] \in {"poster", "publish"} => "hls" \in objects[JobOf(p)]
    /\ pc[p] = "index" => videoStatus[JobOf(p)] = "ready"

MediaInv == RowsFirst /\ UploadsKnown /\ MediaBacked

LEMMA MediaInvInit == Init => MediaInv
BY DEF Init, QueueInit, MediaInv, RowsFirst, UploadsKnown, MediaBacked

(* A goroutine that has nothing, has just started, or goes on to a step    *)
(* that relies on no upload.                                               *)
Follows(q) ==
  \/ ~ Active(q)' /\ made'[q] = {}
  \/ pc'[q] = "claimed" /\ made'[q] = {}
  \/ /\ Active(q) /\ Active(q)' /\ held'[q] = held[q] /\ made'[q] = made[q]
     /\ pc'[q] \in {"poster", "publish", "index"} => pc'[q] = pc[q]

LEMMA MediaInvFrame ==
  ASSUME TypeOK, TypeOK', MediaInv,
         UNCHANGED <<videoStatus, claims, objects, docs>>,
         \A j \in Jobs : jobStatus'[j] = "none" => jobStatus[j] = "none",
         submitting' \subseteq submitting,
         Len(stream') >= Len(stream),
         \A i \in 1 .. Len(stream) : stream'[i] = stream[i],
         \A i \in 1 .. Len(stream') :
            i > Len(stream) => jobStatus[stream'[i].job] # "none",
         \A q \in Procs : Follows(q)
  PROVE  MediaInv'
<1> USE DEF MediaInv
<1>1. \A i \in 1 .. Len(stream') : stream'[i].job \in Jobs
  <2>1. \A i \in 1 .. Len(stream') : stream'[i] \in Message
    BY DEF TypeOK, QueueTypeOK
  <2> QED BY <2>1 DEF Message
<1>2. Len(stream) \in Nat /\ Len(stream') \in Nat
  BY DEF TypeOK, QueueTypeOK
<1>3. RowsFirst'
  <2>1. ASSUME NEW i \in 1 .. Len(stream') PROVE jobStatus'[stream'[i].job] # "none"
    <3>1. CASE i <= Len(stream)
      BY <1>1, <1>2, <3>1 DEF RowsFirst
    <3>2. CASE i > Len(stream)
      BY <1>1, <3>2
    <3> QED BY <1>2, <3>1, <3>2
  <2>2. /\ \A j \in submitting' : jobStatus'[j] # "none"
        /\ \A j \in Jobs : jobStatus'[j] = "none" => claims'[j] = {}
    BY DEF TypeOK, RowsTypeOK, RowsFirst
  <2> QED BY <2>1, <2>2 DEF RowsFirst
<1>4. \A q \in Procs : Active(q) /\ held'[q] = held[q] => JobOf(q)' = JobOf(q)
  BY HeldMessage DEF JobOf
<1>5. UploadsKnown'
  <2> SUFFICES ASSUME NEW q \in Procs
               PROVE  (/\ made[q] # {} => Active(q) /\ made[q] \subseteq objects[JobOf(q)]
                       /\ pc[q] \in {"poster", "publish"} => "hls" \in objects[JobOf(q)]
                       /\ pc[q] = "index" => videoStatus[JobOf(q)] = "ready")'
    BY DEF UploadsKnown
  <2>1. CASE ~ Active(q)' /\ made'[q] = {}
    BY <2>1 DEF Active, Working
  <2>2. CASE pc'[q] = "claimed" /\ made'[q] = {}
    BY <2>2
  <2>3. CASE /\ Active(q) /\ Active(q)' /\ held'[q] = held[q] /\ made'[q] = made[q]
             /\ pc'[q] \in {"poster", "publish", "index"} => pc'[q] = pc[q]
    BY <1>4, <2>3 DEF UploadsKnown
  <2> QED BY <2>1, <2>2, <2>3 DEF Follows
<1>6. MediaBacked'
  BY DEF MediaBacked
<1> QED BY <1>3, <1>5, <1>6

(* Objects are only ever added, and a goroutine's next step relies on its  *)
(* own upload.                                                             *)
LEMMA MediaInvUpload ==
  ASSUME TypeOK, TypeOK', MediaInv, NEW p \in Procs, Active(p), NEW artifact \in Artifacts,
         UNCHANGED <<stream, submitting, jobStatus, videoStatus, claims, docs, held>>,
         objects' \in {objects, [objects EXCEPT ![JobOf(p)] = @ \cup {artifact}]},
         \A q \in Procs \ {p} : made'[q] = made[q] /\ pc'[q] = pc[q],
         Active(p)',
         made'[p] \in {made[p], made[p] \cup {artifact}},
         made'[p] # made[p] => objects' # objects \/ artifact \in objects[JobOf(p)],
         pc'[p] = "publish" => "hls" \in objects[JobOf(p)],
         pc'[p] = "poster" => "hls" \in objects'[JobOf(p)],
         pc'[p] # "index"
  PROVE  MediaInv'
<1> USE DEF MediaInv
<1>1. \A q \in Procs : JobOf(q)' = JobOf(q)
  BY DEF JobOf
<1>2. JobOf(p) \in Jobs
  BY HeldMessage
<1>3. \A j \in Jobs : objects[j] \subseteq objects'[j]
  BY <1>2 DEF TypeOK, RowsTypeOK
<1>4. RowsFirst'
  BY DEF RowsFirst
<1>5. MediaBacked'
  BY <1>3 DEF MediaBacked
<1>6. ASSUME NEW q \in Procs, q # p
      PROVE  (/\ made[q] # {} => Active(q) /\ made[q] \subseteq objects[JobOf(q)]
              /\ pc[q] \in {"poster", "publish"} => "hls" \in objects[JobOf(q)]
              /\ pc[q] = "index" => videoStatus[JobOf(q)] = "ready")'
  <2>1. Active(q) => JobOf(q) \in Jobs
    BY HeldMessage
  <2>2. pc[q] \in {"poster", "publish"} => Active(q)
    BY DEF Active, Working
  <2> QED BY <1>1, <1>3, <1>6, <2>1, <2>2 DEF UploadsKnown, Active
<1>7. made'[p] \subseteq objects'[JobOf(p)]
  <2>1. made[p] \subseteq objects[JobOf(p)]
    BY DEF UploadsKnown
  <2>2. made'[p] # made[p] => artifact \in objects'[JobOf(p)]
    BY <1>2, <1>3 DEF TypeOK, RowsTypeOK
  <2> QED BY <1>2, <1>3, <2>1, <2>2
<1>8. pc'[p] \in {"poster", "publish"} => "hls" \in objects'[JobOf(p)]
  BY <1>2, <1>3
<1>9. UploadsKnown'
  BY <1>1, <1>6, <1>7, <1>8 DEF UploadsKnown
<1> QED BY <1>4, <1>5, <1>9

LEMMA MediaInvInsertJob ==
  ASSUME TypeOK, MediaInv, NEW j \in Jobs, InsertJob(j)
  PROVE  MediaInv'
<1> USE DEF MediaInv, InsertJob, queueVars, procVars
<1>1. RowsFirst'
  BY DEF RowsFirst, TypeOK, RowsTypeOK, QueueTypeOK
<1>2. claims[j] = {} /\ videoStatus[j] # "ready" /\ j \notin docs
  BY DEF RowsFirst, MediaBacked
<1>3. MediaBacked'
  BY <1>2 DEF MediaBacked, TypeOK, RowsTypeOK
<1>4. UploadsKnown'
  <2>1. \A p \in Procs : Active(p) => JobOf(p) # j /\ JobOf(p) \in Jobs
    BY HeldMessage DEF RowsFirst, JobOf
  <2>2. \A p \in Procs : pc[p] = "index" => Active(p)
    BY DEF Active, Working
  <2> QED BY <2>1, <2>2 DEF UploadsKnown, JobOf, Active, TypeOK, RowsTypeOK
<1> QED BY <1>1, <1>3, <1>4

LEMMA MediaInvUpdateVideoReady ==
  ASSUME TypeOK, MediaInv, NEW p \in Procs, UpdateVideoReady(p)
  PROVE  MediaInv'
<1> USE DEF MediaInv
<1>1. Active(p) /\ JobOf(p) \in Jobs
  BY HeldMessage DEF UpdateVideoReady, Active, Working
<1>2. UNCHANGED <<stream, submitting, jobStatus, objects, docs, held, made>>
  BY DEF UpdateVideoReady, queueVars, apiVars, jobVars
<1>3. \A q \in Procs : JobOf(q)' = JobOf(q)
  BY <1>2 DEF JobOf
<1>4. /\ "hls" \in objects[JobOf(p)] /\ made[p] \subseteq objects[JobOf(p)]
      /\ jobStatus[JobOf(p)] # "none"
  BY <1>1, HeldMessage DEF UploadsKnown, RowsFirst, UpdateVideoReady, JobOf
<1>5. CASE UNCHANGED <<videoStatus, claims>> /\ pc' = [pc EXCEPT ![p] = "failed"]
  <2>1. RowsFirst' /\ MediaBacked'
    BY <1>2, <1>5 DEF RowsFirst, MediaBacked
  <2>2. UploadsKnown'
    BY <1>1, <1>2, <1>3, <1>5 DEF UploadsKnown, Active, Retiring, TypeOK, ProcTypeOK
  <2> QED BY <2>1, <2>2
<1>6. CASE /\ videoStatus' = [videoStatus EXCEPT ![JobOf(p)] = "ready"]
           /\ claims' = [claims EXCEPT ![JobOf(p)] =
                           (@ \ {"poster"}) \cup {"hls"} \cup (made[p] \cap {"poster"})]
           /\ pc' \in {[pc EXCEPT ![p] = "index"], [pc EXCEPT ![p] = "failed"]}
  <2>1. RowsFirst'
    BY <1>1, <1>2, <1>4, <1>6 DEF RowsFirst, TypeOK, RowsTypeOK
  <2>2. MediaBacked'
    BY <1>1, <1>2, <1>4, <1>6 DEF MediaBacked, TypeOK, RowsTypeOK
  <2>3. UploadsKnown'
    <3>1. \A q \in Procs : Active(q) => Active(q)'
      BY <1>6 DEF Active, Working, Retiring, TypeOK, ProcTypeOK
    <3>2. \A j \in Jobs : videoStatus[j] = "ready" => videoStatus'[j] = "ready"
      BY <1>1, <1>6 DEF TypeOK, RowsTypeOK
    <3>3. \A q \in Procs : pc[q] = "index" => JobOf(q) \in Jobs
      BY HeldMessage DEF Active, Working
    <3>4. /\ \A q \in Procs \ {p} : pc'[q] = pc[q]
          /\ pc'[p] \in {"index", "failed"}
          /\ videoStatus'[JobOf(p)] = "ready"
      BY <1>1, <1>6 DEF TypeOK, ProcTypeOK, RowsTypeOK
    <3> QED BY <1>2, <1>3, <3>1, <3>2, <3>3, <3>4 DEF UploadsKnown
  <2> QED BY <2>1, <2>2, <2>3
<1>7. \/ UNCHANGED <<videoStatus, claims>> /\ pc' = [pc EXCEPT ![p] = "failed"]
      \/ /\ videoStatus' = [videoStatus EXCEPT ![JobOf(p)] = "ready"]
         /\ claims' = [claims EXCEPT ![JobOf(p)] =
                         (@ \ {"poster"}) \cup {"hls"} \cup (made[p] \cap {"poster"})]
         /\ pc' \in {[pc EXCEPT ![p] = "index"], [pc EXCEPT ![p] = "failed"]}
  BY DEF UpdateVideoReady, Goto, Fail, Executed, Succeeded
<1> QED BY <1>5, <1>6, <1>7

LEMMA MediaInvIndexVideoReady ==
  ASSUME TypeOK, MediaInv, NEW p \in Procs, IndexVideoReady(p)
  PROVE  MediaInv'
<1> USE DEF MediaInv
<1>1. Active(p) /\ JobOf(p) \in Jobs /\ videoStatus[JobOf(p)] = "ready"
  BY HeldMessage DEF IndexVideoReady, Active, Working, UploadsKnown
<1>2. UNCHANGED <<stream, submitting, jobStatus, videoStatus, claims, objects, held, made>>
  BY DEF IndexVideoReady, queueVars, apiVars, jobVars
<1>3. RowsFirst' /\ MediaBacked'
  BY <1>1, <1>2 DEF RowsFirst, MediaBacked, IndexVideoReady
<1>4. UploadsKnown'
  BY <1>1, <1>2 DEF UploadsKnown, IndexVideoReady, Goto, JobOf, Active, Working, TypeOK,
     ProcTypeOK
<1> QED BY <1>3, <1>4

LEMMA MediaInvUpdateFlags ==
  ASSUME TypeOK, MediaInv, NEW p \in Procs, UpdateFlags(p)
  PROVE  MediaInv'
<1> USE DEF MediaInv
<1>1. Active(p) /\ JobOf(p) \in Jobs /\ made[p] \subseteq objects[JobOf(p)]
  BY HeldMessage DEF UpdateFlags, Active, Working, UploadsKnown
<1>2. jobStatus[JobOf(p)] # "none"
  BY <1>1, HeldMessage DEF RowsFirst, JobOf
<1>3. UNCHANGED <<stream, submitting, jobStatus, videoStatus, objects, docs, held, made>>
  BY DEF UpdateFlags, queueVars, apiVars, jobVars
<1>4. RowsFirst'
  BY <1>1, <1>2, <1>3 DEF RowsFirst, UpdateFlags, TypeOK, RowsTypeOK
<1>5. MediaBacked'
  BY <1>1, <1>3 DEF MediaBacked, UpdateFlags, TypeOK, RowsTypeOK
<1>6. UploadsKnown'
  BY <1>1, <1>3 DEF UploadsKnown, UpdateFlags, Goto, JobOf, Active, Working, TypeOK,
     ProcTypeOK
<1> QED BY <1>4, <1>5, <1>6

LEMMA MediaInvNext == TypeOK /\ TypeOK' /\ MediaInv /\ [Next]_vars => MediaInv'
<1> SUFFICES ASSUME TypeOK, TypeOK', MediaInv, [Next]_vars PROVE MediaInv'
  OBVIOUS
<1> DEFINE Frame == /\ UNCHANGED <<videoStatus, claims, objects, docs>>
                    /\ \A j \in Jobs : jobStatus'[j] = "none" => jobStatus[j] = "none"
                    /\ submitting' \subseteq submitting
                    /\ Len(stream') >= Len(stream)
                    /\ \A i \in 1 .. Len(stream) : stream'[i] = stream[i]
                    /\ \A i \in 1 .. Len(stream') :
                         i > Len(stream) => jobStatus[stream'[i].job] # "none"
                    /\ \A q \in Procs : Follows(q)
<1>1. ASSUME Frame PROVE MediaInv'
  BY <1>1, MediaInvFrame
<1>2. Len(stream) \in Nat
  BY DEF TypeOK, QueueTypeOK
<1>3. \A q \in Procs : ~ Active(q) => made[q] = {}
  BY DEF MediaInv, UploadsKnown
<1> DEFINE Same == /\ UNCHANGED <<stream, submitting, videoStatus, claims, objects, docs>>
                   /\ \A j \in Jobs : jobStatus'[j] = "none" => jobStatus[j] = "none"
                   /\ \A q \in Procs : Follows(q)
<1>4. ASSUME Same PROVE MediaInv'
  <2>1. Frame
    BY <1>2, <1>4
  <2> QED BY <1>1, <2>1
<1> HIDE DEF Frame, Same
<1>5. ASSUME NEW j \in Jobs, SubmitJob(j) PROVE MediaInv'
  <2>1. /\ UNCHANGED <<videoStatus, claims, objects, docs, jobStatus, pc, held, made>>
        /\ submitting' \subseteq submitting /\ jobStatus[j] # "none"
    BY <1>5 DEF SubmitJob, jobVars, mediaVars, procVars, MediaInv, RowsFirst
  <2>2. /\ Len(stream') >= Len(stream)
        /\ \A i \in 1 .. Len(stream) : stream'[i] = stream[i]
        /\ \A i \in 1 .. Len(stream') : i > Len(stream) => stream'[i].job = j
    <3>1. PICK o : Enqueue(j, 0, o)
      BY <1>5 DEF SubmitJob
    <3>2. /\ Len(stream') >= Len(stream)
          /\ \A i \in 1 .. Len(stream) : stream'[i] = stream[i]
          /\ \A i \in 1 .. Len(stream') :
               i > Len(stream) => stream'[i] = [job |-> j, attempt |-> 0]
      BY <3>1, EnqueueQueue DEF TypeOK
    <3> QED BY <3>2
  <2>3. \A q \in Procs : Follows(q)
    BY <1>3, <2>1 DEF Follows, Active
  <2> QED BY <1>1, <2>1, <2>2, <2>3 DEF Frame
<1>6. ASSUME NEW j \in Jobs, LoseRaw(j) PROVE Same
  BY <1>3, <1>6 DEF Same, LoseRaw, queueVars, jobVars, mediaVars, procVars, Follows, Active
<1>7. ASSUME NEW p \in Procs, Claim(p) PROVE Same
  BY <1>3, <1>7 DEF Same, Claim, Deliver, apiVars, jobVars, mediaVars, Goto, Follows, Active,
     Working, Retiring, TypeOK, ProcTypeOK
<1>8. ASSUME NEW p \in Procs, ClaimLost(p) PROVE Same
  BY <1>3, <1>8 DEF Same, ClaimLost, Deliver, apiVars, jobVars, mediaVars, Finish, Goto,
     Follows, Active, Working, Retiring, TypeOK, ProcTypeOK
<1>9. ASSUME NEW p \in Procs, StopIdle(p) PROVE Same
  BY <1>3, <1>9 DEF Same, StopIdle, queueVars, apiVars, jobVars, mediaVars, Finish, Goto,
     Follows, Active, Working, Retiring, TypeOK, ProcTypeOK
<1>10. ASSUME NEW p \in Procs, Active(p),
              pc' \in {[pc EXCEPT ![p] = l] :
                         l \in (Working \ {"poster", "publish", "index"}) \cup Retiring},
              UNCHANGED <<held, made>>
       PROVE  \A q \in Procs : Follows(q)
  <2>1. PICK l \in (Working \ {"poster", "publish", "index"}) \cup Retiring :
          pc' = [pc EXCEPT ![p] = l]
    BY <1>10
  <2>2. l \notin {"poster", "publish", "index"} /\ l \in Working \cup Retiring
    BY <2>1 DEF Retiring
  <2>3. pc'[p] = l /\ \A q \in Procs \ {p} : pc'[q] = pc[q]
    BY <2>1 DEF TypeOK, ProcTypeOK
  <2> QED BY <1>3, <1>10, <2>2, <2>3 DEF Follows, Active
<1>11. ASSUME NEW p \in Procs, UpdateJobRunning(p) PROVE Same
  <2>1. \A q \in Procs : Follows(q)
    BY <1>10, <1>11 DEF UpdateJobRunning, Fail, Goto, Active, Working, Retiring
  <2>2. \A j \in Jobs : jobStatus'[j] = "none" => jobStatus[j] = "none"
    BY <1>11 DEF UpdateJobRunning, TypeOK, RowsTypeOK
  <2> QED BY <1>11, <2>1, <2>2 DEF Same, UpdateJobRunning, queueVars, apiVars, mediaVars
<1>12. ASSUME NEW p \in Procs, Download(p) PROVE Same
  <2>1. \A q \in Procs : Follows(q)
    BY <1>10, <1>12 DEF Download, Fail, Goto, Active, Working, Retiring
  <2> QED BY <1>12, <2>1 DEF Same, Download, queueVars, apiVars, jobVars, mediaVars
<1>13. ASSUME NEW p \in Procs, Transcode(p) PROVE Same
  <2>1. \A q \in Procs : Follows(q)
    BY <1>10, <1>13 DEF Transcode, Fail, Goto, Active, Working, Retiring
  <2> QED BY <1>13, <2>1 DEF Same, Transcode, queueVars, apiVars, jobVars, mediaVars
<1>14. ASSUME NEW p \in Procs, ReportProgress(p) PROVE Same
  BY <1>3, <1>14 DEF Same, ReportProgress, queueVars, apiVars, jobVars, mediaVars, procVars,
     Follows, Active
<1>15. ASSUME NEW r \in Workers \X Jobs, WriteProgress(r) PROVE Same
  BY <1>3, <1>15 DEF Same, WriteProgress, queueVars, apiVars, mediaVars, procVars, Follows,
     Active
<1>16. ASSUME NEW p \in Procs, UploadHLSOutputs(p) PROVE MediaInv'
  <2>1. Active(p) /\ JobOf(p) \in Jobs /\ Active(p)'
    BY <1>16, HeldMessage DEF UploadHLSOutputs, Fail, Goto, Active, Working, Retiring, TypeOK,
       ProcTypeOK
  <2>2. /\ UNCHANGED <<stream, submitting, jobStatus, videoStatus, claims, docs, held, made>>
        /\ objects' \in {objects, [objects EXCEPT ![JobOf(p)] = @ \cup {"hls"}]}
        /\ \A q \in Procs \ {p} : pc'[q] = pc[q]
        /\ pc'[p] \in {"poster", "failed"}
    BY <1>16 DEF UploadHLSOutputs, Fail, Goto, queueVars, apiVars, jobVars, TypeOK, ProcTypeOK
  <2>3. pc'[p] = "poster" => "hls" \in objects'[JobOf(p)]
    BY <1>16, <2>1 DEF UploadHLSOutputs, Fail, Goto, Succeeded, Executed, TypeOK, ProcTypeOK,
       RowsTypeOK
  <2> QED BY <2>1, <2>2, <2>3, MediaInvUpload DEF Artifacts
<1>17. ASSUME NEW p \in Procs, NEW label \in Working, NEW artifact \in Artifacts,
              NEW next \in Working \ {"poster", "index"}, NEW outcomes,
              Attach(p, label, artifact, next, outcomes),
              next = "publish" => label = "poster"
       PROVE  MediaInv'
  <2>1. Active(p) /\ JobOf(p) \in Jobs /\ Active(p)'
    BY <1>17, HeldMessage DEF Attach, Goto, Active, TypeOK, ProcTypeOK
  <2>2. /\ UNCHANGED <<stream, submitting, jobStatus, videoStatus, claims, docs, held>>
        /\ objects' \in {objects, [objects EXCEPT ![JobOf(p)] = @ \cup {artifact}]}
        /\ \A q \in Procs \ {p} : pc'[q] = pc[q] /\ made'[q] = made[q]
        /\ pc'[p] = next
        /\ made'[p] \in {made[p], made[p] \cup {artifact}}
    BY <1>17 DEF Attach, Goto, queueVars, apiVars, jobVars, TypeOK, ProcTypeOK
  <2>3. made'[p] # made[p] => objects' # objects \/ artifact \in objects[JobOf(p)]
    BY <1>17, <2>1 DEF Attach, Succeeded, Executed, TypeOK, ProcTypeOK, RowsTypeOK
  <2>4. pc'[p] = "publish" => "hls" \in objects[JobOf(p)]
    BY <1>17, <2>2 DEF Attach, MediaInv, UploadsKnown
  <2> QED BY <1>17, <2>1, <2>2, <2>3, <2>4, MediaInvUpload
<1>18. ASSUME NEW p \in Procs,
              GenerateAndUploadThumbnail(p) \/ UploadDASHOutputs(p) \/ UploadSubtitleVTT(p)
       PROVE  MediaInv'
  BY <1>17, <1>18 DEF GenerateAndUploadThumbnail, UploadDASHOutputs, UploadSubtitleVTT,
     Working, Artifacts
<1>19. ASSUME NEW p \in Procs, UpdateJobComplete(p) PROVE Same
  <2>1. \A q \in Procs : Follows(q)
    BY <1>10, <1>19 DEF UpdateJobComplete, Fail, Goto, Active, Working, Retiring
  <2>2. \A j \in Jobs : jobStatus'[j] = "none" => jobStatus[j] = "none"
    BY <1>19 DEF UpdateJobComplete, TypeOK, RowsTypeOK
  <2> QED BY <1>19, <2>1, <2>2 DEF Same, UpdateJobComplete, queueVars, apiVars, mediaVars
<1>20. ASSUME NEW p \in Procs, Finish(p) PROVE Follows(p)
  BY <1>20 DEF Follows, Finish, Goto, Active, Working, Retiring, TypeOK, ProcTypeOK
<1>21. ASSUME NEW p \in Procs, Finish(p) PROVE \A q \in Procs : Follows(q)
  BY <1>3, <1>20, <1>21 DEF Follows, Finish, Goto, Active, TypeOK, ProcTypeOK
<1>22. ASSUME NEW p \in Procs, AckDone(p) PROVE Same
  BY <1>21, <1>22 DEF Same, AckDone, Ack, apiVars, jobVars, mediaVars
<1>23. ASSUME NEW p \in Procs, UpdateJobFailed(p) PROVE Same
  <2>1. \A q \in Procs : Follows(q)
    BY <1>10, <1>23 DEF UpdateJobFailed, Goto, Active, Working, Retiring
  <2>2. \A j \in Jobs : jobStatus'[j] = "none" => jobStatus[j] = "none"
    BY <1>23 DEF UpdateJobFailed, TypeOK, RowsTypeOK
  <2> QED BY <1>23, <2>1, <2>2 DEF Same, UpdateJobFailed, queueVars, apiVars, mediaVars
<1>24. ASSUME NEW p \in Procs, Bury(p) PROVE Same
  BY <1>21, <1>24 DEF Same, Bury, MoveToDeadLetter, apiVars, jobVars, mediaVars
<1>25. ASSUME NEW p \in Procs, NackAck(p) PROVE Same
  <2>1. ASSUME Goto(p, "reenqueue"), UNCHANGED <<held, made>>
        PROVE  \A q \in Procs : Follows(q)
    BY <1>10, <1>25, <2>1 DEF NackAck, Goto, Active, Working, Retiring
  <2>2. \A q \in Procs : Follows(q)
    BY <1>21, <1>25, <2>1 DEF NackAck
  <2> QED BY <1>25, <2>2 DEF Same, NackAck, Ack, apiVars, jobVars, mediaVars
<1>26. ASSUME NEW p \in Procs, NackEnqueue(p) PROVE MediaInv'
  <2>1. Active(p) /\ JobOf(p) \in Jobs /\ AttemptOf(p) + 1 \in Nat /\ held[p] \in 1 .. Len(stream)
    BY <1>26, HeldMessage DEF NackEnqueue, Active, Retiring
  <2>2. jobStatus[JobOf(p)] # "none"
    BY <2>1 DEF MediaInv, RowsFirst, JobOf
  <2>3. /\ Len(stream') >= Len(stream)
        /\ \A i \in 1 .. Len(stream) : stream'[i] = stream[i]
        /\ \A i \in 1 .. Len(stream') : i > Len(stream) => stream'[i].job = JobOf(p)
    <3>1. PICK o : Enqueue(JobOf(p), AttemptOf(p) + 1, o)
      BY <1>26 DEF NackEnqueue
    <3>2. /\ Len(stream') >= Len(stream)
          /\ \A i \in 1 .. Len(stream) : stream'[i] = stream[i]
          /\ \A i \in 1 .. Len(stream') :
               i > Len(stream) => stream'[i] = [job |-> JobOf(p), attempt |-> AttemptOf(p) + 1]
      BY <2>1, <3>1, EnqueueQueue DEF TypeOK
    <3> QED BY <3>2
  <2>4. UNCHANGED <<videoStatus, claims, objects, docs, jobStatus, submitting>>
    BY <1>26 DEF NackEnqueue, apiVars, jobVars, mediaVars
  <2>5. \A q \in Procs : Follows(q)
    BY <1>21, <1>26 DEF NackEnqueue
  <2> QED BY <1>1, <2>2, <2>3, <2>4, <2>5 DEF Frame
<1>27. ASSUME NEW w \in Workers, Shutdown(w) PROVE Same
  BY <1>3, <1>27 DEF Same, Shutdown, queueVars, apiVars, jobVars, mediaVars, procVars,
     Follows, Active
<1>28. ASSUME NEW w \in Workers, Crash(w) PROVE Same
  <2>1. \A q \in Procs : Follows(q)
    BY <1>3, <1>28 DEF Crash, Follows, Active, Working, Retiring
  <2> QED BY <1>28, <2>1 DEF Same, Crash, queueVars, apiVars, jobVars, mediaVars
<1>29. ASSUME NEW w \in Workers, Restart(w) PROVE Same
  <2>1. \A q \in Procs : Follows(q)
    BY <1>3, <1>29 DEF Restart, Follows, Active, Working, Retiring
  <2> QED BY <1>29, <2>1 DEF Same, Restart, queueVars, apiVars, jobVars, mediaVars
<1>30. ASSUME UNCHANGED vars PROVE Same
  BY <1>3, <1>30 DEF Same, vars, queueVars, apiVars, jobVars, mediaVars, procVars, Follows,
     Active
<1> QED
  BY <1>4, <1>5, <1>6, <1>7, <1>8, <1>9, <1>11, <1>12, <1>13, <1>14, <1>15, <1>16, <1>18,
     <1>19, <1>22, <1>23, <1>24, <1>25, <1>26, <1>27, <1>28, <1>29, <1>30,
     MediaInvInsertJob, MediaInvUpdateVideoReady, MediaInvIndexVideoReady,
     MediaInvUpdateFlags DEF Next, Step

(* Whatever fails, is lost or is done twice: the database never advertises *)
(* media that is not in the object store, a video is ready exactly when    *)
(* its renditions are recorded, and search knows ready videos only.        *)
THEOREM MediaBackedHolds == Spec => []MediaBacked
<1>1. Init => TypeOK /\ MediaInv
  BY TypeInit, MediaInvInit
<1>2. TypeOK /\ MediaInv /\ [Next]_vars => (TypeOK /\ MediaInv)'
  BY TypeNext, MediaInvNext
<1>3. MediaInv => MediaBacked
  BY DEF MediaInv
<1> QED BY <1>1, <1>2, <1>3, PTL DEF Spec

------------------------------------------------------------------------------
(* Action properties.                                                      *)

LEMMA ProgressStep ==
  ASSUME TypeOK, Next
  PROVE  \A j \in Jobs : progress'[j] >= progress[j]
<1> USE DEF TypeOK, RowsTypeOK
<1>1. ASSUME UNCHANGED progress PROVE \A j \in Jobs : progress'[j] >= progress[j]
  BY <1>1
<1>2. ASSUME NEW r \in Workers \X Jobs, WriteProgress(r)
      PROVE  \A j \in Jobs : progress'[j] >= progress[j]
  <2>1. r[2] \in Jobs
    OBVIOUS
  <2> QED BY <1>2, <2>1 DEF WriteProgress, GreatestProgress
<1>3. ASSUME NEW p \in Procs, UpdateJobComplete(p)
      PROVE  \A j \in Jobs : progress'[j] >= progress[j]
  <2>1. JobOf(p) \in Jobs
    BY <1>3, HeldMessage DEF UpdateJobComplete, Active, Working
  <2> QED BY <1>3, <2>1 DEF UpdateJobComplete
<1>4. ASSUME NEW j \in Jobs, InsertJob(j) \/ SubmitJob(j) \/ LoseRaw(j)
      PROVE  UNCHANGED progress
  BY <1>4 DEF InsertJob, SubmitJob, LoseRaw, jobVars
<1>5. ASSUME NEW p \in Procs,
             \/ Claim(p) \/ ClaimLost(p) \/ StopIdle(p) \/ ReportProgress(p)
             \/ UpdateJobRunning(p) \/ Download(p) \/ Transcode(p) \/ UploadHLSOutputs(p)
      PROVE  UNCHANGED progress
  BY <1>5 DEF Claim, ClaimLost, StopIdle, ReportProgress, UpdateJobRunning, Download,
     Transcode, UploadHLSOutputs, jobVars
<1>6. ASSUME NEW p \in Procs,
             \/ GenerateAndUploadThumbnail(p) \/ UpdateVideoReady(p) \/ IndexVideoReady(p)
             \/ UploadDASHOutputs(p) \/ UploadSubtitleVTT(p) \/ UpdateFlags(p)
      PROVE  UNCHANGED progress
  BY <1>6 DEF GenerateAndUploadThumbnail, UpdateVideoReady, IndexVideoReady,
     UploadDASHOutputs, UploadSubtitleVTT, UpdateFlags, Attach, jobVars
<1>7. ASSUME NEW p \in Procs,
             \/ AckDone(p) \/ UpdateJobFailed(p) \/ Bury(p) \/ NackAck(p) \/ NackEnqueue(p)
      PROVE  UNCHANGED progress
  BY <1>7 DEF AckDone, UpdateJobFailed, Bury, NackAck, NackEnqueue, jobVars
<1>8. ASSUME NEW w \in Workers, Shutdown(w) \/ Crash(w) \/ Restart(w)
      PROVE  UNCHANGED progress
  BY <1>8 DEF Shutdown, Crash, Restart, jobVars
<1> QED
  BY <1>1, <1>2, <1>3, <1>4, <1>5, <1>6, <1>7, <1>8 DEF Next, Step

(* progress_percent never goes back, although the progress writes of an    *)
(* attempt may land after its end, or after its completion.                *)
THEOREM ProgressMonotoneHolds == Spec => ProgressMonotone
<1>1. TypeOK /\ [Next]_vars => [\A j \in Jobs : progress'[j] >= progress[j]]_vars
  BY ProgressStep
<1> QED BY <1>1, TypeCorrect, PTL DEF Spec, ProgressMonotone


LEMMA PublishedStep ==
  ASSUME TypeOK, MediaInv, Next
  PROVE  \A j \in Jobs : "hls" \in claims[j] =>
           /\ videoStatus'[j] = "ready"
           /\ claims'[j] \cap {"hls", "poster"} = claims[j] \cap {"hls", "poster"}
<1> DEFINE Kept(j) == "hls" \in claims[j] =>
             /\ videoStatus'[j] = "ready"
             /\ claims'[j] \cap {"hls", "poster"} = claims[j] \cap {"hls", "poster"}
<1> USE DEF TypeOK, RowsTypeOK
<1>1. \A j \in Jobs : "hls" \in claims[j] => videoStatus[j] = "ready"
  BY DEF MediaInv, MediaBacked
<1>2. ASSUME UNCHANGED <<videoStatus, claims>> PROVE \A j \in Jobs : Kept(j)
  BY <1>1, <1>2
<1>3. ASSUME NEW k \in Jobs, InsertJob(k) PROVE \A j \in Jobs : Kept(j)
  <2>1. claims[k] = {}
    BY <1>3 DEF InsertJob, MediaInv, RowsFirst
  <2> QED BY <1>1, <1>3, <2>1 DEF InsertJob
<1>4. ASSUME NEW p \in Procs, UpdateVideoReady(p) PROVE \A j \in Jobs : Kept(j)
  <2>1. JobOf(p) \in Jobs
    BY <1>4, HeldMessage DEF UpdateVideoReady, Active, Working
  <2>2. CASE "hls" \in claims[JobOf(p)]
    BY <1>2, <1>4, <2>2 DEF UpdateVideoReady
  <2>3. CASE "hls" \notin claims[JobOf(p)]
    <3>1. \A j \in Jobs \ {JobOf(p)} : claims'[j] = claims[j] /\ videoStatus'[j] = videoStatus[j]
      BY <1>4, <2>1 DEF UpdateVideoReady
    <3> QED BY <1>1, <2>3, <3>1
  <2> QED BY <2>2, <2>3
<1>5. ASSUME NEW p \in Procs, UpdateFlags(p) PROVE \A j \in Jobs : Kept(j)
  <2>1. JobOf(p) \in Jobs
    BY <1>5, HeldMessage DEF UpdateFlags, Active, Working
  <2>2. claims'[JobOf(p)] \cap {"hls", "poster"} = claims[JobOf(p)] \cap {"hls", "poster"}
    BY <1>5, <2>1 DEF UpdateFlags
  <2>3. \A j \in Jobs \ {JobOf(p)} : claims'[j] = claims[j]
    BY <1>5, <2>1 DEF UpdateFlags
  <2> QED BY <1>1, <1>5, <2>2, <2>3 DEF UpdateFlags
<1>6. ASSUME NEW j \in Jobs, SubmitJob(j) \/ LoseRaw(j)
      PROVE  UNCHANGED <<videoStatus, claims>>
  BY <1>6 DEF SubmitJob, LoseRaw, mediaVars
<1>7. ASSUME NEW p \in Procs,
             \/ Claim(p) \/ ClaimLost(p) \/ StopIdle(p) \/ ReportProgress(p)
             \/ UpdateJobRunning(p) \/ Download(p) \/ Transcode(p) \/ UploadHLSOutputs(p)
      PROVE  UNCHANGED <<videoStatus, claims>>
  BY <1>7 DEF Claim, ClaimLost, StopIdle, ReportProgress, UpdateJobRunning, Download,
     Transcode, UploadHLSOutputs, mediaVars
<1>8. ASSUME NEW p \in Procs,
             \/ GenerateAndUploadThumbnail(p) \/ IndexVideoReady(p)
             \/ UploadDASHOutputs(p) \/ UploadSubtitleVTT(p) \/ UpdateJobComplete(p)
      PROVE  UNCHANGED <<videoStatus, claims>>
  BY <1>8 DEF GenerateAndUploadThumbnail, IndexVideoReady, UploadDASHOutputs,
     UploadSubtitleVTT, UpdateJobComplete, Attach, mediaVars
<1>9. ASSUME NEW p \in Procs,
             \/ AckDone(p) \/ UpdateJobFailed(p) \/ Bury(p) \/ NackAck(p) \/ NackEnqueue(p)
      PROVE  UNCHANGED <<videoStatus, claims>>
  BY <1>9 DEF AckDone, UpdateJobFailed, Bury, NackAck, NackEnqueue, mediaVars
<1>10. ASSUME NEW w \in Workers, Shutdown(w) \/ Crash(w) \/ Restart(w)
       PROVE  UNCHANGED <<videoStatus, claims>>
  BY <1>10 DEF Shutdown, Crash, Restart, mediaVars
<1>11. ASSUME NEW r \in Workers \X Jobs, WriteProgress(r)
       PROVE  UNCHANGED <<videoStatus, claims>>
  BY <1>11 DEF WriteProgress, mediaVars
<1> HIDE DEF Kept
<1>12. \A j \in Jobs : Kept(j)
  BY <1>2, <1>3, <1>4, <1>5, <1>6, <1>7, <1>8, <1>9, <1>10, <1>11 DEF Next, Step
<1> QED BY <1>12 DEF Kept

(* Whatever fails, is lost or is done twice: a published video stays ready *)
(* and is never published again.                                           *)
THEOREM PublishedOnceHolds == Spec => PublishedOnce
<1>1. Init => TypeOK /\ MediaInv
  BY TypeInit, MediaInvInit
<1>2. TypeOK /\ MediaInv /\ [Next]_vars => (TypeOK /\ MediaInv)'
  BY TypeNext, MediaInvNext
<1>3. TypeOK /\ MediaInv /\ [Next]_vars =>
        [\A j \in Jobs : "hls" \in claims[j] =>
           /\ videoStatus'[j] = "ready"
           /\ claims'[j] \cap {"hls", "poster"} = claims[j] \cap {"hls", "poster"}]_vars
  BY PublishedStep
<1> QED BY <1>1, <1>2, <1>3, PTL DEF Spec, PublishedOnce

(* progress_percent never decreases and a published video is not published *)
(* again, under every fault.                                               *)
THEOREM RowsAdvanceHolds == Spec => RowsAdvance
BY ProgressMonotoneHolds, PublishedOnceHolds DEF RowsAdvance

------------------------------------------------------------------------------
(* The refinement. Its five mapped variables, under the names the proofs   *)
(* use.                                                                    *)
Accepted == {j \in Jobs : jobStatus[j] # "none"}
AtWork == [j \in Jobs |-> {p \in Procs : Active(p) /\ JobOf(p) = j}]
Published == {j \in Jobs : videoStatus[j] = "ready"}
Dead == {e.job : e \in dlq}

(* A goroutine that got past updateJobRunning has counted its attempt.     *)
Counted ==
  \A p \in Procs : pc[p] \in Working \ {"claimed"} => dbAttempt[JobOf(p)] > 0

LEMMA CountedInit == Init => Counted
BY DEF Init, Counted, Working

(* Goroutines that only go on keep what they counted.                      *)
LEMMA CountedNext ==
  ASSUME TypeOK, TypeOK', Counted, [Next]_vars
  PROVE  Counted'
<1> DEFINE Keeps(q) == pc'[q] \in Working \ {"claimed"} =>
             /\ pc[q] \in Working \ {"claimed"}
             /\ held'[q] = held[q]
<1>1. \A i \in 1 .. Len(stream) : stream'[i] = stream[i]
  <2>1. ASSUME NEW j \in Jobs, SubmitJob(j)
        PROVE  \A i \in 1 .. Len(stream) : stream'[i] = stream[i]
    BY <2>1, EnqueueQueue DEF SubmitJob, TypeOK
  <2>2. ASSUME NEW p \in Procs, NackEnqueue(p)
        PROVE  \A i \in 1 .. Len(stream) : stream'[i] = stream[i]
    <3>1. JobOf(p) \in Jobs /\ AttemptOf(p) + 1 \in Nat
      BY <2>2, HeldMessage DEF NackEnqueue, Active, Retiring
    <3> QED BY <2>2, <3>1, EnqueueQueue DEF NackEnqueue, TypeOK
  <2>3. ASSUME NEW j \in Jobs, InsertJob(j) \/ LoseRaw(j) PROVE UNCHANGED stream
    BY <2>3 DEF InsertJob, LoseRaw, queueVars
  <2>4. ASSUME NEW p \in Procs,
               \/ Claim(p) \/ ClaimLost(p) \/ StopIdle(p) \/ ReportProgress(p)
               \/ UpdateJobRunning(p) \/ Download(p) \/ Transcode(p) \/ UploadHLSOutputs(p)
        PROVE  UNCHANGED stream
    BY <2>4 DEF Claim, ClaimLost, StopIdle, ReportProgress, UpdateJobRunning, Download,
       Transcode, UploadHLSOutputs, Deliver, queueVars
  <2>5. ASSUME NEW p \in Procs,
               \/ GenerateAndUploadThumbnail(p) \/ UpdateVideoReady(p) \/ IndexVideoReady(p)
               \/ UploadDASHOutputs(p) \/ UploadSubtitleVTT(p) \/ UpdateFlags(p)
               \/ UpdateJobComplete(p)
        PROVE  UNCHANGED stream
    BY <2>5 DEF GenerateAndUploadThumbnail, UpdateVideoReady, IndexVideoReady,
       UploadDASHOutputs, UploadSubtitleVTT, UpdateFlags, UpdateJobComplete, Attach, queueVars
  <2>6. ASSUME NEW p \in Procs, AckDone(p) \/ UpdateJobFailed(p) \/ Bury(p) \/ NackAck(p)
        PROVE  UNCHANGED stream
    BY <2>6 DEF AckDone, UpdateJobFailed, Bury, NackAck, Ack, MoveToDeadLetter, queueVars
  <2>7. ASSUME NEW w \in Workers, Shutdown(w) \/ Crash(w) \/ Restart(w)
        PROVE  UNCHANGED stream
    BY <2>7 DEF Shutdown, Crash, Restart, queueVars
  <2>8. ASSUME NEW r \in Workers \X Jobs, WriteProgress(r) PROVE UNCHANGED stream
    BY <2>8 DEF WriteProgress, queueVars
  <2>9. ASSUME UNCHANGED vars PROVE UNCHANGED stream
    BY <2>9 DEF vars, queueVars
  <2> QED BY <2>1, <2>2, <2>3, <2>4, <2>5, <2>6, <2>7, <2>8, <2>9 DEF Next, Step
<1>2. ASSUME UNCHANGED dbAttempt, \A q \in Procs : Keeps(q) PROVE Counted'
  <2>1. \A q \in Procs : pc[q] \in Working => held[q] \in 1 .. Len(stream)
    BY HeldMessage DEF Active
  <2> QED BY <1>1, <1>2, <2>1 DEF Counted, JobOf
<1>3. ASSUME NEW p \in Procs, UpdateJobRunning(p) PROVE Counted'
  <2>1. JobOf(p) \in Jobs
    BY <1>3, HeldMessage DEF UpdateJobRunning, Active, Working
  <2>2. UNCHANGED <<held, stream>> /\ \A q \in Procs \ {p} : pc'[q] = pc[q]
    BY <1>3 DEF UpdateJobRunning, Fail, Goto, queueVars, TypeOK, ProcTypeOK
  <2>3. /\ \A j \in Jobs : dbAttempt'[j] \in {dbAttempt[j], dbAttempt[j] + 1}
        /\ dbAttempt \in [Jobs -> Nat]
    BY <1>3, <2>1 DEF UpdateJobRunning, TypeOK, RowsTypeOK
  <2>4. \A q \in Procs : pc[q] \in Working => JobOf(q) \in Jobs
    BY HeldMessage DEF Active
  <2>5. pc'[p] \in Working \ {"claimed"} => dbAttempt'[JobOf(p)] > 0
    BY <1>3, <2>1, <2>3 DEF UpdateJobRunning, Fail, Goto, Working, Succeeded, Executed,
       TypeOK, ProcTypeOK
  <2> QED BY <2>2, <2>3, <2>4, <2>5 DEF Counted, JobOf
<1>4. ASSUME NEW j \in Jobs, InsertJob(j) \/ SubmitJob(j) \/ LoseRaw(j)
      PROVE  UNCHANGED dbAttempt /\ \A q \in Procs : Keeps(q)
  BY <1>4 DEF InsertJob, SubmitJob, LoseRaw, jobVars, procVars
<1>5. ASSUME NEW p \in Procs, Claim(p) \/ ClaimLost(p) \/ StopIdle(p) \/ ReportProgress(p)
      PROVE  UNCHANGED dbAttempt /\ \A q \in Procs : Keeps(q)
  BY <1>5 DEF Claim, ClaimLost, StopIdle, ReportProgress, jobVars, procVars, Finish, Goto,
     Working, TypeOK, ProcTypeOK
<1>6. ASSUME NEW p \in Procs, Download(p) \/ Transcode(p) \/ UploadHLSOutputs(p)
      PROVE  UNCHANGED dbAttempt /\ \A q \in Procs : Keeps(q)
  <2>1. /\ UNCHANGED <<dbAttempt, held>>
        /\ pc[p] \in {"download", "transcode", "upload"}
        /\ \A q \in Procs \ {p} : pc'[q] = pc[q]
    BY <1>6 DEF Download, Transcode, UploadHLSOutputs, jobVars, Fail, Goto, TypeOK, ProcTypeOK
  <2> QED BY <2>1 DEF Working
<1>7. ASSUME NEW p \in Procs,
             \/ GenerateAndUploadThumbnail(p) \/ IndexVideoReady(p)
             \/ UploadDASHOutputs(p) \/ UploadSubtitleVTT(p) \/ UpdateFlags(p)
      PROVE  UNCHANGED dbAttempt /\ \A q \in Procs : Keeps(q)
  BY <1>7 DEF GenerateAndUploadThumbnail, IndexVideoReady, UploadDASHOutputs,
     UploadSubtitleVTT, UpdateFlags, Attach, jobVars, Goto, Working, TypeOK, ProcTypeOK
<1>8. ASSUME NEW p \in Procs, UpdateVideoReady(p) \/ UpdateJobComplete(p)
      PROVE  UNCHANGED dbAttempt /\ \A q \in Procs : Keeps(q)
  BY <1>8 DEF UpdateVideoReady, UpdateJobComplete, jobVars, Fail, Goto, Working, TypeOK,
     ProcTypeOK
<1>9. ASSUME NEW p \in Procs,
             AckDone(p) \/ UpdateJobFailed(p) \/ Bury(p) \/ NackAck(p) \/ NackEnqueue(p)
      PROVE  UNCHANGED dbAttempt /\ \A q \in Procs : Keeps(q)
  BY <1>9 DEF AckDone, UpdateJobFailed, Bury, NackAck, NackEnqueue, jobVars, Finish, Goto,
     Working, TypeOK, ProcTypeOK
<1>10. ASSUME NEW w \in Workers, Shutdown(w) \/ Crash(w) \/ Restart(w)
       PROVE  UNCHANGED dbAttempt /\ \A q \in Procs : Keeps(q)
  BY <1>10 DEF Shutdown, Crash, Restart, jobVars, procVars, Working
<1>11. ASSUME NEW r \in Workers \X Jobs, WriteProgress(r)
       PROVE  UNCHANGED dbAttempt /\ \A q \in Procs : Keeps(q)
  BY <1>11 DEF WriteProgress, procVars
<1>12. ASSUME UNCHANGED vars
       PROVE  UNCHANGED dbAttempt /\ \A q \in Procs : Keeps(q)
  BY <1>12 DEF vars, jobVars, procVars
<1> HIDE DEF Keeps
<1> QED
  BY <1>2, <1>3, <1>4, <1>5, <1>6, <1>7, <1>8, <1>9, <1>10, <1>11, <1>12 DEF Next, Step

(* No goroutine takes a message or lets one go.                            *)
LEMMA AtWorkSame ==
  ASSUME \A q \in Procs : Active(q)' <=> Active(q),
         \A q \in Procs : Active(q) => JobOf(q)' = JobOf(q)
  PROVE  AtWork' = AtWork
BY DEF AtWork

(* One goroutine lets its message go. It was the only one at work on the   *)
(* message's job.                                                          *)
LEMMA AtWorkEnd ==
  ASSUME TypeOK, QueueInv, NEW p \in Procs, Active(p), ~ Active(p)',
         \A q \in Procs \ {p} : Active(q)' <=> Active(q),
         \A q \in Procs \ {p} : Active(q) => JobOf(q)' = JobOf(q)
  PROVE  /\ JobOf(p) \in Jobs
         /\ AtWork[JobOf(p)] # {}
         /\ AtWork' = [AtWork EXCEPT ![JobOf(p)] = {}]
<1>1. JobOf(p) \in Jobs
  BY HeldMessage
<1>2. AtWork[JobOf(p)] # {}
  BY <1>1 DEF AtWork
<1>3. \A q \in Procs \ {p} : Active(q) => JobOf(q) # JobOf(p)
  BY QueueInvImplies DEF JobMutex
<1>4. ASSUME NEW j \in Jobs \ {JobOf(p)} PROVE AtWork'[j] = AtWork[j]
  BY DEF AtWork
<1>5. AtWork'[JobOf(p)] = {}
  BY <1>1, <1>3 DEF AtWork
<1>6. AtWork' \in [Jobs -> SUBSET Procs] /\ AtWork \in [Jobs -> SUBSET Procs]
  BY DEF AtWork
<1> QED BY <1>1, <1>2, <1>4, <1>5, <1>6

(* One goroutine takes a message.                                          *)
LEMMA AtWorkBegin ==
  ASSUME TypeOK, QueueInv, MediaInv, NEW p \in Procs, Claim(p)
  PROVE  \E j \in Accepted \ Dead :
           /\ AtWork[j] = {}
           /\ AtWork' = [AtWork EXCEPT ![j] = {p}]
<1> DEFINE j == JobOf(p)'
<1>1. /\ delivered + 1 \in 1 .. Len(stream) /\ UNCHANGED <<stream, dlq>>
      /\ ~ Active(p) /\ Active(p)' /\ held'[p] = delivered + 1
      /\ \A q \in Procs \ {p} : Active(q)' <=> Active(q)
      /\ \A q \in Procs \ {p} : JobOf(q)' = JobOf(q)
  BY DEF Claim, Deliver, Goto, Active, Working, Retiring, JobOf, TypeOK, QueueTypeOK, ProcTypeOK
<1>2. j \in Jobs
  <2>1. stream[delivered + 1] \in Message
    BY <1>1 DEF TypeOK, QueueTypeOK
  <2> QED BY <1>1, <2>1 DEF Message, JobOf
<1>3. j \in Accepted
  BY <1>1, <1>2 DEF Accepted, MediaInv, RowsFirst, JobOf
<1>4. delivered \in Nat /\ Len(stream) \in Nat
  BY DEF TypeOK, QueueTypeOK
<1>5. j \notin Dead
  BY <1>1, <1>4 DEF Dead, QueueInv, DeadIsLast, JobOf
<1>6. \A q \in Procs \ {p} : Active(q) => JobOf(q) # j
  <2>1. \A q \in Procs : Active(q) => held[q] \in 1 .. delivered
    BY DEF TypeOK, ProcTypeOK
  <2> QED BY <1>1, <1>4, <2>1 DEF QueueInv, Superseded, JobOf
<1>7. AtWork[j] = {} /\ AtWork'[j] = {p}
  BY <1>1, <1>2, <1>6 DEF AtWork
<1>8. ASSUME NEW k \in Jobs \ {j} PROVE AtWork'[k] = AtWork[k]
  BY <1>1 DEF AtWork
<1>9. AtWork' \in [Jobs -> SUBSET Procs] /\ AtWork \in [Jobs -> SUBSET Procs]
  BY DEF AtWork
<1> HIDE DEF j
<1>10. AtWork' = [AtWork EXCEPT ![j] = {p}]
  BY <1>2, <1>7, <1>8, <1>9
<1> QED BY <1>3, <1>5, <1>7, <1>10

(* Finish, whoever calls it, ends the work of one goroutine and of no      *)
(* other.                                                                  *)
LEMMA FinishEnds ==
  ASSUME TypeOK, QueueInv, NEW p \in Procs, Active(p), Finish(p),
         \A i \in 1 .. Len(stream) : stream'[i] = stream[i]
  PROVE  /\ JobOf(p) \in Jobs
         /\ AtWork[JobOf(p)] # {}
         /\ AtWork' = [AtWork EXCEPT ![JobOf(p)] = {}]
<1>1. ~ Active(p)' /\ \A q \in Procs \ {p} : pc'[q] = pc[q] /\ held'[q] = held[q]
  BY DEF Finish, Goto, Active, Working, Retiring, TypeOK, ProcTypeOK
<1>2. \A q \in Procs : Active(q) => held[q] \in 1 .. Len(stream)
  BY HeldMessage
<1>3. /\ \A q \in Procs \ {p} : Active(q)' <=> Active(q)
      /\ \A q \in Procs \ {p} : Active(q) => JobOf(q)' = JobOf(q)
  BY <1>1, <1>2 DEF Active, JobOf
<1> QED BY <1>1, <1>3, AtWorkEnd

(* Every step of the pipeline is a step of JobLifecycle or invisible there. *)
LEMMA LifecycleStep ==
  ASSUME "dup" \notin Faults, TypeOK, QueueInv, MediaInv, Counted, Next
  PROVE  [Lifecycle!Next]_(Lifecycle!lifecycle)
<1> DEFINE Same == UNCHANGED <<Accepted, dbAttempt, Published, Dead>>
<1> DEFINE Goal == [Lifecycle!Next]_(Lifecycle!lifecycle)
<1> DEFINE Kept(q) == (Active(q)' <=> Active(q)) /\ (Active(q) => JobOf(q)' = JobOf(q))
<1>1. ASSUME Same, UNCHANGED AtWork PROVE Goal
  BY <1>1 DEF Lifecycle!lifecycle, Accepted, AtWork, Published, Dead
<1>2. ASSUME NEW j \in Jobs, AtWork[j] # {}, AtWork' = [AtWork EXCEPT ![j] = {}], Same
      PROVE  Goal
  BY <1>2 DEF Lifecycle!Next, Lifecycle!End, Accepted, AtWork, Published, Dead
<1>3. ASSUME \A q \in Procs : Kept(q) PROVE UNCHANGED AtWork
  BY <1>3, AtWorkSame
<1>4. \A q \in Procs : Active(q) =>
        /\ JobOf(q) \in Jobs /\ held[q] \in 1 .. Len(stream)
        /\ jobStatus[JobOf(q)] # "none"
        /\ AtWork[JobOf(q)] # {}
  BY HeldMessage DEF MediaInv, RowsFirst, JobOf, AtWork
<1> HIDE DEF Goal
<1>5. ASSUME NEW p \in Procs, Claim(p) PROVE Goal
  <2>1. Same
    BY <1>5 DEF Claim, Deliver, jobVars, mediaVars, Accepted, Published, Dead
  <2>2. \E j \in Accepted \ Dead : AtWork[j] = {} /\ AtWork' = [AtWork EXCEPT ![j] = {p}]
    BY <1>5, AtWorkBegin
  <2> QED BY <2>1, <2>2 DEF Goal, Lifecycle!Next, Lifecycle!Begin, Accepted, AtWork, Published, Dead
<1>6. ASSUME NEW p \in Procs, Active(p), Active(p)', UNCHANGED <<stream, held>>,
             \A q \in Procs \ {p} : pc'[q] = pc[q]
      PROVE  UNCHANGED AtWork
  <2>1. \A q \in Procs : Kept(q)
    BY <1>6 DEF Active, JobOf
  <2> QED BY <1>3, <2>1
<1>7. ASSUME UNCHANGED <<stream, held, pc>> PROVE UNCHANGED AtWork
  BY <1>7 DEF AtWork, Active, JobOf
<1>8. ASSUME NEW p \in Procs, NEW next \in Working \cup Retiring, Active(p), Goto(p, next),
             UNCHANGED <<stream, held>>
      PROVE  UNCHANGED AtWork
  <2>1. Active(p)' /\ \A q \in Procs \ {p} : pc'[q] = pc[q]
    BY <1>8 DEF Goto, Active, TypeOK, ProcTypeOK
  <2> QED BY <1>6, <1>8, <2>1
<1>9. ASSUME NEW j \in Jobs, InsertJob(j) PROVE Goal
  <2>1. UNCHANGED <<AtWork, Dead, dbAttempt>>
    BY <1>7, <1>9 DEF InsertJob, queueVars, procVars, Dead
  <2>2. j \notin Accepted /\ Accepted' = Accepted \cup {j}
    BY <1>9 DEF InsertJob, Accepted, TypeOK, RowsTypeOK
  <2>3. videoStatus[j] # "ready"
    BY <1>9 DEF InsertJob, MediaInv, MediaBacked, RowsFirst
  <2>4. UNCHANGED Published
    BY <1>9, <2>3 DEF InsertJob, Published, TypeOK, RowsTypeOK
  <2> QED BY <2>1, <2>2, <2>4
       DEF Goal, Lifecycle!Next, Lifecycle!Accept, Accepted, AtWork, Published, Dead
<1>10. ASSUME NEW j \in Jobs, SubmitJob(j) PROVE Goal
  <2>1. \A i \in 1 .. Len(stream) : stream'[i] = stream[i]
    BY <1>10, EnqueueQueue DEF SubmitJob, TypeOK
  <2>2. \A q \in Procs : Kept(q)
    BY <1>4, <1>10, <2>1 DEF SubmitJob, procVars, Active, JobOf
  <2>3. Same
    BY <1>10 DEF SubmitJob, Enqueue, jobVars, mediaVars, Accepted, Published, Dead
  <2> QED BY <1>1, <1>3, <2>2, <2>3
<1>11. ASSUME NEW j \in Jobs, LoseRaw(j) PROVE Goal
  <2>1. Same
    BY <1>11 DEF LoseRaw, queueVars, jobVars, mediaVars, Accepted, Published, Dead
  <2> QED BY <1>1, <1>7, <1>11, <2>1 DEF LoseRaw, queueVars, procVars
<1>12. ASSUME NEW p \in Procs, ClaimLost(p) \/ StopIdle(p) PROVE Goal
  <2>1. Same /\ UNCHANGED stream /\ pc[p] = "idle" /\ Finish(p)
    BY <1>12 DEF ClaimLost, StopIdle, Deliver, queueVars, jobVars, mediaVars, Accepted,
       Published, Dead
  <2>2. \A q \in Procs : Kept(q)
    BY <2>1 DEF Finish, Goto, Active, Working, Retiring, JobOf, TypeOK, ProcTypeOK
  <2> QED BY <1>1, <1>3, <2>1, <2>2
<1>13. ASSUME NEW p \in Procs, UpdateJobRunning(p) PROVE Goal
  <2>1. Active(p) /\ pc[p] = "claimed" /\ UNCHANGED <<Published, Dead>>
    BY <1>13 DEF UpdateJobRunning, Active, Working, queueVars, mediaVars, Published, Dead
  <2>2. UNCHANGED AtWork
    BY <1>8, <1>13, <2>1 DEF UpdateJobRunning, Fail, Working, Retiring, queueVars
  <2>3. UNCHANGED Accepted
    BY <1>4, <1>13, <2>1 DEF UpdateJobRunning, Accepted, TypeOK, RowsTypeOK
  <2>4. CASE UNCHANGED dbAttempt
    BY <1>1, <2>1, <2>2, <2>3, <2>4
  <2>5. CASE dbAttempt' = [dbAttempt EXCEPT ![JobOf(p)] = @ + 1]
    <3>1. MaxAttempts > 0 => dbAttempt[JobOf(p)] < MaxAttempts
      <4>1. dbAttempt[JobOf(p)] \in Nat /\ AttemptOf(p) \in Nat
        BY <2>1, HeldMessage DEF TypeOK, RowsTypeOK
      <4>2. dbAttempt[JobOf(p)] <= AttemptOf(p)
        BY <2>1, <4>1 DEF QueueInv, AttemptCount
      <4>3. MaxAttempts > 0 => AttemptOf(p) < MaxAttempts
        BY <1>4, <2>1 DEF QueueInv, AttemptsBounded, AttemptOf
      <4> QED BY <4>1, <4>2, <4>3, MaxAttemptsAssumption
    <3>2. JobOf(p) \in Jobs /\ AtWork[JobOf(p)] # {}
      BY <1>4, <2>1
    <3> QED BY <2>1, <2>2, <2>3, <2>5, <3>1, <3>2
         DEF Goal, Lifecycle!Next, Lifecycle!Attempt, Accepted, AtWork, Published, Dead
  <2> QED BY <1>13, <2>4, <2>5 DEF UpdateJobRunning
<1>14. ASSUME NEW p \in Procs, Download(p) \/ Transcode(p) \/ UploadHLSOutputs(p) PROVE Goal
  <2>1. Same /\ Active(p)
    BY <1>14 DEF Download, Transcode, UploadHLSOutputs, Active, Working, queueVars, jobVars,
       mediaVars, Accepted, Published, Dead
  <2>2. UNCHANGED AtWork
    BY <1>8, <1>14, <2>1 DEF Download, Transcode, UploadHLSOutputs, Fail, Working, Retiring, queueVars
  <2> QED BY <1>1, <2>1, <2>2
<1>15. ASSUME NEW p \in Procs,
              \/ GenerateAndUploadThumbnail(p) \/ IndexVideoReady(p)
              \/ UploadDASHOutputs(p) \/ UploadSubtitleVTT(p) \/ UpdateFlags(p)
       PROVE  Goal
  <2>1. Same /\ Active(p)
    BY <1>15 DEF GenerateAndUploadThumbnail, IndexVideoReady, UploadDASHOutputs,
       UploadSubtitleVTT, UpdateFlags, Attach, Active, Working, queueVars, jobVars, Accepted,
       Published, Dead
  <2>2. UNCHANGED AtWork
    BY <1>8, <1>15, <2>1 DEF GenerateAndUploadThumbnail, IndexVideoReady, UploadDASHOutputs,
       UploadSubtitleVTT, UpdateFlags, Attach, Working, queueVars
  <2> QED BY <1>1, <2>1, <2>2
<1>16. ASSUME NEW p \in Procs, UpdateVideoReady(p) PROVE Goal
  <2>1. Active(p) /\ pc[p] = "publish" /\ UNCHANGED <<Accepted, dbAttempt, Dead>>
    BY <1>16 DEF UpdateVideoReady, Active, Working, queueVars, jobVars, Accepted, Dead
  <2>2. UNCHANGED AtWork
    BY <1>8, <1>16, <2>1 DEF UpdateVideoReady, Fail, Working, Retiring, queueVars
  <2>3. CASE UNCHANGED videoStatus
    BY <1>1, <2>1, <2>2, <2>3 DEF Published
  <2>4. CASE /\ videoStatus' = [videoStatus EXCEPT ![JobOf(p)] = "ready"]
             /\ "hls" \notin claims[JobOf(p)]
    <3>1. JobOf(p) \in Jobs /\ AtWork[JobOf(p)] # {} /\ dbAttempt[JobOf(p)] > 0
      BY <1>4, <2>1 DEF Counted, Working
    <3>2. JobOf(p) \notin Published /\ Published' = Published \cup {JobOf(p)}
      BY <2>4, <3>1 DEF Published, MediaInv, MediaBacked, TypeOK, RowsTypeOK
    <3> QED BY <2>1, <2>2, <3>1, <3>2
         DEF Goal, Lifecycle!Next, Lifecycle!Publish, Accepted, AtWork, Published, Dead
  <2> QED BY <1>16, <2>3, <2>4 DEF UpdateVideoReady
<1>17. ASSUME NEW p \in Procs, UpdateJobComplete(p) \/ UpdateJobFailed(p) PROVE Goal
  <2>1. Active(p) /\ UNCHANGED <<dbAttempt, Published, Dead>>
    BY <1>17 DEF UpdateJobComplete, UpdateJobFailed, Active, Working, Retiring, queueVars,
       mediaVars, Published, Dead
  <2>2. UNCHANGED Accepted
    BY <1>4, <1>17, <2>1 DEF UpdateJobComplete, UpdateJobFailed, Accepted, TypeOK, RowsTypeOK
  <2>3. UNCHANGED AtWork
    BY <1>8, <1>17, <2>1 DEF UpdateJobComplete, UpdateJobFailed, Fail, Retiring, queueVars
  <2> QED BY <1>1, <2>1, <2>2, <2>3
<1>18. ASSUME NEW p \in Procs, AckDone(p) PROVE Goal
  <2>1. Active(p) /\ Finish(p) /\ UNCHANGED stream /\ Same
    BY <1>18 DEF AckDone, Ack, Active, Retiring, jobVars, mediaVars, Accepted, Published, Dead
  <2> QED BY <1>2, <2>1, FinishEnds
<1>19. ASSUME NEW p \in Procs, Bury(p) PROVE Goal
  <2> DEFINE entry == [job       |-> JobOf(p),
                       attempt   |-> AttemptOf(p) + IF permanent[p] THEN 0 ELSE 1,
                       origMsgID |-> held[p],
                       permanent |-> permanent[p]]
  <2>1. /\ Active(p) /\ Finish(p)
        /\ UNCHANGED <<stream, Accepted, dbAttempt, Published>>
        /\ dlq' \in {dlq, dlq \cup {entry}}
    BY <1>19 DEF Bury, MoveToDeadLetter, Active, Retiring, jobVars, mediaVars, Accepted,
       Published
  <2>2. entry.job = JobOf(p)
    OBVIOUS
  <2> HIDE DEF entry
  <2>3. /\ JobOf(p) \in Jobs /\ AtWork[JobOf(p)] # {}
        /\ AtWork' = [AtWork EXCEPT ![JobOf(p)] = {}]
    BY <2>1, FinishEnds
  <2>4. CASE dlq' = dlq
    BY <1>2, <2>1, <2>3, <2>4 DEF Dead
  <2>5. CASE dlq' = dlq \cup {entry}
    <3>1. Dead' = Dead \cup {JobOf(p)}
      BY <2>2, <2>5 DEF Dead
    <3> QED BY <2>1, <2>3, <3>1
         DEF Goal, Lifecycle!Next, Lifecycle!GiveUp, Accepted, AtWork, Published, Dead
  <2> QED BY <2>1, <2>4, <2>5
<1>20. ASSUME NEW p \in Procs, NackAck(p) PROVE Goal
  <2>1. Active(p) /\ UNCHANGED stream /\ Same
    BY <1>20 DEF NackAck, Ack, Active, Retiring, jobVars, mediaVars, Accepted, Published, Dead
  <2>2. CASE Finish(p)
    BY <1>2, <2>1, <2>2, FinishEnds
  <2>3. CASE Goto(p, "reenqueue") /\ UNCHANGED held
    BY <1>1, <1>8, <2>1, <2>3 DEF Retiring
  <2> QED BY <1>20, <2>2, <2>3 DEF NackAck
<1>21. ASSUME NEW p \in Procs, NackEnqueue(p) PROVE Goal
  <2>1. Active(p) /\ Finish(p) /\ Same
    BY <1>21 DEF NackEnqueue, Enqueue, Active, Retiring, jobVars, mediaVars, Accepted,
       Published, Dead
  <2>2. AttemptOf(p) + 1 \in Nat /\ JobOf(p) \in Jobs
    BY <2>1, HeldMessage
  <2>3. \A i \in 1 .. Len(stream) : stream'[i] = stream[i]
    BY <1>21, <2>2, EnqueueQueue DEF NackEnqueue, TypeOK
  <2> QED BY <1>2, <2>1, <2>3, FinishEnds
<1>22. ASSUME NEW p \in Procs, ReportProgress(p) PROVE Goal
  <2>1. Same
    BY <1>22 DEF ReportProgress, queueVars, jobVars, mediaVars, Accepted, Published, Dead
  <2> QED BY <1>1, <1>7, <1>22, <2>1 DEF ReportProgress, queueVars, procVars
<1>23. ASSUME NEW r \in Workers \X Jobs, WriteProgress(r) PROVE Goal
  <2>1. Same
    BY <1>23 DEF WriteProgress, queueVars, mediaVars, Accepted, Published, Dead
  <2> QED BY <1>1, <1>7, <1>23, <2>1 DEF WriteProgress, queueVars, procVars
<1>24. ASSUME NEW w \in Workers, Shutdown(w) PROVE Goal
  <2>1. Same
    BY <1>24 DEF Shutdown, queueVars, jobVars, mediaVars, Accepted, Published, Dead
  <2> QED BY <1>1, <1>7, <1>24, <2>1 DEF Shutdown, queueVars, procVars
<1>25. ASSUME NEW w \in Workers, Crash(w) PROVE Goal
  <2>1. Same /\ UNCHANGED stream
    BY <1>25 DEF Crash, queueVars, jobVars, mediaVars, Accepted, Published, Dead
  <2>2. \A q \in Procs : /\ Active(q)' <=> Active(q) /\ q \notin SlotsOf(w)
                         /\ Active(q)' => JobOf(q)' = JobOf(q)
    BY <1>25, <2>1 DEF Crash, Active, JobOf, Working, Retiring
  <2>3. AtWork' = [j \in Jobs |-> AtWork[j] \ SlotsOf(w)]
    BY <2>2 DEF AtWork
  <2>4. SlotsOf(w) \in SUBSET Procs
    BY DEF SlotsOf
  <2> QED BY <2>1, <2>3, <2>4
       DEF Goal, Lifecycle!Next, Lifecycle!Die, Accepted, AtWork, Published, Dead
<1>26. ASSUME NEW w \in Workers, Restart(w) PROVE Goal
  <2>1. Same /\ UNCHANGED <<stream, held>>
    BY <1>26 DEF Restart, queueVars, jobVars, mediaVars, Accepted, Published, Dead
  <2>2. \A q \in Procs : Kept(q)
    BY <1>26, <2>1 DEF Restart, Active, JobOf, Working, Retiring
  <2> QED BY <1>1, <1>3, <2>1, <2>2
<1>27. Goal
  BY <1>5, <1>9, <1>10, <1>11, <1>12, <1>13, <1>14, <1>15, <1>16, <1>17, <1>18, <1>19, <1>20,
     <1>21, <1>22, <1>23, <1>24, <1>25, <1>26 DEF Next, Step
<1> QED BY <1>27 DEF Goal

(* If XADD is never executed twice, every run of the pipeline, with any    *)
(* number of workers, crashes, shutdowns, failed and lost calls, is a run  *)
(* of JobLifecycle: one goroutine at a time on a job, at most MaxAttempts  *)
(* starts, publication once and by a goroutine that has started the job,   *)
(* and no way back from the dead-letter queue (processor.go, queue.go).    *)
THEOREM LifecycleImplemented ==
  ASSUME "dup" \notin Faults
  PROVE  Spec => ImplementsLifecycle
<1> DEFINE IInv == TypeOK /\ QueueInv /\ MediaInv /\ Counted
<1>1. Init => IInv
  BY TypeInit, QueueInvInit, MediaInvInit, CountedInit
<1>2. IInv /\ [Next]_vars => IInv'
  BY TypeNext, QueueInvNext, MediaInvNext, CountedNext
<1>3. Init => Lifecycle!Init
  BY DEF Init, QueueInit, Lifecycle!Init, Active, Working, Retiring
<1>4. IInv /\ [Next]_vars => [Lifecycle!Next]_(Lifecycle!lifecycle)
  <2>1. ASSUME UNCHANGED vars PROVE UNCHANGED Lifecycle!lifecycle
    BY <2>1 DEF vars, queueVars, jobVars, mediaVars, procVars, Lifecycle!lifecycle, Active,
       JobOf
  <2> QED BY <2>1, LifecycleStep
<1> QED BY <1>1, <1>2, <1>3, <1>4, PTL DEF Spec, ImplementsLifecycle, Lifecycle!Spec

------------------------------------------------------------------------------
(* No job is forgotten, while Redis replies and no process dies or stops.  *)

(* No worker process is stopping, so no call fails because ctx is cancelled. *)
AllUp == \A w \in Workers : up[w] = "up"

(* A goroutine about to enqueue the retry has had its Ack executed.        *)
RetryIsAcked == \A p \in Procs : pc[p] = "reenqueue" => held[p] \notin pel

(* A goroutine about to acknowledge a finished job has completed its row.  *)
AckIsComplete == \A p \in Procs : pc[p] = "ack" => jobStatus[JobOf(p)] = "complete"

Remembered(j) ==
  \/ j \in submitting
  \/ \E i \in 1 .. Len(stream) : Undelivered(i) /\ stream[i].job = j
  \/ \E p \in Procs : Active(p) /\ JobOf(p) = j
  \/ jobStatus[j] = "complete"
  \/ \E e \in dlq : e.job = j

KeepInv ==
  /\ AllUp
  /\ RetryIsAcked
  /\ AckIsComplete
  /\ NoJobForgotten

LEMMA KeepInvInit == Init => KeepInv
BY DEF Init, QueueInit, KeepInv, AllUp, RetryIsAcked, AckIsComplete, NoJobForgotten

(* A step in which goroutines only go on, and rows change only for jobs    *)
(* that are being worked on.                                               *)
LEMMA KeepInvGoOn ==
  ASSUME TypeOK, QueueInv, KeepInv, UNCHANGED <<up, stream, delivered, dlq, submitting>>,
         pel' \subseteq pel,
         \A q \in Procs : Active(q) => Active(q)' /\ held'[q] = held[q],
         \A q \in Procs : pc'[q] = "reenqueue" => held'[q] \notin pel',
         \A q \in Procs : pc'[q] = "ack" => jobStatus'[JobOf(q)'] = "complete",
         \A j \in Jobs : jobStatus'[j] = jobStatus[j] \/ \E q \in Procs : Active(q) /\ JobOf(q) = j
  PROVE  KeepInv'
<1> USE DEF KeepInv
<1>1. AllUp' /\ RetryIsAcked' /\ AckIsComplete'
  BY DEF AllUp, RetryIsAcked, AckIsComplete
<1>2. \A q \in Procs : Active(q) => JobOf(q)' = JobOf(q)
  BY DEF JobOf
<1>3. \A i \in pel' : Held(i)'
  BY DEF NoJobForgotten, Held
<1>4. ASSUME NEW j \in Jobs, jobStatus'[j] # "none" PROVE Remembered(j)'
  <2>1. CASE \E q \in Procs : Active(q) /\ JobOf(q) = j
    BY <1>2, <2>1 DEF Remembered
  <2>2. CASE jobStatus'[j] = jobStatus[j]
    BY <1>2, <1>4, <2>2 DEF NoJobForgotten, Remembered, Undelivered
  <2> QED BY <2>1, <2>2
<1> QED BY <1>1, <1>3, <1>4 DEF NoJobForgotten, Remembered

(* A goroutine leaves: its message is acknowledged, and its job complete,  *)
(* dead or enqueued again.                                                 *)
LEMMA KeepInvLeave ==
  ASSUME TypeOK, QueueInv, KeepInv, UNCHANGED <<up, delivered, submitting, jobStatus>>,
         NEW p \in Procs, Active(p), Finish(p),
         pel' \subseteq pel \ {held[p]}, dlq \subseteq dlq',
         Len(stream') >= Len(stream), Len(stream') \in Nat,
         \A i \in 1 .. Len(stream) : stream'[i] = stream[i],
         \E k \in Jobs : k = JobOf(p) /\ Remembered(k)'
  PROVE  KeepInv'
<1> USE DEF KeepInv
<1>1. pc'[p] \notin Working \cup Retiring /\ \A q \in Procs \ {p} : pc'[q] = pc[q] /\ held'[q] = held[q]
  BY DEF Finish, Goto, Working, Retiring, TypeOK, ProcTypeOK
<1>2. \A q \in Procs \ {p} : /\ Active(q)' <=> Active(q)
                             /\ Active(q) => JobOf(q)' = JobOf(q)
  BY <1>1, HeldMessage DEF Active, JobOf
<1>3. AllUp' /\ RetryIsAcked'
  BY <1>1 DEF AllUp, RetryIsAcked, Retiring
<1>4. AckIsComplete'
  BY <1>1, <1>2 DEF AckIsComplete, Active, Retiring
<1>5. \A i \in pel' : Held(i)'
  BY <1>1, <1>2 DEF NoJobForgotten, Held
<1>6. ASSUME NEW j \in Jobs, jobStatus'[j] # "none" PROVE Remembered(j)'
  <2>1. Remembered(j)
    BY <1>6 DEF NoJobForgotten, Remembered
  <2>2. ASSUME NEW i \in 1 .. Len(stream), Undelivered(i), stream[i].job = j
        PROVE  i \in 1 .. Len(stream') /\ Undelivered(i)' /\ stream'[i].job = j
    BY <2>2 DEF Undelivered, TypeOK, QueueTypeOK
  <2>3. ASSUME NEW q \in Procs, Active(q), JobOf(q) = j PROVE Remembered(j)'
    <3>1. CASE q = p
      BY <2>3, <3>1
    <3>2. CASE q # p
      BY <1>2, <2>3, <3>2 DEF Remembered
    <3> QED BY <3>1, <3>2
  <2>4. ASSUME NEW e \in dlq, e.job = j PROVE Remembered(j)'
    BY <2>4 DEF Remembered
  <2>5. ASSUME j \in submitting \/ jobStatus[j] = "complete" PROVE Remembered(j)'
    BY <2>5 DEF Remembered
  <2>6. ASSUME NEW i \in 1 .. Len(stream), Undelivered(i), stream[i].job = j
        PROVE  Remembered(j)'
    BY <2>2, <2>6 DEF Remembered
  <2> QED BY <2>1, <2>3, <2>4, <2>5, <2>6 DEF Remembered
<1> QED BY <1>3, <1>4, <1>5, <1>6 DEF NoJobForgotten, Remembered

LEMMA KeepInvClaim ==
  ASSUME TypeOK, QueueInv, KeepInv, NEW p \in Procs, Claim(p)
  PROVE  KeepInv'
<1> USE DEF KeepInv
<1>1. /\ UNCHANGED <<up, stream, dlq, submitting, jobStatus>>
      /\ delivered' = delivered + 1 /\ pel' = pel \cup {delivered + 1}
      /\ delivered \in Nat /\ delivered + 1 \in 1 .. Len(stream) /\ pel \subseteq 1 .. delivered
      /\ pc[p] = "idle" /\ pc'[p] = "claimed" /\ held'[p] = delivered + 1
      /\ \A q \in Procs \ {p} : pc'[q] = pc[q] /\ held'[q] = held[q]
  BY DEF Claim, Deliver, Goto, apiVars, jobVars, TypeOK, QueueTypeOK, ProcTypeOK
<1>2. /\ ~ Active(p) /\ Active(p)'
      /\ \A q \in Procs : Active(q) => Active(q)' /\ held'[q] = held[q] /\ JobOf(q)' = JobOf(q)
  BY <1>1 DEF Active, Working, Retiring, JobOf
<1>3. \A q \in Procs : Active(q) => held[q] \in 1 .. delivered
  BY DEF TypeOK, ProcTypeOK
<1>4. AllUp' /\ RetryIsAcked' /\ AckIsComplete'
  BY <1>1, <1>2, <1>3 DEF AllUp, RetryIsAcked, AckIsComplete, Active, Retiring
<1>5. ASSUME NEW i \in pel' PROVE Held(i)'
  <2>1. CASE i = delivered + 1
    BY <1>1, <1>2, <2>1 DEF Held
  <2>2. CASE i # delivered + 1
    <3>1. Held(i)
      BY <1>1, <2>2 DEF NoJobForgotten
    <3> QED BY <1>2, <3>1 DEF Held
  <2> QED BY <2>1, <2>2
<1>6. ASSUME NEW j \in Jobs, jobStatus'[j] # "none" PROVE Remembered(j)'
  <2>1. ASSUME NEW i \in 1 .. Len(stream), Undelivered(i), stream[i].job = j
        PROVE  Remembered(j)'
    <3>1. CASE i = delivered + 1
      BY <1>1, <1>2, <2>1, <3>1 DEF Remembered, JobOf
    <3>2. CASE i # delivered + 1
      BY <1>1, <2>1, <3>2 DEF Remembered, Undelivered, TypeOK, QueueTypeOK
    <3> QED BY <3>1, <3>2
  <2>2. ASSUME NEW q \in Procs, Active(q), JobOf(q) = j PROVE Remembered(j)'
    BY <1>2, <2>2 DEF Remembered
  <2>3. ASSUME \/ j \in submitting \/ jobStatus[j] = "complete"
               \/ \E e \in dlq : e.job = j
        PROVE  Remembered(j)'
    BY <1>1, <2>3 DEF Remembered
  <2> QED BY <1>1, <1>6, <2>1, <2>2, <2>3 DEF NoJobForgotten
<1> QED BY <1>4, <1>5, <1>6 DEF NoJobForgotten, Remembered

(* The faults under which a message can get lost.                          *)
Losing == {"redis", "dup", "api", "crash", "shutdown"}

LEMMA KeepInvNext ==
  ASSUME Faults \cap Losing = {}, TypeOK, TypeOK', QueueInv, KeepInv, [Next]_vars
  PROVE  KeepInv'
<1> DEFINE Frame == /\ UNCHANGED <<up, stream, delivered, pel, dlq, submitting, held>>
                    /\ \A q \in Procs : Active(q) => Active(q)'
                    /\ \A q \in Procs : pc'[q] = "reenqueue" => pc[q] = "reenqueue"
                    /\ \A q \in Procs : pc'[q] = "ack" => jobStatus'[JobOf(q)] = "complete"
                    /\ \A j \in Jobs : \/ jobStatus'[j] = jobStatus[j]
                                      \/ \E q \in Procs : Active(q) /\ JobOf(q) = j
<1>1. ASSUME Frame PROVE KeepInv'
  <2>1. \A q \in Procs : JobOf(q)' = JobOf(q)
    BY <1>1 DEF JobOf
  <2> QED BY <1>1, <2>1, KeepInvGoOn DEF KeepInv, RetryIsAcked
<1>2. /\ \A w \in Workers : up[w] = "up"
      /\ \A p \in Procs : ~ Cancelled(p) /\ Outcomes(p, "redis") = {"ok"}
  BY WorkerAssumption DEF KeepInv, AllUp, Cancelled, Outcomes, Losing
<1>3. \A p, q \in Procs : Active(p) /\ Active(q) /\ JobOf(p) = JobOf(q) => p = q
  BY QueueInvImplies DEF JobMutex
<1>4. \A q \in Procs : Active(q) => JobOf(q) \in Jobs /\ held[q] \in 1 .. Len(stream)
  BY HeldMessage
<1>5. \A q \in Procs : pc[q] = "ack" => Active(q) /\ jobStatus[JobOf(q)] = "complete"
  BY DEF KeepInv, AckIsComplete, Active, Retiring
<1>6. ASSUME NEW j \in Jobs, InsertJob(j) PROVE KeepInv'
  <2>1. /\ UNCHANGED <<up, stream, delivered, pel, dlq, pc, held>>
        /\ submitting' = submitting \cup {j} /\ jobStatus[j] = "none"
        /\ \A k \in Jobs \ {j} : jobStatus'[k] = jobStatus[k]
    BY <1>6 DEF InsertJob, queueVars, procVars, TypeOK, RowsTypeOK
  <2>2. \A q \in Procs : (Active(q)' <=> Active(q)) /\ JobOf(q)' = JobOf(q)
    BY <2>1 DEF Active, JobOf
  <2>3. AllUp' /\ RetryIsAcked' /\ AckIsComplete'
    BY <1>4, <1>5, <2>1, <2>2 DEF KeepInv, AllUp, RetryIsAcked, AckIsComplete
  <2>4. \A i \in pel' : Held(i)'
    BY <2>1, <2>2 DEF KeepInv, NoJobForgotten, Held
  <2>5. ASSUME NEW k \in Jobs, jobStatus'[k] # "none" PROVE Remembered(k)'
    <3>1. CASE k = j
      BY <2>1, <3>1 DEF Remembered
    <3>2. CASE k # j
      BY <2>1, <2>2, <2>5, <3>2 DEF KeepInv, NoJobForgotten, Remembered, Undelivered
    <3> QED BY <3>1, <3>2
  <2> QED BY <2>3, <2>4, <2>5 DEF KeepInv, NoJobForgotten, Remembered
<1>7. ASSUME NEW j \in Jobs, SubmitJob(j) PROVE KeepInv'
  <2>1. /\ Enqueue(j, 0, "ok")
        /\ UNCHANGED <<up, pc, held, jobStatus>>
        /\ submitting' = submitting \ {j}
    BY <1>7 DEF SubmitJob, jobVars, procVars, Losing
  <2>2. /\ UNCHANGED <<delivered, pel, dlq>>
        /\ \A i \in 1 .. Len(stream) : stream'[i] = stream[i]
        /\ Len(stream') = Len(stream) + 1 /\ stream'[Len(stream) + 1].job = j
        /\ Len(stream) \in Nat /\ delivered \in 0 .. Len(stream)
    <3>1. stream \in Seq(Message) /\ [job |-> j, attempt |-> 0] \in Message
      BY DEF TypeOK, QueueTypeOK, Message
    <3>2. stream' = Append(stream, [job |-> j, attempt |-> 0])
      BY <2>1 DEF Enqueue, Executed
    <3>3. /\ \A i \in 1 .. Len(stream) : stream'[i] = stream[i]
          /\ Len(stream') = Len(stream) + 1
          /\ stream'[Len(stream) + 1] = [job |-> j, attempt |-> 0]
      BY <3>1, <3>2, AppendProperties
    <3> QED BY <2>1, <3>1, <3>3 DEF Enqueue, TypeOK, QueueTypeOK
  <2>3. \A q \in Procs : /\ Active(q)' <=> Active(q)
                         /\ Active(q) => JobOf(q)' = JobOf(q)
    BY <1>4, <2>1, <2>2 DEF Active, JobOf
  <2>4. AllUp' /\ RetryIsAcked' /\ AckIsComplete'
    BY <1>5, <2>1, <2>2, <2>3 DEF KeepInv, AllUp, RetryIsAcked, AckIsComplete
  <2>5. \A i \in pel' : Held(i)'
    BY <2>1, <2>2, <2>3 DEF KeepInv, NoJobForgotten, Held
  <2>6. ASSUME NEW k \in Jobs, jobStatus'[k] # "none" PROVE Remembered(k)'
    <3>1. CASE k = j
      <4>1. PICK n \in Nat : n = Len(stream) + 1
        BY <2>2
      <4>2. n \in 1 .. Len(stream') /\ Undelivered(n)' /\ stream'[n].job = j
        BY <2>2, <4>1 DEF Undelivered
      <4> QED BY <3>1, <4>2 DEF Remembered
    <3>2. ASSUME NEW i \in 1 .. Len(stream), Undelivered(i), stream[i].job = k
          PROVE  Remembered(k)'
      <4>1. i \in 1 .. Len(stream') /\ Undelivered(i)' /\ stream'[i].job = k
        BY <2>2, <3>2 DEF Undelivered
      <4> QED BY <4>1 DEF Remembered
    <3>3. ASSUME NEW q \in Procs, Active(q), JobOf(q) = k PROVE Remembered(k)'
      BY <2>3, <3>3 DEF Remembered
    <3>4. ASSUME k # j, \/ k \in submitting \/ jobStatus[k] = "complete"
                        \/ \E e \in dlq : e.job = k
          PROVE  Remembered(k)'
      BY <2>1, <2>2, <3>4 DEF Remembered
    <3> QED BY <2>1, <2>6, <3>1, <3>2, <3>3, <3>4 DEF KeepInv, NoJobForgotten
  <2> QED BY <2>4, <2>5, <2>6 DEF KeepInv, NoJobForgotten, Remembered
<1>8. ASSUME NEW p \in Procs, Claim(p) PROVE KeepInv'
  BY <1>8, KeepInvClaim
<1>9. ASSUME NEW p \in Procs, ClaimLost(p) \/ StopIdle(p) PROVE FALSE
  BY <1>2, <1>9 DEF ClaimLost, StopIdle, Losing
<1>10. ASSUME NEW w \in Workers, Shutdown(w) \/ Crash(w) \/ Restart(w) PROVE FALSE
  BY <1>2, <1>10 DEF Shutdown, Crash, Restart, Losing
<1>11. ASSUME UNCHANGED <<up, queueVars, submitting, jobStatus, pc, held>> PROVE Frame
  BY <1>5, <1>11 DEF queueVars, Active
<1>12. ASSUME NEW j \in Jobs, LoseRaw(j) PROVE Frame
  BY <1>11, <1>12 DEF LoseRaw, jobVars, procVars
<1>13. ASSUME NEW p \in Procs, ReportProgress(p) PROVE Frame
  BY <1>11, <1>13 DEF ReportProgress, apiVars, jobVars, procVars
<1>14. ASSUME NEW r \in Workers \X Jobs, WriteProgress(r) PROVE Frame
  BY <1>11, <1>14 DEF WriteProgress, apiVars, jobVars, procVars
<1>15. ASSUME UNCHANGED vars PROVE Frame
  BY <1>11, <1>15 DEF vars, apiVars, jobVars, procVars
<1>16. ASSUME NEW p \in Procs, NEW next \in Working \cup Retiring, Active(p), Goto(p, next),
              next # "reenqueue",
              next = "ack" => jobStatus'[JobOf(p)] = "complete",
              UNCHANGED <<up, queueVars, submitting, held>>,
              \A j \in Jobs \ {JobOf(p)} : jobStatus'[j] = jobStatus[j]
       PROVE  Frame
  <2>1. pc'[p] = next /\ \A q \in Procs \ {p} : pc'[q] = pc[q]
    BY <1>16 DEF Goto, TypeOK, ProcTypeOK
  <2>2. \A q \in Procs : pc'[q] = "ack" => jobStatus'[JobOf(q)] = "complete"
    BY <1>3, <1>4, <1>5, <1>16, <2>1
  <2> QED BY <1>16, <2>1, <2>2 DEF queueVars, Active
<1> HIDE DEF Frame
<1>17. ASSUME NEW p \in Procs, UpdateJobRunning(p) PROVE Frame
  <2>1. /\ Active(p) /\ UNCHANGED <<up, queueVars, submitting, held>>
        /\ Goto(p, "download") \/ Goto(p, "failed")
        /\ \A j \in Jobs \ {JobOf(p)} : jobStatus'[j] = jobStatus[j]
    BY <1>4, <1>17 DEF UpdateJobRunning, Fail, Active, Working, queueVars, apiVars, TypeOK, RowsTypeOK
  <2> QED BY <1>16, <2>1 DEF Working, Retiring
<1>18. ASSUME NEW p \in Procs, Download(p) \/ Transcode(p) \/ UploadHLSOutputs(p) PROVE Frame
  <2>1. /\ Active(p) /\ UNCHANGED <<up, queueVars, submitting, held, jobStatus>>
        /\ \E next \in {"transcode", "upload", "poster", "failed"} : Goto(p, next)
    BY <1>18 DEF Download, Transcode, UploadHLSOutputs, Fail, Active, Working, apiVars, jobVars
  <2> QED BY <1>16, <2>1 DEF Working, Retiring
<1>19. ASSUME NEW p \in Procs,
              \/ GenerateAndUploadThumbnail(p) \/ IndexVideoReady(p)
              \/ UploadDASHOutputs(p) \/ UploadSubtitleVTT(p) \/ UpdateFlags(p)
              \/ UpdateVideoReady(p)
       PROVE  Frame
  <2>1. /\ Active(p) /\ UNCHANGED <<up, queueVars, submitting, held, jobStatus>>
        /\ \E next \in {"publish", "index", "dash", "subtitles", "flags", "complete", "failed"} :
             Goto(p, next)
    BY <1>19 DEF GenerateAndUploadThumbnail, IndexVideoReady, UploadDASHOutputs,
       UploadSubtitleVTT, UpdateFlags, UpdateVideoReady, Attach, Fail, Active, Working,
       apiVars, jobVars
  <2> QED BY <1>16, <2>1 DEF Working, Retiring
<1>20. ASSUME NEW p \in Procs, UpdateJobComplete(p) PROVE Frame
  <2>1. /\ Active(p) /\ UNCHANGED <<up, queueVars, submitting, held>>
        /\ \A j \in Jobs \ {JobOf(p)} : jobStatus'[j] = jobStatus[j]
    BY <1>4, <1>20 DEF UpdateJobComplete, Active, Working, queueVars, apiVars, TypeOK, RowsTypeOK
  <2>2. Goto(p, "failed") \/ (Goto(p, "ack") /\ jobStatus'[JobOf(p)] = "complete")
    BY <1>4, <1>20, <2>1 DEF UpdateJobComplete, Fail, Succeeded, Executed, TypeOK, RowsTypeOK
  <2> QED BY <1>16, <2>1, <2>2 DEF Working, Retiring
<1>21. ASSUME NEW p \in Procs, UpdateJobFailed(p) PROVE Frame
  <2>1. /\ Active(p) /\ UNCHANGED <<up, queueVars, submitting, held>>
        /\ Goto(p, "bury") \/ Goto(p, "requeue")
        /\ \A j \in Jobs \ {JobOf(p)} : jobStatus'[j] = jobStatus[j]
    BY <1>4, <1>21 DEF UpdateJobFailed, Active, Retiring, queueVars, apiVars, TypeOK, RowsTypeOK
  <2> QED BY <1>16, <2>1 DEF Working, Retiring
<1>22. ASSUME NEW p \in Procs, AckDone(p) PROVE KeepInv'
  <2>1. /\ Active(p) /\ Finish(p) /\ UNCHANGED <<up, delivered, submitting, jobStatus, stream, dlq>>
        /\ pel' \subseteq pel \ {held[p]}
    BY <1>2, <1>22 DEF AckDone, Ack, Executed, Active, Retiring, apiVars, jobVars
  <2>2. Len(stream') \in Nat /\ Len(stream') >= Len(stream)
    BY <2>1 DEF TypeOK, QueueTypeOK
  <2>3. \E k \in Jobs : k = JobOf(p) /\ Remembered(k)'
    BY <1>4, <1>5, <1>22, <2>1 DEF AckDone, Remembered
  <2> QED BY <2>1, <2>2, <2>3, KeepInvLeave
<1>23. ASSUME NEW p \in Procs, Bury(p) PROVE KeepInv'
  <2> DEFINE entry == [job       |-> JobOf(p),
                       attempt   |-> AttemptOf(p) + IF permanent[p] THEN 0 ELSE 1,
                       origMsgID |-> held[p],
                       permanent |-> permanent[p]]
  <2>1. /\ Active(p) /\ Finish(p) /\ UNCHANGED <<up, delivered, submitting, jobStatus, stream>>
        /\ pel' \subseteq pel \ {held[p]} /\ dlq' = dlq \cup {entry}
    BY <1>2, <1>23 DEF Bury, MoveToDeadLetter, Executed, Active, Retiring, apiVars, jobVars
  <2>2. entry.job = JobOf(p)
    OBVIOUS
  <2> HIDE DEF entry
  <2>3. Len(stream') \in Nat /\ Len(stream') >= Len(stream)
    BY <2>1 DEF TypeOK, QueueTypeOK
  <2>4. \E k \in Jobs : k = JobOf(p) /\ Remembered(k)'
    BY <1>4, <2>1, <2>2 DEF Remembered
  <2> QED BY <2>1, <2>3, <2>4, KeepInvLeave
<1>24. ASSUME NEW p \in Procs, NackAck(p) PROVE KeepInv'
  <2>1. /\ Active(p) /\ UNCHANGED <<up, delivered, submitting, jobStatus, stream, dlq, held>>
        /\ pel' = pel \ {held[p]} /\ Goto(p, "reenqueue")
    BY <1>2, <1>24 DEF NackAck, Ack, Executed, Succeeded, Active, Retiring, apiVars, jobVars
  <2>2. /\ pc'[p] = "reenqueue" /\ \A q \in Procs \ {p} : pc'[q] = pc[q]
        /\ \A q \in Procs : Active(q) => Active(q)' /\ JobOf(q)' = JobOf(q)
    BY <2>1 DEF Goto, TypeOK, ProcTypeOK, Active, Retiring, JobOf
  <2>3. \A q \in Procs : pc'[q] = "ack" => jobStatus'[JobOf(q)'] = "complete"
    BY <1>5, <2>1, <2>2
  <2>4. \A q \in Procs : pc'[q] = "reenqueue" => held'[q] \notin pel'
    BY <2>1, <2>2 DEF KeepInv, RetryIsAcked
  <2> QED BY <2>1, <2>2, <2>3, <2>4, KeepInvGoOn
<1>25. ASSUME NEW p \in Procs, NackEnqueue(p) PROVE KeepInv'
  <2>1. /\ Active(p) /\ Finish(p) /\ UNCHANGED <<up, delivered, submitting, jobStatus, pel, dlq>>
        /\ Enqueue(JobOf(p), AttemptOf(p) + 1, "ok") /\ pc[p] = "reenqueue"
    BY <1>2, <1>25 DEF NackEnqueue, Enqueue, Active, Retiring, apiVars, jobVars, Losing
  <2>2. JobOf(p) \in Jobs /\ AttemptOf(p) + 1 \in Nat
    BY <2>1, HeldMessage
  <2>3. pel' \subseteq pel \ {held[p]}
    BY <2>1 DEF KeepInv, RetryIsAcked
  <2>4. PICK k \in Jobs : k = JobOf(p)
    BY <2>2
  <2>5. /\ \A i \in 1 .. Len(stream) : stream'[i] = stream[i]
        /\ Len(stream') = Len(stream) + 1 /\ stream'[Len(stream) + 1].job = k
        /\ Len(stream) \in Nat /\ delivered \in 0 .. Len(stream)
    <3> DEFINE m == [job |-> JobOf(p), attempt |-> AttemptOf(p) + 1]
    <3>1. stream \in Seq(Message) /\ m \in Message /\ m.job = k
      BY <2>2, <2>4 DEF TypeOK, QueueTypeOK, Message
    <3>2. stream' = Append(stream, m)
      BY <2>1 DEF Enqueue, Executed
    <3> HIDE DEF m
    <3>3. /\ \A i \in 1 .. Len(stream) : stream'[i] = stream[i]
          /\ Len(stream') = Len(stream) + 1
          /\ stream'[Len(stream) + 1] = m
      BY <3>1, <3>2, AppendProperties
    <3> QED BY <3>1, <3>3 DEF TypeOK, QueueTypeOK
  <2>6. PICK n \in Nat : n = Len(stream) + 1
    BY <2>5
  <2>7. Remembered(k)'
    <3>1. n \in 1 .. Len(stream') /\ Undelivered(n)' /\ stream'[n].job = k
      BY <2>1, <2>5, <2>6 DEF Undelivered
    <3> QED BY <3>1 DEF Remembered
  <2> QED BY <2>1, <2>3, <2>4, <2>5, <2>7, KeepInvLeave
<1> QED
  BY <1>1, <1>6, <1>7, <1>8, <1>9, <1>10, <1>12, <1>13, <1>14, <1>15, <1>17, <1>18, <1>19,
     <1>20, <1>21, <1>22, <1>23, <1>24, <1>25 DEF Next, Step

(* While Redis replies, the API gets its Enqueue through and no process    *)
(* dies or is stopped, whatever else fails: every pending message is in    *)
(* the hands of a live goroutine, and an accepted upload is about to be    *)
(* enqueued, waiting, being worked on, complete or dead. The conditions    *)
(* are needed because an entry nobody holds is never claimed again         *)
(* (queue.go has no XCLAIM).                                               *)
THEOREM NoJobForgottenHolds ==
  ASSUME Faults \cap {"redis", "dup", "api", "crash", "shutdown"} = {}
  PROVE  Spec => []NoJobForgotten
<1>1. Faults \cap Losing = {} /\ "dup" \notin Faults
  BY DEF Losing
<1>2. Init => TypeOK /\ QueueInv /\ KeepInv
  BY TypeInit, QueueInvInit, KeepInvInit
<1>3. TypeOK /\ QueueInv /\ KeepInv /\ [Next]_vars => (TypeOK /\ QueueInv /\ KeepInv)'
  BY <1>1, TypeNext, QueueInvNext, KeepInvNext
<1>4. KeepInv => NoJobForgotten
  BY DEF KeepInv
<1> QED BY <1>2, <1>3, <1>4, PTL DEF Spec

------------------------------------------------------------------------------
(* The pool the goroutines run in: Processor.Run with its semaphore, and   *)
(* the scaler (WorkerPool), for every setting of the scaler, every         *)
(* WORKER_CONCURRENCY and any number of messages. What is proved above     *)
(* holds whatever the pool decides; the pool has a specification of its    *)
(* own, PoolSpec.                                                          *)

(* The constants one by one; sem is at least as large as the pool gets.    *)
LEMMA PoolConstants ==
  /\ MinWorkers \in Nat \ {0} /\ MaxWorkers \in Nat \ {0} /\ MinWorkers <= MaxWorkers
  /\ CooldownUp \in Nat /\ CooldownDown \in Nat /\ MaxEnqueued \in Nat /\ Window \in Nat
  /\ MaxConc \in Nat \ {0} /\ MaxWorkers <= MaxConc
<1>1. /\ MinWorkers \in Nat \ {0} /\ MaxWorkers \in Nat \ {0} /\ MinWorkers <= MaxWorkers
      /\ InitialConcurrency \in Nat \ {0} /\ Window \in Nat \ {0}
  BY PoolAssumption
<1>2. CooldownUp \in Nat /\ CooldownDown \in Nat /\ MaxEnqueued \in Nat
  BY PoolAssumption
<1> QED BY <1>1, <1>2 DEF MaxConc

(* A quotient does not exceed its dividend.                                *)
LEMMA QuotientBound ==
  ASSUME NEW a \in Nat, NEW d \in Nat \ {0}
  PROVE  a \div d \in 0 .. a
OBVIOUS

(* The window of samples: what RecordUtilization keeps is well-typed and   *)
(* no longer than Window.                                                  *)
LEMMA SamplesKept ==
  ASSUME samples \in Seq(0 .. 100 * MaxConc), Len(samples) <= Window,
         NEW busy \in 0 .. MaxConc, NEW total \in Nat, RecordUtilization(busy, total)
  PROVE  samples' \in Seq(0 .. 100 * MaxConc) /\ Len(samples') <= Window
<1> DEFINE S == 0 .. 100 * MaxConc
<1> DEFINE x == (100 * busy) \div total
<1> DEFINE all == Append(samples, x)
<1>1. CASE total = 0
  BY <1>1 DEF RecordUtilization
<1>2. CASE total # 0
  <2>1. x \in S
    <3>1. 100 * busy \in Nat /\ 100 * busy <= 100 * MaxConc /\ 100 * MaxConc \in Nat
      BY PoolConstants
    <3> DEFINE y == 100 * busy
    <3> HIDE DEF y
    <3>2. y \div total \in 0 .. y
      BY <1>2, <3>1, QuotientBound DEF y
    <3>3. y \in Nat /\ y <= 100 * MaxConc
      BY <3>1 DEF y
    <3>4. y \div total \in S
      BY <3>1, <3>2, <3>3
    <3> QED BY <3>4 DEF y
  <2> HIDE DEF x, S
  <2>2. samples \in Seq(S)
    BY DEF S
  <2>3. all \in Seq(S) /\ Len(all) = Len(samples) + 1 /\ Len(samples) \in Nat
    BY <2>1, <2>2, AppendProperties
  <2>4. samples' = IF Len(all) > Window THEN Tail(all) ELSE all
    BY <1>2 DEF RecordUtilization, x
  <2> HIDE DEF all
  <2>5. Window \in Nat
    BY PoolConstants
  <2>6. CASE Len(all) > Window
    <3>1. all # <<>>
      BY <2>3
    <3>2. Tail(all) \in Seq(S) /\ Len(Tail(all)) = Len(all) - 1
      BY <2>3, <3>1, HeadTailProperties
    <3> QED BY <2>3, <2>4, <2>5, <2>6, <3>2 DEF S
  <2>7. CASE Len(all) <= Window
    BY <2>3, <2>4, <2>5, <2>7 DEF S
  <2> QED BY <2>3, <2>5, <2>6, <2>7
<1> QED BY <1>1, <1>2

------------------------------------------------------------------------------
(* The inductive invariant. PoolInv says neither how InUse is made up nor  *)
(* where the messages are.                                                 *)

(* Every message is in one place at most.                                  *)
Conserved ==
  /\ undelivered \in Nat /\ stuck \in Nat /\ processing \in Nat
  /\ enqueued \in Nat /\ enqueued <= MaxEnqueued
  /\ undelivered + processing + stuck <= enqueued

(* sem is never overfull, has room when Run is about to send, and is all   *)
(* in Run's hands when Run returns.                                        *)
Slots ==
  /\ claiming \in Nat /\ processing \in Nat /\ taken \in Nat
  /\ claiming + processing + taken <= MaxConc
  /\ run \in {"check", "start", "drain", "returned"}
  /\ run = "start" => claiming + processing + taken < MaxConc
  /\ run = "returned" => taken = MaxConc

(* The pool stays within the limits of the configuration.                  *)
InLimits ==
  /\ desired \in MinWorkers .. MaxWorkers
  /\ want \in MinWorkers .. MaxWorkers
  /\ sinceUp \in 0 .. CooldownUp /\ sinceDown \in 0 .. CooldownDown

Measured ==
  /\ samples \in Seq(0 .. 100 * MaxConc) /\ Len(samples) <= Window
  /\ depth \in 0 .. NoDepth
  /\ cancelled \in BOOLEAN

PoolParts == Conserved /\ Slots /\ InLimits /\ Measured

LEMMA PoolPartsImply == ASSUME PoolParts PROVE PoolInv
<1> USE PoolConstants DEF PoolParts, Conserved, Slots, InLimits
<1>1. /\ undelivered \in 0 .. MaxEnqueued /\ stuck \in 0 .. MaxEnqueued
      /\ processing \in 0 .. MaxEnqueued /\ enqueued \in 0 .. MaxEnqueued
  OBVIOUS
<1>2. desired \in 0 .. MaxWorkers /\ want \in 0 .. MaxWorkers
  OBVIOUS
<1>3. InUse \in 0 .. MaxConc
  BY DEF InUse
<1>4. PoolTypeOK
  BY <1>1, <1>2, <1>3 DEF PoolTypeOK, Measured
<1>5. SendNeverBlocks /\ DrainedMeansIdle
  BY DEF SendNeverBlocks, DrainedMeansIdle, InUse
<1> QED BY <1>4, <1>5 DEF PoolInv

LEMMA PoolPartsInit == ASSUME PoolInit PROVE PoolParts
<1> USE PoolConstants DEF PoolInit
<1>1. Conserved /\ Slots /\ InLimits
  BY DEF Conserved, Slots, InLimits
<1>2. Measured
  <2> DEFINE S == 0 .. 100 * MaxConc
  <2> HIDE DEF S
  <2>1. samples \in Seq(S) /\ Len(samples) <= Window
    OBVIOUS
  <2>2. NoDepth \in 0 .. NoDepth
    BY DEF NoDepth
  <2>3. depth \in 0 .. NoDepth
    BY <2>2
  <2>4. cancelled \in BOOLEAN
    OBVIOUS
  <2> QED BY <2>1, <2>3, <2>4 DEF Measured, S
<1> QED BY <1>1, <1>2 DEF PoolParts

LEMMA PoolPartsNext ==
  ASSUME PoolParts, [PoolNext]_poolVars
  PROVE  PoolParts'
<1> USE PoolConstants DEF PoolParts
<1>1. ASSUME UNCHANGED <<samples, depth>>, cancelled' \in BOOLEAN PROVE Measured'
  BY <1>1 DEF Measured
<1>2. cancelled \in BOOLEAN
  BY DEF Measured
<1>3. CASE PoolEnqueue
  <2>1. Conserved' /\ Slots' /\ InLimits'
    BY <1>3 DEF PoolEnqueue, scalerVars, runVars, Conserved, Slots, InLimits
  <2> QED BY <1>1, <1>2, <1>3, <2>1 DEF PoolEnqueue, scalerVars
<1>4. CASE Cancel
  <2>1. Conserved' /\ Slots' /\ InLimits'
    BY <1>4 DEF Cancel, messageVars, scalerVars, runVars, Conserved, Slots,
       InLimits
  <2> QED BY <1>1, <1>2, <1>4, <2>1 DEF Cancel, scalerVars
<1>5. CASE PoolClaim
  <2>1. Conserved' /\ Slots' /\ InLimits'
    BY <1>5 DEF PoolClaim, scalerVars, runVars, Conserved, Slots, InLimits
  <2> QED BY <1>1, <1>2, <1>5, <2>1 DEF PoolClaim, scalerVars
<1>6. CASE PoolClaimNothing
  <2>1. Conserved' /\ Slots' /\ InLimits'
    BY <1>6 DEF PoolClaimNothing, messageVars, scalerVars, runVars, Conserved,
       Slots, InLimits
  <2> QED BY <1>1, <1>2, <1>6, <2>1 DEF PoolClaimNothing, scalerVars
<1>7. CASE PoolClaimLost
  <2>1. Conserved' /\ Slots' /\ InLimits'
    BY <1>7 DEF PoolClaimLost, scalerVars, runVars, Conserved, Slots, InLimits
  <2> QED BY <1>1, <1>2, <1>7, <2>1 DEF PoolClaimLost, scalerVars
<1>8. CASE PoolFinishAcked
  <2>1. Conserved' /\ Slots' /\ InLimits'
    BY <1>8 DEF PoolFinishAcked, messageVars, scalerVars, runVars, Conserved,
       Slots, InLimits
  <2> QED BY <1>1, <1>2, <1>8, <2>1 DEF PoolFinishAcked, scalerVars
<1>9. CASE PoolFinishStuck
  <2>1. Conserved' /\ Slots' /\ InLimits'
    BY <1>9 DEF PoolFinishStuck, scalerVars, runVars, Conserved, Slots, InLimits
  <2> QED BY <1>1, <1>2, <1>9, <2>1 DEF PoolFinishStuck, scalerVars
<1>10. CASE PoolFinishRetried
  <2>1. Conserved' /\ Slots' /\ InLimits'
    BY <1>10 DEF PoolFinishRetried, scalerVars, runVars, Conserved, Slots, InLimits
  <2> QED BY <1>1, <1>2, <1>10, <2>1 DEF PoolFinishRetried, scalerVars
<1>11. CASE RunCheck
  <2>1. Conserved' /\ Slots' /\ InLimits'
    BY <1>11 DEF RunCheck, messageVars, scalerVars, Conserved, Slots, InLimits,
       InUse
  <2>2. CASE cancelled
    BY <1>1, <1>2, <1>11, <2>1, <2>2 DEF RunCheck, scalerVars
  <2>3. CASE ~ cancelled
    <3>1. InUse \in 0 .. MaxConc /\ desired \in Nat
      BY DEF Slots, InLimits, InUse
    <3>2. samples' \in Seq(0 .. 100 * MaxConc) /\ Len(samples') <= Window
      BY <1>11, <2>3, <3>1, SamplesKept DEF RunCheck, Measured
    <3> QED BY <1>11, <2>1, <3>2 DEF RunCheck, scalerVars, Measured
  <2> QED BY <2>2, <2>3
<1>12. CASE RunStart
  <2>1. Conserved' /\ Slots' /\ InLimits'
    BY <1>12 DEF RunStart, messageVars, scalerVars, Conserved, Slots, InLimits,
       InUse
  <2> QED BY <1>1, <1>2, <1>12, <2>1 DEF RunStart, scalerVars
<1>13. CASE RunDrain
  <2>1. Conserved' /\ Slots' /\ InLimits'
    BY <1>13 DEF RunDrain, messageVars, scalerVars, Conserved, Slots, InLimits,
       InUse
  <2> QED BY <1>1, <1>2, <1>13, <2>1 DEF RunDrain, scalerVars
<1>14. CASE ReadMetrics
  <2>1. Conserved' /\ Slots' /\ InLimits'
    BY <1>14 DEF ReadMetrics, messageVars, runVars, Conserved, Slots, InLimits,
       Later
  <2>2. depth' \in 0 .. NoDepth
    BY <1>14 DEF ReadMetrics, Conserved, NoDepth
  <2> QED BY <1>14, <2>1, <2>2 DEF ReadMetrics, Measured
<1>15. CASE MetricsFail
  <2>1. Conserved' /\ Slots' /\ InLimits'
    BY <1>15 DEF MetricsFail, messageVars, runVars, Conserved, Slots, InLimits,
       Later
  <2> QED BY <1>1, <1>2, <1>15, <2>1 DEF MetricsFail
<1>16. CASE Evaluate
  <2>1. Conserved' /\ Slots'
    BY <1>16 DEF Evaluate, messageVars, runVars, Conserved, Slots
  <2>2. InLimits'
    BY <1>16 DEF Evaluate, runVars, InLimits, ScaleUp, ScaleDown
  <2>3. Measured'
    BY <1>16 DEF Evaluate, Measured, NoDepth
  <2> QED BY <2>1, <2>2, <2>3
<1>17. CASE UNCHANGED poolVars
  BY <1>1, <1>2, <1>17 DEF poolVars, messageVars, scalerVars, runVars, Conserved,
     Slots, InLimits
<1> QED
  BY <1>3, <1>4, <1>5, <1>6, <1>7, <1>8, <1>9, <1>10, <1>11, <1>12, <1>13, <1>14, <1>15,
     <1>16, <1>17 DEF PoolNext

(* Whatever the scaler, the goroutines, Redis and the signal do, and for   *)
(* every setting of the scaler: Run never blocks on a send to its          *)
(* semaphore (processor.go:71), and when it returns no goroutine is left.  *)
THEOREM PoolInvHolds == PoolSpec => []PoolInv
<1>1. PoolInit => PoolParts
  BY PoolPartsInit
<1>2. PoolParts /\ [PoolNext]_poolVars => PoolParts'
  BY PoolPartsNext
<1>3. PoolParts => PoolInv
  BY PoolPartsImply
<1> QED BY <1>1, <1>2, <1>3, PTL DEF PoolSpec

(* The concurrency the controller asks for stays between MinWorkers and    *)
(* MaxWorkers, so the pool never shrinks to nothing (scaler.go, evaluate). *)
THEOREM DesiredInLimits == PoolSpec => [](desired \in MinWorkers .. MaxWorkers)
<1>1. PoolInit => PoolParts
  BY PoolPartsInit
<1>2. PoolParts /\ [PoolNext]_poolVars => PoolParts'
  BY PoolPartsNext
<1>3. PoolParts => desired \in MinWorkers .. MaxWorkers
  BY DEF PoolParts, InLimits
<1> QED BY <1>1, <1>2, <1>3, PTL DEF PoolSpec

(* Before the signal Run is in its loop and the drain has taken no slot.   *)
Serving == ~ cancelled => run \in {"check", "start"} /\ taken = 0

LEMMA ServingNext ==
  ASSUME Serving, [PoolNext]_poolVars
  PROVE  Serving'
<1> USE DEF Serving
<1>1. CASE PoolEnqueue \/ Cancel \/ ReadMetrics \/ MetricsFail \/ Evaluate
  BY <1>1 DEF PoolEnqueue, Cancel, ReadMetrics, MetricsFail, Evaluate, runVars
<1>2. CASE PoolClaim \/ PoolClaimNothing \/ PoolClaimLost
  BY <1>2 DEF PoolClaim, PoolClaimNothing, PoolClaimLost, runVars
<1>3. CASE PoolFinishAcked \/ PoolFinishStuck \/ PoolFinishRetried
  BY <1>3 DEF PoolFinishAcked, PoolFinishStuck, PoolFinishRetried, runVars
<1>4. CASE RunCheck \/ RunStart \/ RunDrain
  BY <1>4 DEF RunCheck, RunStart, RunDrain
<1>5. CASE UNCHANGED poolVars
  BY <1>5 DEF poolVars, runVars
<1> QED BY <1>1, <1>2, <1>3, <1>4, <1>5 DEF PoolNext

(* A slot of sem is never lost: until the signal whatever is in sem is a   *)
(* goroutine's, and when no goroutine is left there is room for one and    *)
(* Run is about to look or to start it, however far the scaler has shrunk  *)
(* the pool. QueueIsServed rests on this.                                  *)
THEOREM SlotsAreReturned ==
  PoolSpec => [](~ cancelled => /\ InUse = claiming + processing
                                /\ run \in {"check", "start"}
                                /\ claiming + processing = 0 => InUse < desired)
<1>1. PoolInit => PoolParts /\ Serving
  BY PoolPartsInit DEF PoolInit, Serving
<1>2. PoolParts /\ Serving /\ [PoolNext]_poolVars => (PoolParts /\ Serving)'
  BY PoolPartsNext, ServingNext
<1>3. ASSUME PoolParts, Serving, ~ cancelled
      PROVE  /\ InUse = claiming + processing
             /\ run \in {"check", "start"}
             /\ claiming + processing = 0 => InUse < desired
  <2>1. run \in {"check", "start"} /\ taken = 0
    BY <1>3 DEF Serving
  <2>2. claiming \in Nat /\ processing \in Nat /\ desired \in Nat /\ desired > 0
    BY <1>3, PoolConstants DEF PoolParts, Slots, InLimits
  <2>3. InUse = claiming + processing
    BY <2>1, <2>2 DEF InUse
  <2> QED BY <2>1, <2>2, <2>3
<1> QED BY <1>1, <1>2, <1>3, PTL DEF PoolSpec

------------------------------------------------------------------------------
(* The end of the pool.                                                    *)

(* What Run has still to do after ctx.Done, in steps, without the drain.   *)
RunLeft ==
  CASE run = "start" -> 4 [] run = "check" -> 2 [] run = "drain" -> 1 [] run = "returned" -> 0

(* With the drain, and with what the goroutines have still to do.          *)
ShutdownLeft == RunLeft + claiming + processing + (MaxConc - taken)

(* Run, or one of its goroutines, has a step it can take by itself.        *)
ShutdownGoesOn ==
  \/ run = "check"
  \/ run = "start" /\ InUse < MaxConc
  \/ run = "drain" /\ (taken = MaxConc \/ InUse < MaxConc)
  \/ claiming > 0
  \/ processing > 0

(* Run is never stuck: as long as sem has no room, a goroutine is at work. *)
LEMMA ShutdownState ==
  ASSUME PoolParts
  PROVE  /\ ShutdownLeft \in 0 .. 2 * MaxConc + 4
         /\ cancelled /\ run # "returned" => ShutdownGoesOn
<1> USE PoolConstants DEF PoolParts, Slots
<1>1. RunLeft \in 0 .. 4
  BY DEF RunLeft
<1>2. ShutdownLeft \in 0 .. 2 * MaxConc + 4
  BY <1>1 DEF ShutdownLeft
<1>3. ASSUME run # "returned" PROVE ShutdownGoesOn
  <2>1. claiming + processing + taken <= MaxConc /\ MaxConc \in Nat
        /\ claiming \in Nat /\ processing \in Nat /\ taken \in Nat
    OBVIOUS
  <2>2. CASE claiming + processing = 0
    <3>1. claiming + processing + taken = taken
      BY <2>1, <2>2
    <3>2. taken = MaxConc \/ claiming + processing + taken < MaxConc
      BY <2>1, <3>1
    <3>3. /\ run \in {"check", "start", "drain"}
          /\ run = "start" => claiming + processing + taken < MaxConc
      BY <1>3
    <3> HIDE PoolConstants DEF PoolParts, Slots
    <3> QED BY <3>2, <3>3 DEF ShutdownGoesOn, InUse
  <2>3. CASE claiming + processing # 0
    BY <2>1, <2>3 DEF ShutdownGoesOn
  <2> QED BY <2>2, <2>3
<1> QED BY <1>2, <1>3

(* After the signal every step of Run and of its goroutines is one fewer.  *)
LEMMA ShutdownStep ==
  ASSUME PoolParts, PoolNext, cancelled,
         ~ UNCHANGED <<run, taken, claiming, processing>>
  PROVE  ShutdownLeft' < ShutdownLeft
<1> USE PoolConstants DEF PoolParts, Slots, ShutdownLeft, RunLeft
<1>0. RunLeft \in Nat /\ MaxConc - taken \in Nat /\ (UNCHANGED <<run, taken>> =>
        RunLeft' = RunLeft /\ (MaxConc - taken)' = MaxConc - taken)
  BY DEF MaxConc
<1>1. CASE PoolEnqueue \/ Cancel \/ ReadMetrics \/ MetricsFail \/ Evaluate \/ PoolClaim
  BY <1>1 DEF PoolEnqueue, Cancel, ReadMetrics, MetricsFail, Evaluate, PoolClaim, runVars
<1>2. CASE PoolClaimNothing \/ PoolClaimLost
  <2>1. UNCHANGED <<run, taken, processing>> /\ claiming > 0 /\ claiming' = claiming - 1
    BY <1>2 DEF PoolClaimNothing, PoolClaimLost, runVars
  <2> HIDE DEF RunLeft
  <2> QED BY <1>0, <2>1
<1>3. CASE PoolFinishAcked \/ PoolFinishStuck \/ PoolFinishRetried
  <2>1. UNCHANGED <<run, taken, claiming>> /\ processing > 0 /\ processing' = processing - 1
    BY <1>3 DEF PoolFinishAcked, PoolFinishStuck, PoolFinishRetried, runVars
  <2> HIDE DEF RunLeft
  <2> QED BY <1>0, <2>1
<1>4. CASE RunCheck
  BY <1>4 DEF RunCheck
<1>5. CASE RunStart
  BY <1>5 DEF RunStart
<1>6. CASE RunDrain
  BY <1>6 DEF RunDrain
<1> QED BY <1>1, <1>2, <1>3, <1>4, <1>5, <1>6 DEF PoolNext

(* Nothing takes the signal back.                                          *)
LEMMA CancelledStays ==
  ASSUME PoolNext, cancelled
  PROVE  cancelled'
BY DEF PoolNext, PoolEnqueue, Cancel, ReadMetrics, MetricsFail, Evaluate, PoolClaim,
   PoolClaimNothing, PoolClaimLost, PoolFinishAcked, PoolFinishStuck, PoolFinishRetried,
   RunCheck, RunStart, RunDrain

(* After the signal Run returns within 2 * maxConc + 4 steps of its own    *)
(* and of its goroutines, and until it does one of them can go on: the     *)
(* drain loop never waits for a slot that nobody gives back. With the      *)
(* fairness of the pool this is ShutdownEnds; what is proved here is all   *)
(* of it but the temporal step.                                            *)
THEOREM ShutdownIsBounded ==
  PoolSpec => /\ [](ShutdownLeft \in 0 .. 2 * MaxConc + 4)
              /\ [](cancelled /\ run # "returned" => ShutdownGoesOn)
              /\ [][cancelled => /\ cancelled'
                                 /\ \/ UNCHANGED <<run, taken, claiming, processing>>
                                    \/ ShutdownLeft' < ShutdownLeft]_poolVars
<1>1. PoolInit => PoolParts
  BY PoolPartsInit
<1>2. PoolParts /\ [PoolNext]_poolVars => PoolParts'
  BY PoolPartsNext
<1>3. PoolParts => /\ ShutdownLeft \in 0 .. 2 * MaxConc + 4
                   /\ cancelled /\ run # "returned" => ShutdownGoesOn
  BY ShutdownState
<1>4. PoolParts /\ [PoolNext]_poolVars =>
        [cancelled => /\ cancelled'
                      /\ \/ UNCHANGED <<run, taken, claiming, processing>>
                         \/ ShutdownLeft' < ShutdownLeft]_poolVars
  BY ShutdownStep, CancelledStays
<1> QED BY <1>1, <1>2, <1>3, <1>4, PTL DEF PoolSpec
==============================================================================
