------------------------------ MODULE WorkerPool ------------------------------
(***************************************************************************)
(* The pool of one worker process: Processor.Run, which starts goroutines  *)
(* and drains them at shutdown, and the ScalingController, whose goroutine *)
(* moves the desired concurrency by the depth of the queue and by the      *)
(* utilization Run reports (packages/media/scaler.go).                     *)
(*                                                                         *)
(* What a goroutine does with a job is TranscodeWorker. Here goroutines    *)
(* and messages are only counted. Time is counted in ticks of the scaler   *)
(* (EvalInterval); a ratio is kept in percent.                             *)
(***************************************************************************)
EXTENDS Naturals, Sequences, Functions

CONSTANTS MinWorkers, MaxWorkers, ScaleUpQueueDepth, ScaleDownQueueDepth,
          ScaleUpBusyPct, ScaleDownBusyPct,   \* percent
          CooldownUp, CooldownDown,           \* ticks
          InitialConcurrency,                 \* WORKER_CONCURRENCY
          Window,                             \* samples kept, 10 in the code
          MaxEnqueued,                        \* bound: messages ever enqueued
          RedisFails                          \* calls to Redis may fail

(* The configuration is only checked for WORKER_CONCURRENCY >= 1; that     *)
(* there is a worker at least, and no more at least than at most, is       *)
(* assumed of the deployment.                                              *)
ASSUME PoolAssumption ==
  /\ {MinWorkers, MaxWorkers, InitialConcurrency, Window} \subseteq Nat \ {0}
  /\ {ScaleUpQueueDepth, ScaleDownQueueDepth, ScaleUpBusyPct, ScaleDownBusyPct,
      CooldownUp, CooldownDown, MaxEnqueued} \subseteq Nat
  /\ MinWorkers <= MaxWorkers
  /\ RedisFails \in BOOLEAN

VARIABLES
  undelivered,   \* messages no consumer has been given
  stuck,         \* pending messages no goroutine works on
  enqueued,      \* messages ever enqueued
  desired, samples, sinceUp, sinceDown,   \* the controller
  depth,         \* the queue depth evaluate has read, or NoDepth
  run,           \* the next step of Run
  want,          \* Run's local desired
  claiming,      \* goroutines in ClaimPending
  processing,    \* goroutines with a message
  taken,         \* slots the drain loop has taken
  cancelled      \* ctx is cancelled

messageVars == <<undelivered, stuck, enqueued>>
scalerVars == <<desired, sinceUp, sinceDown, depth>>
runVars == <<run, want, taken>>
poolVars == <<messageVars, scalerVars, samples, runVars, claiming, processing, cancelled>>

(* No evaluation is under way.                                             *)
NoDepth == MaxEnqueued + 1

(* The capacity of sem, and how much of it is used.                        *)
MaxConc == IF MaxWorkers > InitialConcurrency THEN MaxWorkers ELSE InitialConcurrency
InUse == claiming + processing + taken

(* Types; the desired concurrency never exceeds MaxWorkers and sem holds   *)
(* no more than its capacity.                                              *)
PoolTypeOK ==
  /\ {undelivered, stuck, processing} \subseteq 0 .. MaxEnqueued
  /\ enqueued \in 0 .. MaxEnqueued
  /\ desired \in 0 .. MaxWorkers
  /\ samples \in Seq(0 .. 100 * MaxConc) /\ Len(samples) <= Window
  /\ sinceUp \in 0 .. CooldownUp /\ sinceDown \in 0 .. CooldownDown
  /\ depth \in 0 .. NoDepth
  /\ run \in {"check", "start", "drain", "returned"}
  /\ want \in 0 .. MaxWorkers
  /\ InUse \in 0 .. MaxConc
  /\ cancelled \in BOOLEAN

(* A zero time.Time: both cooldowns are long over.                         *)
PoolInit ==
  /\ undelivered = 0 /\ stuck = 0 /\ enqueued = 0
  /\ desired = MinWorkers
  /\ samples = <<>>
  /\ sinceUp = CooldownUp /\ sinceDown = CooldownDown
  /\ depth = NoDepth
  /\ run = "check" /\ want = MinWorkers
  /\ claiming = 0 /\ processing = 0 /\ taken = 0
  /\ cancelled = FALSE

------------------------------------------------------------------------------
(* The queue and the process.                                              *)

PoolEnqueue ==
  /\ enqueued < MaxEnqueued
  /\ enqueued' = enqueued + 1
  /\ undelivered' = undelivered + 1
  /\ UNCHANGED <<stuck, scalerVars, samples, runVars, claiming, processing, cancelled>>

(* SIGINT or SIGTERM.                                                      *)
Cancel ==
  /\ ~ cancelled
  /\ cancelled' = TRUE
  /\ UNCHANGED <<messageVars, scalerVars, samples, runVars, claiming, processing>>

------------------------------------------------------------------------------
(* The goroutines Run starts: processNext, then a receive from sem.        *)

PoolClaim ==
  /\ claiming > 0 /\ undelivered > 0 /\ ~ cancelled
  /\ claiming' = claiming - 1
  /\ processing' = processing + 1
  /\ undelivered' = undelivered - 1
  /\ UNCHANGED <<stuck, enqueued, scalerVars, samples, runVars, cancelled>>

(* Seeded bug: no result, so the goroutine returns before it has deferred  *)
(* the release of its slot.                                                *)
PoolClaimNothingLeaks ==
  /\ claiming > 0
  /\ undelivered = 0 \/ RedisFails \/ cancelled
  /\ UNCHANGED poolVars

(* Five seconds without a message, an error, or ctx is cancelled.          *)
PoolClaimNothing ==
  /\ claiming > 0
  /\ undelivered = 0 \/ RedisFails \/ cancelled
  /\ claiming' = claiming - 1
  /\ UNCHANGED <<messageVars, scalerVars, samples, runVars, processing, cancelled>>

(* The message was delivered and the reply lost.                           *)
PoolClaimLost ==
  /\ claiming > 0 /\ undelivered > 0
  /\ RedisFails \/ cancelled
  /\ claiming' = claiming - 1
  /\ undelivered' = undelivered - 1
  /\ stuck' = stuck + 1
  /\ UNCHANGED <<enqueued, scalerVars, samples, runVars, processing, cancelled>>

(* processJob is over and the message acked, or moved to the dead letters. *)
PoolFinishAcked ==
  /\ processing > 0
  /\ processing' = processing - 1
  /\ UNCHANGED <<messageVars, scalerVars, samples, runVars, claiming, cancelled>>

(* The call that retires the message failed: it stays pending.             *)
PoolFinishStuck ==
  /\ processing > 0
  /\ RedisFails \/ cancelled
  /\ processing' = processing - 1
  /\ stuck' = stuck + 1
  /\ UNCHANGED <<undelivered, enqueued, scalerVars, samples, runVars, claiming, cancelled>>

(* NackWithAttempt enqueues the job again.                                 *)
PoolFinishRetried ==
  /\ processing > 0 /\ enqueued < MaxEnqueued
  /\ processing' = processing - 1
  /\ enqueued' = enqueued + 1
  /\ undelivered' = undelivered + 1
  /\ UNCHANGED <<stuck, scalerVars, samples, runVars, claiming, cancelled>>

PoolFinish == PoolFinishAcked \/ PoolFinishStuck \/ PoolFinishRetried

------------------------------------------------------------------------------
(* Run.                                                                    *)

(* RecordUtilization: busy is len(sem), so a goroutine that waits in       *)
(* ClaimPending counts as busy. Only the last Window samples are kept.     *)
RecordUtilization(busy, total) ==
  IF total = 0 THEN UNCHANGED samples
  ELSE LET all == Append(samples, (100 * busy) \div total)
       IN  samples' = IF Len(all) > Window THEN Tail(all) ELSE all

(* Seeded bug: the test for room is off by one.                            *)
RunCheckOffByOne ==
  /\ run = "check"
  /\ IF cancelled
     THEN run' = "drain" /\ UNCHANGED <<want, samples>>
     ELSE /\ want' = desired
          /\ RecordUtilization(InUse, desired)
          /\ run' = IF InUse > desired THEN "check" ELSE "start"
  /\ UNCHANGED <<messageVars, scalerVars, taken, claiming, processing, cancelled>>

(* One pass of the loop up to its test; without room it sleeps 50 ms.      *)
RunCheck ==
  /\ run = "check"
  /\ IF cancelled
     THEN run' = "drain" /\ UNCHANGED <<want, samples>>
     ELSE /\ want' = desired
          /\ RecordUtilization(InUse, desired)
          /\ run' = IF InUse >= desired THEN "check" ELSE "start"
  /\ UNCHANGED <<messageVars, scalerVars, taken, claiming, processing, cancelled>>

(* sem <- struct{}{}, and the goroutine.                                   *)
RunStart ==
  /\ run = "start"
  /\ InUse < MaxConc
  /\ claiming' = claiming + 1
  /\ run' = "check"
  /\ UNCHANGED <<messageVars, scalerVars, samples, want, taken, processing, cancelled>>

(* Seeded bug: the drain takes as many slots as are desired now.           *)
RunDrainDesired ==
  /\ run = "drain"
  /\ IF taken >= desired
     THEN run' = "returned" /\ UNCHANGED taken
     ELSE InUse < MaxConc /\ taken' = taken + 1 /\ UNCHANGED run
  /\ UNCHANGED <<messageVars, scalerVars, samples, want, claiming, processing, cancelled>>

(* One turn of the drain loop, or the return after it.                     *)
RunDrain ==
  /\ run = "drain"
  /\ IF taken = MaxConc
     THEN run' = "returned" /\ UNCHANGED taken
     ELSE InUse < MaxConc /\ taken' = taken + 1 /\ UNCHANGED run
  /\ UNCHANGED <<messageVars, scalerVars, samples, want, claiming, processing, cancelled>>

------------------------------------------------------------------------------
(* The controller.                                                         *)

AvgUtilization ==
  IF samples = <<>> THEN 0
  ELSE FoldFunction(LAMBDA x, y : x + y, 0, samples) \div Len(samples)

Later(since, cooldown) == IF since < cooldown THEN since + 1 ELSE cooldown

(* A tick: evaluate asks Redis for the lag and the pending count; without  *)
(* an answer it returns.                                                   *)
ReadMetrics ==
  /\ ~ cancelled
  /\ depth = NoDepth
  /\ depth' = undelivered + processing + stuck
  /\ sinceUp' = Later(sinceUp, CooldownUp)
  /\ sinceDown' = Later(sinceDown, CooldownDown)
  /\ UNCHANGED <<messageVars, desired, samples, runVars, claiming, processing, cancelled>>

MetricsFail ==
  /\ RedisFails
  /\ ~ cancelled
  /\ depth = NoDepth
  /\ sinceUp' = Later(sinceUp, CooldownUp)
  /\ sinceDown' = Later(sinceDown, CooldownDown)
  /\ UNCHANGED <<messageVars, desired, depth, samples, runVars, claiming, processing,
                 cancelled>>

(* Seeded bug: the upper bound is not looked at.                           *)
ScaleUpUnbounded ==
  /\ sinceUp >= CooldownUp
  /\ depth > ScaleUpQueueDepth \/ AvgUtilization > ScaleUpBusyPct

ScaleUp ==
  /\ desired < MaxWorkers /\ sinceUp >= CooldownUp
  /\ depth > ScaleUpQueueDepth \/ AvgUtilization > ScaleUpBusyPct

(* Seeded bug: the lower bound is missed by one.                           *)
ScaleDownBelow ==
  /\ desired >= MinWorkers /\ sinceDown >= CooldownDown
  /\ depth < ScaleDownQueueDepth /\ AvgUtilization < ScaleDownBusyPct

ScaleDown ==
  /\ desired > MinWorkers /\ sinceDown >= CooldownDown
  /\ depth < ScaleDownQueueDepth /\ AvgUtilization < ScaleDownBusyPct

(* Seeded bug: every evaluation starts the cooldown anew.                  *)
EvaluateResets ==
  /\ depth # NoDepth
  /\ depth' = NoDepth
  /\ sinceUp' = 0
  /\ \/ ScaleUp /\ desired' = desired + 1 /\ UNCHANGED sinceDown
     \/ ~ ScaleUp /\ ScaleDown /\ desired' = desired - 1 /\ sinceDown' = 0
     \/ ~ ScaleUp /\ ~ ScaleDown /\ UNCHANGED <<desired, sinceDown>>
  /\ UNCHANGED <<messageVars, samples, runVars, claiming, processing, cancelled>>

(* The rest of evaluate: the samples and the clock are read after the      *)
(* metrics, and the first rule that applies is the only one.               *)
Evaluate ==
  /\ depth # NoDepth
  /\ depth' = NoDepth
  /\ \/ ScaleUp /\ desired' = desired + 1 /\ sinceUp' = 0 /\ UNCHANGED sinceDown
     \/ ~ ScaleUp /\ ScaleDown /\ desired' = desired - 1 /\ sinceDown' = 0
                  /\ UNCHANGED sinceUp
     \/ ~ ScaleUp /\ ~ ScaleDown /\ UNCHANGED <<desired, sinceUp, sinceDown>>
  /\ UNCHANGED <<messageVars, samples, runVars, claiming, processing, cancelled>>

PoolNext ==
  \/ PoolEnqueue \/ Cancel
  \/ PoolClaim \/ PoolClaimNothing \/ PoolClaimLost
  \/ PoolFinishAcked \/ PoolFinishStuck \/ PoolFinishRetried
  \/ RunCheck \/ RunStart \/ RunDrain
  \/ ReadMetrics \/ MetricsFail \/ Evaluate

PoolSpec == PoolInit /\ [][PoolNext]_poolVars

(* The three goroutines run; XREADGROUP ends after at most five seconds    *)
(* and, if it is tried again and again, succeeds; a job is over at some    *)
(* time. That is assumed of ffmpeg, which reads a finite file: it is       *)
(* started with exec.Command, so neither a deadline nor the cancellation   *)
(* ends it.                                                                *)
PoolFairness ==
  /\ WF_poolVars(RunCheck) /\ WF_poolVars(RunStart) /\ WF_poolVars(RunDrain)
  /\ WF_poolVars(ReadMetrics) /\ WF_poolVars(Evaluate)
  /\ SF_poolVars(PoolClaim) /\ WF_poolVars(PoolClaimNothing) /\ WF_poolVars(PoolFinish)

PoolFairSpec == PoolSpec /\ PoolFairness

------------------------------------------------------------------------------
(* Properties.                                                             *)

(* processor.go:71, "sized to the maximum possible concurrency so we never *)
(* block on sends": whenever Run is about to start a goroutine there is    *)
(* room in sem, although the test was made before and Desired() may have   *)
(* moved since. A blocked send would keep Run from seeing ctx.Done.        *)
SendNeverBlocks == run = "start" => InUse < MaxConc

(* When Run returns no goroutine is left: main closes the database and     *)
(* Redis next, and a goroutine still at its job would fail it and write to *)
(* closed pools.                                                           *)
DrainedMeansIdle == run = "returned" => claiming + processing = 0

(* After the signal Run returns, whatever the goroutines were doing and    *)
(* however far the scaler had moved the pool.                              *)
ShutdownEnds == cancelled ~> run = "returned"

(* Whatever the scaler decides, the queue is drained again and again while *)
(* the process runs: the pool never shrinks to nothing and a slot is never *)
(* lost.                                                                   *)
QueueIsServed == []<>(undelivered = 0 \/ cancelled)

(* A queue that stays deep takes the pool to MaxWorkers, cooldowns, stale  *)
(* depths and failed reads of the metrics notwithstanding.                 *)
DeepQueueScalesUp ==
  undelivered + processing + stuck > ScaleUpQueueDepth
    ~> \/ desired = MaxWorkers
       \/ undelivered + processing + stuck <= ScaleUpQueueDepth
       \/ cancelled

(* The types, with the bounds of the desired concurrency, and what Run     *)
(* keeps of its semaphore up to its return.                                *)
PoolInv == PoolTypeOK /\ SendNeverBlocks /\ DrainedMeansIdle
===============================================================================
