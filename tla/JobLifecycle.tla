----------------------------- MODULE JobLifecycle -----------------------------
(***************************************************************************)
(* What the transcoding pipeline promises about an upload, without queue,  *)
(* messages, retries or failures: an accepted job is worked on by one      *)
(* goroutine at a time and started at most MaxAttempts times; its video is *)
(* published at most once, by a goroutine that has started the job; a job  *)
(* given up is never worked on again. TranscodeWorker implements this.     *)
(***************************************************************************)
EXTENDS Naturals

CONSTANTS Jobs, Procs, MaxAttempts

VARIABLES
  accepted,    \* jobs of completed uploads
  workers,     \* the goroutines at work on a job
  attempts,    \* how often a job was started
  published,   \* jobs whose video is ready
  dead         \* jobs given up

lifecycle == <<accepted, workers, attempts, published, dead>>

Init ==
  /\ accepted = {}
  /\ workers = [j \in Jobs |-> {}]
  /\ attempts = [j \in Jobs |-> 0]
  /\ published = {}
  /\ dead = {}

Accept(j) ==
  /\ j \notin accepted
  /\ accepted' = accepted \cup {j}
  /\ UNCHANGED <<workers, attempts, published, dead>>

Begin(j, p) ==
  /\ j \in accepted \ dead
  /\ workers[j] = {}
  /\ workers' = [workers EXCEPT ![j] = {p}]
  /\ UNCHANGED <<accepted, attempts, published, dead>>

Attempt(j) ==
  /\ workers[j] # {}
  /\ MaxAttempts > 0 => attempts[j] < MaxAttempts
  /\ attempts' = [attempts EXCEPT ![j] = @ + 1]
  /\ UNCHANGED <<accepted, workers, published, dead>>

Publish(j) ==
  /\ workers[j] # {} /\ attempts[j] > 0
  /\ j \notin published
  /\ published' = published \cup {j}
  /\ UNCHANGED <<accepted, workers, attempts, dead>>

End(j) ==
  /\ workers[j] # {}
  /\ workers' = [workers EXCEPT ![j] = {}]
  /\ UNCHANGED <<accepted, attempts, published, dead>>

GiveUp(j) ==
  /\ workers[j] # {}
  /\ workers' = [workers EXCEPT ![j] = {}]
  /\ dead' = dead \cup {j}
  /\ UNCHANGED <<accepted, attempts, published>>

(* A process dies, and with it the work of its goroutines.                 *)
Die(gone) ==
  /\ workers' = [j \in Jobs |-> workers[j] \ gone]
  /\ UNCHANGED <<accepted, attempts, published, dead>>

Next ==
  \/ \E j \in Jobs : \/ Accept(j) \/ \E p \in Procs : Begin(j, p)
                     \/ Attempt(j) \/ Publish(j) \/ End(j) \/ GiveUp(j)
  \/ \E gone \in SUBSET Procs : Die(gone)

Spec == Init /\ [][Next]_lifecycle
===============================================================================
