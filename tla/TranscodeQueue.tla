--------------------------- MODULE TranscodeQueue ---------------------------
(***************************************************************************)
(* The transcode queue of packages/media/queue.go: one Redis stream read   *)
(* by one consumer group, and a dead-letter stream.                        *)
(*                                                                         *)
(* Redis itself is external; it is modelled by what queue.go asks of it:   *)
(*   stream     the entries of the stream, in the order of their ids (an   *)
(*              entry's id is its index here; entries are never deleted:   *)
(*              the code calls neither XDEL nor XTRIM);                    *)
(*   delivered  the group's last-delivered id;                             *)
(*   pel        the group's pending entries list: delivered, not acked;    *)
(*   dlq        the entries of the dead-letter stream.                     *)
(*                                                                         *)
(* Every call over the network ends in one of five ways, and the caller    *)
(* only sees an error or none:                                             *)
(*   "ok"    executed, reply received;                                     *)
(*   "err"   not executed, error returned;                                 *)
(*   "lost"  executed, but the reply was lost and an error is returned;    *)
(*   "half"  a pipeline of two commands of which only the first was        *)
(*           executed, error returned;                                     *)
(*   "dup"   executed twice (go-redis sends a command again after a        *)
(*           network error, MaxRetries is left at its default), no error.  *)
(***************************************************************************)
EXTENDS Naturals, Sequences

CONSTANTS Jobs,         \* ids of transcode_jobs rows; each has its own video
          MaxAttempts   \* Job.MaxAttempts; 0 means that retries are unlimited

ASSUME MaxAttemptsAssumption == MaxAttempts \in Nat

VARIABLES stream, delivered, pel, dlq

queueVars == <<stream, delivered, pel, dlq>>

(* What the queue keeps of a Job: which one, and its Attempt counter.      *)
Message == [job : Jobs, attempt : Nat]

DeadLetterEntry == [job : Jobs, attempt : Nat, origMsgID : Nat, permanent : BOOLEAN]

QueueTypeOK ==
  /\ stream \in Seq(Message)
  /\ delivered \in 0 .. Len(stream)
  /\ pel \subseteq 1 .. delivered
  /\ dlq \subseteq DeadLetterEntry

QueueInit ==
  /\ stream = <<>>
  /\ delivered = 0
  /\ pel = {}
  /\ dlq = {}

(* The command took effect on the server.                                  *)
Executed(o) == o \in {"ok", "lost", "dup"}

(* The caller sees no error.                                               *)
Succeeded(o) == o \in {"ok", "dup"}

(* Enqueue: XADD of the job with its current Attempt.                      *)
Enqueue(job, attempt, o) ==
  LET m == [job |-> job, attempt |-> attempt] IN
  /\ stream' = IF o = "dup" THEN Append(Append(stream, m), m)
               ELSE IF Executed(o) THEN Append(stream, m)
               ELSE stream
  /\ UNCHANGED <<delivered, pel, dlq>>

(* XREADGROUP ... ">" COUNT 1: the next entry never delivered to the group *)
(* becomes pending. Entries already pending are never returned again.      *)
Deliver ==
  /\ delivered < Len(stream)
  /\ delivered' = delivered + 1
  /\ pel' = pel \cup {delivered + 1}
  /\ UNCHANGED <<stream, dlq>>

(* Ack: XACK.                                                              *)
Ack(id, o) ==
  /\ pel' = IF Executed(o) THEN pel \ {id} ELSE pel
  /\ UNCHANGED <<stream, delivered, dlq>>

(* Seeded bug: the test is off by one.                                     *)
ExhaustedLate(attempt) == MaxAttempts > 0 /\ attempt + 1 > MaxAttempts

(* NackWithAttempt's test, made after job.Attempt++.                       *)
Exhausted(attempt) == MaxAttempts > 0 /\ attempt + 1 >= MaxAttempts

(* MoveToDeadLetter: XADD on the dead-letter stream and XACK in one        *)
(* pipeline, which is not a transaction.                                   *)
MoveToDeadLetter(id, entry, o) ==
  /\ dlq' = IF Executed(o) \/ o = "half" THEN dlq \cup {entry} ELSE dlq
  /\ pel' = IF Executed(o) THEN pel \ {id} ELSE pel
  /\ UNCHANGED <<stream, delivered>>
=============================================================================
