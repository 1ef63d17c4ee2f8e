------------------------- MODULE MCTranscodeWorker -------------------------
(***************************************************************************)
(* Instances of TranscodeWorker for TLC. MaxAttempts bounds the retries    *)
(* and thereby every counter and the stream, so no other bound is needed.  *)
(***************************************************************************)
EXTENDS TranscodeWorker, TLC

CONSTANTS j1, j2, w1, w2, p1, p2

(* One process per goroutine, or one process with two goroutines.          *)
TwoProcesses == p1 :> w1 @@ p2 :> w2
OneProcess == p1 :> w1 @@ p2 :> w1

(* Two processes of one goroutine each are interchangeable.                *)
Swap == {f \in Permutations({p1, p2, w1, w2}) :
           \A p \in {p1, p2} : f[p] \in {p1, p2} /\ f[TwoProcesses[p]] = TwoProcesses[f[p]]}
=============================================================================
