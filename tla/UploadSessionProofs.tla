-------------------------- MODULE UploadSessionProofs --------------------------
(***************************************************************************)
(* Proofs about UploadSession, for any number of requests, every byte_size *)
(* and every set of faults.                                                *)
(***************************************************************************)
EXTENDS UploadSession, FiniteSetTheorems, TLAPS

(* A set of requests that gains one.                                       *)
LEMMA OneMore ==
  ASSUME NEW S \in SUBSET Reqs, NEW T \in SUBSET Reqs, S \subseteq T
  PROVE  /\ Cardinality(S) \in Nat /\ Cardinality(T) \in Nat
         /\ Cardinality(S) <= Cardinality(T)
         /\ \A x \in T \ S : Cardinality(S) + 1 <= Cardinality(T)
<1>1. IsFiniteSet(S) /\ IsFiniteSet(T)
  BY UploadAssumption, FS_Subset
<1>2. Cardinality(S) \in Nat /\ Cardinality(T) \in Nat /\ Cardinality(S) <= Cardinality(T)
  BY <1>1, FS_Subset, FS_CardinalityType
<1>3. ASSUME NEW x \in T \ S PROVE Cardinality(S) + 1 <= Cardinality(T)
  <2>1. Cardinality(S \cup {x}) = Cardinality(S) + 1
    BY <1>1, <1>3, FS_AddElement
  <2>2. Cardinality(S \cup {x}) <= Cardinality(T)
    BY <1>1, <1>3, FS_Subset
  <2> QED BY <2>1, <2>2
<1> QED BY <1>2, <1>3

------------------------------------------------------------------------------
(* Types. The rows and messages of a session are counted by the requests   *)
(* that have got past creating them.                                       *)

Past(labels) == {q \in Reqs : pc[q] \in labels}

RowTypeOK ==
  /\ width \in 1 .. MaxInFlight
  /\ status \in {"none", "pending", "uploading", "complete", "cancelled", "expired", "failed"}
  /\ received \in Nat /\ stored \in Nat /\ missed \in Nat
  /\ cleanup \in {"none", "pending", "over"}
  /\ pc \in [Reqs -> {"new", "scan", "put", "count", "mark", "video", "job", "enqueue",
                      "cancel", "done"}]
  /\ size \in [Reqs -> 0 .. ByteSize]

FlagTypeOK == expired \in BOOLEAN /\ presigned \in BOOLEAN /\ raw \in BOOLEAN

RowsCounted ==
  /\ videos \in Nat /\ videos <= Cardinality(Past({"job", "enqueue", "done"}))
  /\ jobs \in Nat /\ jobs <= Cardinality(Past({"enqueue", "done"}))
  /\ enqueued \in Nat /\ enqueued <= Cardinality(Past({"done"}))

TypeInv == RowTypeOK /\ FlagTypeOK /\ RowsCounted

LEMMA TypeInvImplies == TypeInv => TypeOK
<1> SUFFICES ASSUME TypeInv PROVE TypeOK
  OBVIOUS
<1>1. \A labels : Past(labels) \in SUBSET Reqs
  BY DEF Past
<1>2. /\ Cardinality(Past({"job", "enqueue", "done"})) <= Cardinality(Reqs)
      /\ Cardinality(Past({"enqueue", "done"})) <= Cardinality(Reqs)
      /\ Cardinality(Past({"done"})) <= Cardinality(Reqs)
      /\ Cardinality(Past({"job", "enqueue", "done"})) \in Nat
      /\ Cardinality(Past({"enqueue", "done"})) \in Nat
      /\ Cardinality(Past({"done"})) \in Nat
      /\ Cardinality(Reqs) \in Nat
  BY <1>1, OneMore
<1>3. videos \in 0 .. Cardinality(Reqs) /\ jobs \in 0 .. Cardinality(Reqs)
      /\ enqueued \in 0 .. Cardinality(Reqs)
  BY <1>2 DEF TypeInv, RowsCounted
<1>4. {expired, presigned, raw} \subseteq BOOLEAN
  BY DEF TypeInv, FlagTypeOK
<1> QED BY <1>3, <1>4 DEF TypeInv, RowTypeOK, TypeOK

LEMMA TypeInvInit == Init => TypeInv
<1> SUFFICES ASSUME Init PROVE TypeInv
  OBVIOUS
<1>1. RowTypeOK
  BY UploadAssumption DEF Init, RowTypeOK
<1>2. FlagTypeOK
  BY DEF Init, FlagTypeOK
<1>3. RowsCounted
  <2>1. \A labels : Past(labels) \in SUBSET Reqs
    BY DEF Past
  <2> QED BY <2>1, OneMore DEF Init, RowsCounted
<1> QED BY <1>1, <1>2, <1>3 DEF TypeInv

(* The labels of a request only move forward, so a request that is past a  *)
(* step stays past it.                                                     *)
Forward(q) ==
  /\ pc[q] = "done" => pc'[q] = "done"
  /\ pc[q] = "enqueue" => pc'[q] \in {"enqueue", "done"}
  /\ pc[q] = "job" => pc'[q] \in {"job", "enqueue", "done"}

(* How the numbers of rows may change in a step.                           *)
LEMMA CountedNext ==
  ASSUME TypeInv, \A q \in Reqs : Forward(q),
         \/ videos' = videos
         \/ videos' = videos + 1 /\ \E q \in Reqs : pc[q] = "video" /\ pc'[q] \in {"job", "done"},
         \/ jobs' = jobs
         \/ jobs' = jobs + 1 /\ \E q \in Reqs : pc[q] = "job" /\ pc'[q] \in {"enqueue", "done"},
         \/ enqueued' = enqueued
         \/ enqueued' = enqueued + 1 /\ \E q \in Reqs : pc[q] = "enqueue" /\ pc'[q] = "done"
  PROVE  RowsCounted'
<1> DEFINE V == Past({"job", "enqueue", "done"})
<1> DEFINE J == Past({"enqueue", "done"})
<1> DEFINE E == Past({"done"})
<1>1. /\ V \in SUBSET Reqs /\ V' \in SUBSET Reqs /\ V \subseteq V'
      /\ J \in SUBSET Reqs /\ J' \in SUBSET Reqs /\ J \subseteq J'
      /\ E \in SUBSET Reqs /\ E' \in SUBSET Reqs /\ E \subseteq E'
  BY DEF Past, Forward
<1>2. /\ videos' = videos \/ (videos' = videos + 1 /\ \E q : q \in V' \ V)
      /\ jobs' = jobs \/ (jobs' = jobs + 1 /\ \E q : q \in J' \ J)
      /\ enqueued' = enqueued \/ (enqueued' = enqueued + 1 /\ \E q : q \in E' \ E)
  BY DEF Past
<1>3. /\ videos \in Nat /\ videos <= Cardinality(V)
      /\ jobs \in Nat /\ jobs <= Cardinality(J)
      /\ enqueued \in Nat /\ enqueued <= Cardinality(E)
  BY DEF TypeInv, RowsCounted
<1> HIDE DEF V, J, E
<1>4. videos' \in Nat /\ videos' <= Cardinality(V')
  BY <1>1, <1>2, <1>3, OneMore
<1>5. jobs' \in Nat /\ jobs' <= Cardinality(J')
  BY <1>1, <1>2, <1>3, OneMore
<1>6. enqueued' \in Nat /\ enqueued' <= Cardinality(E')
  BY <1>1, <1>2, <1>3, OneMore
<1> QED BY <1>4, <1>5, <1>6 DEF RowsCounted, V, J, E

LEMMA TypeInvNext == TypeInv /\ [Next]_vars => TypeInv'
<1> SUFFICES ASSUME TypeInv, [Next]_vars PROVE TypeInv'
  OBVIOUS
<1> USE UploadAssumption
<1>1. ASSUME UNCHANGED mediaVars, \A q \in Reqs : Forward(q) PROVE RowsCounted'
  BY <1>1, CountedNext DEF mediaVars
<1>2. ASSUME UNCHANGED <<mediaVars, pc>> PROVE RowsCounted'
  BY <1>1, <1>2 DEF Forward
<1>3. ASSUME UNCHANGED <<expired, presigned, raw>> PROVE FlagTypeOK'
  BY <1>3 DEF TypeInv, FlagTypeOK
<1>4. CASE CreateSession
  <2>1. RowTypeOK'
    BY <1>4 DEF CreateSession, storeVars, chunkVars, TypeInv, RowTypeOK
  <2>2. FlagTypeOK'
    BY <1>4 DEF CreateSession, storeVars, TypeInv, FlagTypeOK
  <2> QED BY <1>2, <1>4, <2>1, <2>2 DEF CreateSession, TypeInv
<1>5. CASE ClientPut
  <2>1. RowTypeOK'
    BY <1>5 DEF ClientPut, rowVars, chunkVars, TypeInv, RowTypeOK
  <2>2. FlagTypeOK'
    BY <1>5 DEF ClientPut, rowVars, TypeInv, FlagTypeOK
  <2> QED BY <1>2, <1>5, <2>1, <2>2 DEF ClientPut, TypeInv
<1>6. CASE Expire
  <2>1. RowTypeOK'
    BY <1>6 DEF Expire, storeVars, chunkVars, TypeInv, RowTypeOK
  <2>2. FlagTypeOK'
    BY <1>6 DEF Expire, storeVars, TypeInv, FlagTypeOK
  <2> QED BY <1>2, <1>6, <2>1, <2>2 DEF Expire, TypeInv
<1>7. CASE DeleteRaw
  <2>1. RowTypeOK'
    BY <1>7 DEF DeleteRaw, rowVars, chunkVars, TypeInv, RowTypeOK
  <2>2. FlagTypeOK'
    BY <1>7 DEF DeleteRaw, rowVars, TypeInv, FlagTypeOK
  <2> QED BY <1>2, <1>7, <2>1, <2>2 DEF DeleteRaw, TypeInv
<1>8. CASE ExpireSessions
  <2>1. RowTypeOK'
    BY <1>8 DEF ExpireSessions, chunkVars, TypeInv, RowTypeOK
  <2> QED BY <1>2, <1>3, <1>8, <2>1 DEF ExpireSessions, TypeInv
<1>9. ASSUME NEW q \in Reqs, ChunkRead(q) PROVE TypeInv'
  <2>1. RowTypeOK'
    BY <1>9 DEF ChunkRead, Goto, rowVars, storeVars, chunkVars, TypeInv, RowTypeOK
  <2>2. \A r \in Reqs : Forward(r)
    BY <1>9 DEF ChunkRead, Arrives, Goto, Forward, TypeInv, RowTypeOK
  <2> QED BY <1>1, <1>3, <1>9, <2>1, <2>2 DEF ChunkRead, rowVars, storeVars, TypeInv
<1>10. ASSUME NEW q \in Reqs, Scan(q) PROVE TypeInv'
  <2>1. RowTypeOK'
    BY <1>10 DEF Scan, Goto, storeVars, chunkVars, TypeInv, RowTypeOK
  <2>2. \A r \in Reqs : Forward(r)
    BY <1>10 DEF Scan, Goto, Forward, TypeInv, RowTypeOK
  <2> QED BY <1>1, <1>3, <1>10, <2>1, <2>2 DEF Scan, storeVars, TypeInv
<1>11. ASSUME NEW q \in Reqs, PutChunk(q) PROVE TypeInv'
  <2>1. RowTypeOK'
    BY <1>11 DEF PutChunk, Proceed, Goto, rowVars, TypeInv, RowTypeOK
  <2>2. \A r \in Reqs : Forward(r)
    BY <1>11 DEF PutChunk, Proceed, Goto, Forward, TypeInv, RowTypeOK
  <2> QED BY <1>1, <1>3, <1>11, <2>1, <2>2 DEF PutChunk, rowVars, TypeInv
<1>12. ASSUME NEW q \in Reqs, CountChunk(q) PROVE TypeInv'
  <2>1. RowTypeOK'
    BY <1>12 DEF CountChunk, Goto, TypeInv, RowTypeOK
  <2>2. \A r \in Reqs : Forward(r)
    BY <1>12 DEF CountChunk, Goto, Forward, TypeInv, RowTypeOK
  <2> QED BY <1>1, <1>3, <1>12, <2>1, <2>2 DEF CountChunk, TypeInv
<1>13. ASSUME NEW q \in Reqs, CompleteRead(q) \/ CancelRead(q) PROVE TypeInv'
  <2>1. RowTypeOK'
    BY <1>13 DEF CompleteRead, CancelRead, Goto, rowVars, storeVars, chunkVars, TypeInv, RowTypeOK
  <2>2. \A r \in Reqs : Forward(r)
    BY <1>13 DEF CompleteRead, CancelRead, Arrives, Goto, Forward, TypeInv, RowTypeOK
  <2> QED BY <1>1, <1>3, <1>13, <2>1, <2>2 DEF CompleteRead, CancelRead, rowVars, storeVars, TypeInv
<1>14. ASSUME NEW q \in Reqs, MarkComplete(q) PROVE TypeInv'
  <2>1. RowTypeOK'
    BY <1>14 DEF MarkComplete, Proceed, Goto, storeVars, chunkVars, TypeInv, RowTypeOK
  <2>2. \A r \in Reqs : Forward(r)
    BY <1>14 DEF MarkComplete, Proceed, Goto, Forward, TypeInv, RowTypeOK
  <2> QED BY <1>1, <1>3, <1>14, <2>1, <2>2 DEF MarkComplete, storeVars, TypeInv
<1>15. ASSUME NEW q \in Reqs, MarkCancelled(q) PROVE TypeInv'
  <2>1. RowTypeOK'
    BY <1>15 DEF MarkCancelled, Goto, chunkVars, TypeInv, RowTypeOK
  <2>2. \A r \in Reqs : Forward(r)
    BY <1>15 DEF MarkCancelled, Goto, Forward, TypeInv, RowTypeOK
  <2> QED BY <1>1, <1>3, <1>15, <2>1, <2>2 DEF MarkCancelled, TypeInv
<1>16. ASSUME NEW q \in Reqs, InsertVideo(q) PROVE TypeInv'
  <2>1. RowTypeOK'
    BY <1>16 DEF InsertVideo, Proceed, Goto, rowVars, storeVars, chunkVars, TypeInv, RowTypeOK
  <2>2. pc[q] = "video" /\ pc'[q] \in {"job", "done"} /\ \A r \in Reqs : Forward(r)
    BY <1>16 DEF InsertVideo, Proceed, Goto, Forward, TypeInv, RowTypeOK
  <2>3. videos' \in {videos, videos + 1} /\ UNCHANGED <<jobs, enqueued>>
    BY <1>16 DEF InsertVideo
  <2>4. RowsCounted'
    BY <2>2, <2>3, CountedNext
  <2> QED BY <1>3, <1>16, <2>1, <2>4 DEF InsertVideo, rowVars, storeVars, TypeInv
<1>17. ASSUME NEW q \in Reqs, InsertJob(q) PROVE TypeInv'
  <2>1. RowTypeOK'
    BY <1>17 DEF InsertJob, Proceed, Goto, rowVars, storeVars, chunkVars, TypeInv, RowTypeOK
  <2>2. pc[q] = "job" /\ pc'[q] \in {"enqueue", "done"} /\ \A r \in Reqs : Forward(r)
    BY <1>17 DEF InsertJob, Proceed, Goto, Forward, TypeInv, RowTypeOK
  <2>3. jobs' \in {jobs, jobs + 1} /\ UNCHANGED <<videos, enqueued>>
    BY <1>17 DEF InsertJob
  <2>4. RowsCounted'
    BY <2>2, <2>3, CountedNext
  <2> QED BY <1>3, <1>17, <2>1, <2>4 DEF InsertJob, rowVars, storeVars, TypeInv
<1>18. ASSUME NEW q \in Reqs, EnqueueJob(q) PROVE TypeInv'
  <2>1. RowTypeOK'
    BY <1>18 DEF EnqueueJob, Goto, rowVars, storeVars, chunkVars, TypeInv, RowTypeOK
  <2>2. pc[q] = "enqueue" /\ pc'[q] = "done" /\ \A r \in Reqs : Forward(r)
    BY <1>18 DEF EnqueueJob, Goto, Forward, TypeInv, RowTypeOK
  <2>3. enqueued' \in {enqueued, enqueued + 1} /\ UNCHANGED <<videos, jobs>>
    BY <1>18 DEF EnqueueJob
  <2>4. RowsCounted'
    BY <2>2, <2>3, CountedNext
  <2> QED BY <1>3, <1>18, <2>1, <2>4 DEF EnqueueJob, rowVars, storeVars, TypeInv
<1>19. CASE UNCHANGED vars
  <2>1. RowTypeOK'
    BY <1>19 DEF vars, rowVars, storeVars, chunkVars, TypeInv, RowTypeOK
  <2> QED BY <1>2, <1>3, <1>19, <2>1 DEF vars, rowVars, storeVars, TypeInv
<1> QED
  BY <1>4, <1>5, <1>6, <1>7, <1>8, <1>9, <1>10, <1>11, <1>12, <1>13, <1>14, <1>15, <1>16,
     <1>17, <1>18, <1>19 DEF Next

(* Every state of a session is well-typed: no request stores a body longer *)
(* than byte_size, and each creates at most one video, job and message.    *)
THEOREM TypeCorrect == Spec => []TypeOK
BY TypeInvInit, TypeInvNext, TypeInvImplies, PTL DEF Spec

------------------------------------------------------------------------------
(* A client that waits for each answer (width = 1). Nothing locks the row, *)
(* so the argument is that what a request in flight has read still holds.  *)

(* Only one request is in flight.                                          *)
Alone ==
  width = 1 => \A p, q \in InFlight : p = q

(* A request that was let in finds the session unended until its own       *)
(* UPDATE, and the one that has completed it finds it complete.            *)
ReadIsFresh ==
  width = 1 =>
    \A q \in Reqs :
      /\ pc[q] \in {"scan", "put", "count", "mark", "cancel"} =>
           status \notin {"complete", "cancelled"}
      /\ pc[q] \in {"video", "job", "enqueue"} => status = "complete"
      /\ pc[q] = "video" => videos = 0

(* The one video belongs to a complete session.                            *)
VideoIsComplete ==
  width = 1 => videos <= 1 /\ (videos > 0 => status = "complete")

(* Clean-up was started by a cancellation or by the sweep.                 *)
CleanupHasCause ==
  width = 1 => (cleanup # "none" => status = "cancelled" \/ expired)

PatientInv == Alone /\ ReadIsFresh /\ VideoIsComplete /\ CleanupHasCause

LEMMA PatientInvInit == Init => PatientInv
BY DEF Init, PatientInv, Alone, ReadIsFresh, VideoIsComplete, CleanupHasCause, InFlight

(* With width = 1 a request arrives when none is in flight.                *)
LEMMA ArrivesAlone ==
  ASSUME width = 1, NEW q \in Reqs, Arrives(q)
  PROVE  InFlight = {}
<1>1. InFlight \in SUBSET Reqs
  BY DEF InFlight
<1>2. IsFiniteSet(InFlight)
  BY <1>1, UploadAssumption, FS_Subset
<1>3. Cardinality(InFlight) \in Nat /\ Cardinality(InFlight) < 1
  BY <1>2, FS_CardinalityType DEF Arrives
<1>4. Cardinality(InFlight) = 0
  BY <1>3
<1> QED BY <1>2, <1>4, FS_EmptySet

LEMMA PatientInvNext == TypeInv /\ PatientInv /\ [Next]_vars => PatientInv'
<1> SUFFICES ASSUME TypeInv, PatientInv, [Next]_vars PROVE PatientInv'
  OBVIOUS
<1>0. width' = width
  <2>1. ASSUME CreateSession \/ ClientPut \/ Expire \/ DeleteRaw \/ ExpireSessions \/ UNCHANGED vars
        PROVE  width' = width
    BY <2>1 DEF CreateSession, ClientPut, Expire, DeleteRaw, ExpireSessions, vars
  <2>2. ASSUME NEW q \in Reqs,
               \/ ChunkRead(q) \/ Scan(q) \/ PutChunk(q) \/ CountChunk(q) \/ CompleteRead(q)
               \/ CancelRead(q)
        PROVE  width' = width
    BY <2>2 DEF ChunkRead, Scan, PutChunk, CountChunk, CompleteRead, CancelRead
  <2>3. ASSUME NEW q \in Reqs,
               \/ MarkComplete(q) \/ InsertVideo(q) \/ InsertJob(q) \/ EnqueueJob(q)
               \/ MarkCancelled(q)
        PROVE  width' = width
    BY <2>3 DEF MarkComplete, InsertVideo, InsertJob, EnqueueJob, MarkCancelled
  <2> QED BY <2>1, <2>2, <2>3 DEF Next
<1> SUFFICES ASSUME width = 1, width' = 1 PROVE PatientInv'
  BY <1>0 DEF PatientInv, Alone, ReadIsFresh, VideoIsComplete, CleanupHasCause
<1> USE DEF PatientInv, InFlight
<1>1. pc \in [Reqs -> {"new", "scan", "put", "count", "mark", "video", "job", "enqueue",
                      "cancel", "done"}] /\ videos \in Nat
  BY DEF TypeInv, RowTypeOK, RowsCounted
<1>2. \A p, q \in Reqs : pc[p] \notin {"new", "done"} /\ pc[q] \notin {"new", "done"} => p = q
  BY DEF Alone
<1>3. ASSUME UNCHANGED <<status, videos, pc>>,
             cleanup' # "none" => cleanup # "none", expired => expired'
      PROVE  PatientInv'
  BY <1>3 DEF Alone, ReadIsFresh, VideoIsComplete, CleanupHasCause
<1>4. CASE CreateSession
  BY <1>4 DEF CreateSession, storeVars, mediaVars, Alone, ReadIsFresh, VideoIsComplete,
     CleanupHasCause
<1>5. CASE ClientPut \/ Expire \/ DeleteRaw
  BY <1>3, <1>5 DEF ClientPut, Expire, DeleteRaw, rowVars, storeVars, mediaVars
<1>6. CASE ExpireSessions
  BY <1>6 DEF ExpireSessions, mediaVars, Alone, ReadIsFresh, VideoIsComplete, CleanupHasCause
<1>7. ASSUME NEW q \in Reqs, NEW label \in {"scan", "mark", "cancel"}, Arrives(q),
             Goto(q, label), status \notin {"complete", "cancelled"},
             UNCHANGED <<rowVars, storeVars, mediaVars>>
      PROVE  PatientInv'
  <2>1. \A p \in Reqs : pc[p] \in {"new", "done"}
    BY <1>7, ArrivesAlone
  <2>2. pc' = [pc EXCEPT ![q] = label] /\ UNCHANGED <<status, expired, videos, cleanup>>
    BY <1>7 DEF Goto, rowVars, storeVars, mediaVars
  <2> QED BY <1>1, <1>7, <2>1, <2>2 DEF Alone, ReadIsFresh, VideoIsComplete, CleanupHasCause
<1>8. ASSUME NEW q \in Reqs, ChunkRead(q) \/ CompleteRead(q) \/ CancelRead(q) PROVE PatientInv'
  BY <1>7, <1>8 DEF ChunkRead, CompleteRead, CancelRead
<1>9. ASSUME NEW q \in Reqs, NEW label, pc[q] \notin {"new", "done"}, Goto(q, label)
      PROVE  /\ Alone'
             /\ \A p \in Reqs \ {q} : pc'[p] \in {"new", "done"}
             /\ pc'[q] = label
  BY <1>1, <1>2, <1>9 DEF Goto, Alone
<1>10. ASSUME NEW q \in Reqs, Scan(q) PROVE PatientInv'
  <2>1. pc[q] = "scan" /\ status \notin {"complete", "cancelled"}
        /\ \E label \in {"put", "done"} : Goto(q, label)
    BY <1>10 DEF Scan, ReadIsFresh
  <2>2. Alone' /\ \A p \in Reqs : pc'[p] \in {"new", "done", "put"}
    <3>1. PICK label \in {"put", "done"} : Goto(q, label)
      BY <2>1
    <3>2. /\ Alone'
          /\ \A p \in Reqs \ {q} : pc'[p] \in {"new", "done"}
          /\ pc'[q] = label
      BY <1>9, <2>1, <3>1
    <3> QED BY <3>2
  <2> QED BY <1>10, <2>1, <2>2 DEF Scan, storeVars, mediaVars, ReadIsFresh, VideoIsComplete,
       CleanupHasCause
<1>11. ASSUME NEW q \in Reqs, PutChunk(q) PROVE PatientInv'
  <2>1. pc[q] = "put" /\ status \notin {"complete", "cancelled"}
        /\ \E label \in {"count", "done"} : Goto(q, label)
    BY <1>11 DEF PutChunk, Proceed, ReadIsFresh
  <2>2. Alone' /\ \A p \in Reqs : pc'[p] \in {"new", "done", "count"}
    <3>1. PICK label \in {"count", "done"} : Goto(q, label)
      BY <2>1
    <3>2. /\ Alone'
          /\ \A p \in Reqs \ {q} : pc'[p] \in {"new", "done"}
          /\ pc'[q] = label
      BY <1>9, <2>1, <3>1
    <3> QED BY <3>2
  <2> QED BY <1>11, <2>1, <2>2 DEF PutChunk, rowVars, mediaVars, ReadIsFresh, VideoIsComplete,
       CleanupHasCause
<1>12. ASSUME NEW q \in Reqs, CountChunk(q) PROVE PatientInv'
  <2>1. pc[q] = "count" /\ status \notin {"complete", "cancelled"} /\ Goto(q, "done")
    BY <1>12 DEF CountChunk, ReadIsFresh
  <2>2. Alone' /\ \A p \in Reqs : pc'[p] \in {"new", "done"}
    BY <1>9, <2>1
  <2> QED BY <1>12, <2>1, <2>2 DEF CountChunk, mediaVars, ReadIsFresh, VideoIsComplete,
       CleanupHasCause
<1>13. ASSUME NEW q \in Reqs, MarkComplete(q) PROVE PatientInv'
  <2>1. pc[q] = "mark" /\ status \notin {"complete", "cancelled"} /\ videos = 0
    BY <1>1, <1>13 DEF MarkComplete, ReadIsFresh, VideoIsComplete
  <2>2. PICK label \in {"video", "done"} :
          /\ Goto(q, label)
          /\ status' \in {status, "complete"}
          /\ label = "video" => status' = "complete"
    BY <1>13 DEF MarkComplete, Proceed, Executed
  <2>3. /\ Alone'
        /\ \A p \in Reqs : pc'[p] \in {"new", "done"} \/ (pc'[p] = "video" /\ status' = "complete")
    <3>1. /\ Alone'
          /\ \A p \in Reqs \ {q} : pc'[p] \in {"new", "done"}
          /\ pc'[q] = label
      BY <1>9, <2>1, <2>2
    <3>2. ASSUME NEW p \in Reqs
          PROVE  pc'[p] \in {"new", "done"} \/ (pc'[p] = "video" /\ status' = "complete")
      BY <2>2, <3>1
    <3> QED BY <3>1, <3>2
  <2> QED BY <1>13, <2>1, <2>2, <2>3 DEF MarkComplete, storeVars, mediaVars, ReadIsFresh,
       VideoIsComplete, CleanupHasCause
<1>14. ASSUME NEW q \in Reqs, InsertVideo(q) PROVE PatientInv'
  <2>1. pc[q] = "video" /\ status = "complete" /\ videos = 0 /\ videos' \in {0, 1}
        /\ \E label \in {"job", "done"} : Goto(q, label)
    BY <1>14 DEF InsertVideo, Proceed, ReadIsFresh
  <2>2. Alone' /\ \A p \in Reqs : pc'[p] \in {"new", "done", "job"}
    <3>1. PICK label \in {"job", "done"} : Goto(q, label)
      BY <2>1
    <3>2. /\ Alone'
          /\ \A p \in Reqs \ {q} : pc'[p] \in {"new", "done"}
          /\ pc'[q] = label
      BY <1>9, <2>1, <3>1
    <3> QED BY <3>2
  <2> QED BY <1>14, <2>1, <2>2 DEF InsertVideo, rowVars, storeVars, ReadIsFresh,
       VideoIsComplete, CleanupHasCause
<1>15. ASSUME NEW q \in Reqs, InsertJob(q) \/ EnqueueJob(q) PROVE PatientInv'
  <2>1. pc[q] \in {"job", "enqueue"} /\ status = "complete"
        /\ \E label \in {"enqueue", "done"} : Goto(q, label)
    BY <1>15 DEF InsertJob, EnqueueJob, Proceed, ReadIsFresh
  <2>2. Alone' /\ \A p \in Reqs : pc'[p] \in {"new", "done", "enqueue"}
    <3>1. PICK label \in {"enqueue", "done"} : Goto(q, label)
      BY <2>1
    <3>2. /\ Alone'
          /\ \A p \in Reqs \ {q} : pc'[p] \in {"new", "done"}
          /\ pc'[q] = label
      BY <1>9, <2>1, <3>1
    <3> QED BY <3>2
  <2> QED BY <1>15, <2>1, <2>2 DEF InsertJob, EnqueueJob, rowVars, storeVars, ReadIsFresh,
       VideoIsComplete, CleanupHasCause
<1>16. ASSUME NEW q \in Reqs, MarkCancelled(q) PROVE PatientInv'
  <2>1. pc[q] = "cancel" /\ status \notin {"complete", "cancelled"} /\ videos = 0
        /\ Goto(q, "done")
    BY <1>1, <1>16 DEF MarkCancelled, ReadIsFresh, VideoIsComplete
  <2>2. Alone' /\ \A p \in Reqs : pc'[p] \in {"new", "done"}
    BY <1>9, <2>1
  <2>3. \/ status' = "cancelled"
        \/ UNCHANGED <<status, cleanup>>
    BY <1>16 DEF MarkCancelled, Executed
  <2> QED BY <1>16, <2>1, <2>2, <2>3 DEF MarkCancelled, mediaVars, ReadIsFresh,
       VideoIsComplete, CleanupHasCause
<1>17. CASE UNCHANGED vars
  BY <1>3, <1>17 DEF vars, rowVars, storeVars, mediaVars
<1> QED
  BY <1>4, <1>5, <1>6, <1>8, <1>10, <1>11, <1>12, <1>13, <1>14, <1>15, <1>16, <1>17 DEF Next

(* A client that waits for each answer gets at most one video from a       *)
(* session, whichever of its requests fails after taking effect, and while *)
(* the session has not expired nothing deletes the raw object of that      *)
(* video (CompleteUpload, CancelUpload, expireSessions).                   *)
THEOREM PatientUploadHolds == Spec => []PatientUpload
<1>1. TypeInv /\ PatientInv => PatientUpload
  BY DEF TypeInv, RowsCounted, PatientInv, VideoIsComplete, CleanupHasCause, PatientUpload,
     OneVideoIfPatient, VideoKeepsRaw
<1> QED BY <1>1, TypeInvInit, TypeInvNext, PatientInvInit, PatientInvNext, PTL DEF Spec

LEMMA EndedStep ==
  ASSUME TypeInv, PatientInv, Next, width = 1, status \in {"complete", "cancelled"}
  PROVE  status' = status
<1>1. CASE CreateSession \/ ClientPut \/ Expire \/ DeleteRaw \/ ExpireSessions
  BY <1>1 DEF CreateSession, ClientPut, Expire, DeleteRaw, ExpireSessions, rowVars
<1>2. ASSUME NEW q \in Reqs,
             \/ ChunkRead(q) \/ CompleteRead(q) \/ CancelRead(q) \/ PutChunk(q)
             \/ InsertVideo(q) \/ InsertJob(q) \/ EnqueueJob(q)
      PROVE  status' = status
  BY <1>2 DEF ChunkRead, CompleteRead, CancelRead, PutChunk, InsertVideo, InsertJob,
     EnqueueJob, rowVars
<1>3. ASSUME NEW q \in Reqs,
             Scan(q) \/ CountChunk(q) \/ MarkComplete(q) \/ MarkCancelled(q)
      PROVE  FALSE
  BY <1>3 DEF Scan, CountChunk, MarkComplete, MarkCancelled, PatientInv, ReadIsFresh
<1> QED BY <1>1, <1>2, <1>3 DEF Next

(* For such a client a completed or cancelled session stays so, although   *)
(* no UPDATE of the row has a condition on its status.                     *)
THEOREM EndedIsFinalHolds == Spec => EndedIsFinal
<1>1. TypeInv /\ PatientInv /\ [Next]_vars =>
        [(width = 1 /\ status \in {"complete", "cancelled"}) => status' = status]_vars
  BY EndedStep
<1> QED
  BY <1>1, TypeInvInit, TypeInvNext, PatientInvInit, PatientInvNext, PTL DEF Spec, EndedIsFinal

------------------------------------------------------------------------------
(* The accounting of received_bytes sums over the requests about to count  *)
(* their chunk. Such a sum is the number of the bytes themselves, so what  *)
(* a step does to it is what the step does to a set.                       *)

(* Induction over the subsets of a finite set, for a set of them.          *)
LEMMA SetInduction ==
  ASSUME NEW S, IsFiniteSet(S), NEW A \in SUBSET SUBSET S,
         \A T \in SUBSET S : (\A x \in T : T \ {x} \in A) => T \in A
  PROVE  A = SUBSET S
<1> DEFINE B == (SUBSET S) \ A
<1>1. IsWellFoundedOn(StrictSubsetOrdering(S), SUBSET S)
  BY FS_StrictSubsetOrderingWellFounded, FS_FiniteSubsetsOfFinite
<1>2. SUFFICES ASSUME B # {} PROVE FALSE
  OBVIOUS
<1>3. B \subseteq SUBSET S
  OBVIOUS
<1> HIDE DEF B
<1>4. PICK T \in B : \A U \in B : ~ (<<U, T>> \in StrictSubsetOrdering(S))
  BY <1>1, <1>2, <1>3, WFMin
<1>5. ASSUME NEW x \in T PROVE T \ {x} \in A
  <2>1. T \ {x} \in SUBSET S /\ T \in SUBSET S /\ T \ {x} # T /\ T \ {x} \subseteq T
    BY <1>3
  <2>2. <<T \ {x}, T>> \in StrictSubsetOrdering(S)
    BY <2>1 DEF StrictSubsetOrdering
  <2> QED BY <1>4, <2>1, <2>2 DEF B
<1>6. T \in SUBSET S /\ T \notin A
  BY <1>4 DEF B
<1>7. T \in A
  BY <1>5, <1>6
<1> QED BY <1>6, <1>7

(* The bytes of the requests in S, if w gives their numbers.               *)
Bytes(w, S) == {p \in S \X (1 .. ByteSize) : p[2] <= w[p[1]]}

LEMMA BytesFinite ==
  ASSUME NEW w, NEW S \in SUBSET Reqs
  PROVE  IsFiniteSet(Bytes(w, S)) /\ Cardinality(Bytes(w, S)) \in Nat
<1>1. IsFiniteSet(S) /\ IsFiniteSet(1 .. ByteSize)
  BY UploadAssumption, FS_Subset, FS_Interval
<1>2. IsFiniteSet(S \X (1 .. ByteSize))
  BY <1>1, FS_Product
<1>3. Bytes(w, S) \subseteq S \X (1 .. ByteSize)
  BY DEF Bytes
<1> QED BY <1>2, <1>3, FS_Subset, FS_CardinalityType

(* A request has as many bytes as w says.                                  *)
LEMMA BytesAdd ==
  ASSUME NEW w \in [Reqs -> 0 .. ByteSize], NEW S \in SUBSET Reqs, NEW x \in S
  PROVE  Cardinality(Bytes(w, S)) = w[x] + Cardinality(Bytes(w, S \ {x}))
<1> DEFINE own == {x} \X (1 .. w[x])
<1>1. w[x] \in Nat /\ w[x] <= ByteSize /\ ByteSize \in Nat
  BY UploadAssumption
<1>2. IsFiniteSet({x}) /\ Cardinality({x}) = 1
  BY FS_Singleton
<1>3. IsFiniteSet(1 .. w[x]) /\ Cardinality(1 .. w[x]) = w[x]
  <2>1. ASSUME NEW n \in Nat PROVE IsFiniteSet(1 .. n) /\ Cardinality(1 .. n) = n
    <3>1. IsFiniteSet(1 .. n) /\ Cardinality(1 .. n) = IF 1 > n THEN 0 ELSE n - 1 + 1
      BY FS_Interval
    <3> QED BY <3>1
  <2> QED BY <1>1, <2>1
<1>4. IsFiniteSet(own) /\ Cardinality(own) = w[x]
  <2>1. IsFiniteSet(own) /\ Cardinality(own) = Cardinality({x}) * Cardinality(1 .. w[x])
    BY <1>2, <1>3, FS_Product
  <2> QED BY <1>1, <1>2, <1>3, <2>1
<1>5. Bytes(w, S) = own \cup Bytes(w, S \ {x})
  BY <1>1 DEF Bytes
<1>6. own \cap Bytes(w, S \ {x}) = {}
  BY DEF Bytes
<1>7. IsFiniteSet(Bytes(w, S \ {x})) /\ Cardinality(Bytes(w, S \ {x})) \in Nat
  BY BytesFinite
<1> HIDE DEF own
<1>8. Cardinality(own \cup Bytes(w, S \ {x}))
        = Cardinality(own) + Cardinality(Bytes(w, S \ {x})) - Cardinality({})
  <2>1. Cardinality(own \cup Bytes(w, S \ {x}))
          = Cardinality(own) + Cardinality(Bytes(w, S \ {x}))
            - Cardinality(own \cap Bytes(w, S \ {x}))
    BY <1>4, <1>7, FS_Union
  <2> QED BY <1>6, <2>1
<1>9. Cardinality({}) = 0
  BY FS_EmptySet
<1> QED BY <1>1, <1>4, <1>5, <1>7, <1>8, <1>9

(* The fold that computes the sum counts the bytes: the equation of the    *)
(* fold has one solution, and counting is one.                             *)
LEMMA SumIsBytes ==
  ASSUME NEW w \in [Reqs -> 0 .. ByteSize], NEW S \in SUBSET Reqs
  PROVE  SumFunctionOnSet(w, S) = Cardinality(Bytes(w, S))
<1> DEFINE Pick(T) == CHOOSE x \in T : TRUE
           Step(g) == [T \in SUBSET S |-> IF T = {} THEN 0 ELSE w[Pick(T)] + g[T \ {Pick(T)}]]
           F == [T \in SUBSET S |-> Cardinality(Bytes(w, T))]
           iter == CHOOSE g : g = Step(g)
<1>1. F = Step(F)
  <2>1. ASSUME NEW T \in SUBSET S, T = {} PROVE F[T] = 0
    <3>1. Bytes(w, {}) = {}
      BY DEF Bytes
    <3> QED BY <2>1, <3>1, FS_EmptySet
  <2>2. ASSUME NEW T \in SUBSET S, T # {} PROVE F[T] = w[Pick(T)] + F[T \ {Pick(T)}]
    <3>1. Pick(T) \in T
      BY <2>2
    <3>2. T \in SUBSET Reqs /\ T \ {Pick(T)} \in SUBSET S
      OBVIOUS
    <3> HIDE DEF Pick
    <3> QED BY <3>1, <3>2, BytesAdd
  <2> HIDE DEF Pick
  <2> QED BY <2>1, <2>2
<1>2. iter = Step(iter)
  <2> HIDE DEF F
  <2> QED BY <1>1
<1>3. SumFunctionOnSet(w, S) = iter[S]
  BY DEF SumFunctionOnSet, FoldFunctionOnSet, MapThenFoldSet
<1> DEFINE A == {T \in SUBSET S : iter[T] = F[T]}
<1>4. ASSUME NEW T \in SUBSET S, \A x \in T : T \ {x} \in A PROVE T \in A
  <2>1. CASE T = {}
    BY <1>1, <1>2, <2>1
  <2>2. CASE T # {}
    <3>1. Pick(T) \in T
      BY <2>2
    <3>2. iter[T \ {Pick(T)}] = F[T \ {Pick(T)}]
      BY <1>4, <3>1
    <3>3. /\ iter[T] = w[Pick(T)] + iter[T \ {Pick(T)}]
          /\ F[T] = w[Pick(T)] + F[T \ {Pick(T)}]
      BY <1>1, <1>2, <2>2 
    <3> QED BY <3>2, <3>3
  <2> QED BY <2>1, <2>2
<1>5. A = SUBSET S
  <2>1. IsFiniteSet(S) /\ A \in SUBSET SUBSET S
    BY UploadAssumption, FS_Subset
  <2> HIDE DEF A
  <2> QED BY <1>4, <2>1, SetInduction
<1>6. S \in A
  BY <1>5
<1> QED BY <1>3, <1>6

Owed == Cardinality(Bytes(size, Uncounted))

Accounted == received + missed + Owed = stored

LEMMA OwedIsSum ==
  ASSUME TypeInv
  PROVE  Owed \in Nat /\ SumFunctionOnSet(size, Uncounted) = Owed
<1>1. size \in [Reqs -> 0 .. ByteSize] /\ Uncounted \in SUBSET Reqs
  BY DEF TypeInv, RowTypeOK, Uncounted
<1> QED BY <1>1, SumIsBytes, BytesFinite DEF Owed

(* A step by which no request comes to count, or leaves without counting.  *)
LEMMA OwedSame ==
  ASSUME TypeInv, TypeInv', Uncounted' = Uncounted,
         \A q \in Uncounted : size'[q] = size[q]
  PROVE  Owed' = Owed
<1>1. Bytes(size', Uncounted) = Bytes(size, Uncounted)
  BY DEF Bytes
<1> QED BY <1>1 DEF Owed

(* A chunk was stored, or its request is over.                             *)
LEMMA OwedMoves ==
  ASSUME TypeInv, TypeInv', size' = size, NEW q \in Reqs
  PROVE  /\ Owed' \in Nat
         /\ q \notin Uncounted /\ Uncounted' = Uncounted \cup {q} => Owed' = Owed + size[q]
         /\ q \in Uncounted /\ Uncounted' = Uncounted \ {q} => Owed = Owed' + size[q]
<1>1. size \in [Reqs -> 0 .. ByteSize] /\ Uncounted \in SUBSET Reqs /\ Uncounted' \in SUBSET Reqs
  BY DEF TypeInv, RowTypeOK, Uncounted
<1>2. /\ Owed \in Nat /\ Owed' \in Nat /\ size[q] \in Nat
      /\ Owed' = Cardinality(Bytes(size, Uncounted'))
  BY <1>1, OwedIsSum, BytesFinite, UploadAssumption DEF Owed
<1>3. ASSUME q \notin Uncounted, Uncounted' = Uncounted \cup {q} PROVE Owed' = Owed + size[q]
  <2>1. q \in Uncounted' /\ Uncounted' \ {q} = Uncounted
    BY <1>3
  <2>2. Cardinality(Bytes(size, Uncounted')) = size[q] + Cardinality(Bytes(size, Uncounted' \ {q}))
    BY <1>1, <2>1, BytesAdd
  <2> QED BY <1>2, <2>1, <2>2 DEF Owed
<1>4. ASSUME q \in Uncounted, Uncounted' = Uncounted \ {q} PROVE Owed = Owed' + size[q]
  <2>1. Cardinality(Bytes(size, Uncounted)) = size[q] + Cardinality(Bytes(size, Uncounted \ {q}))
    BY <1>1, <1>4, BytesAdd
  <2> QED BY <1>2, <1>4, <2>1 DEF Owed
<1> QED BY <1>2, <1>3, <1>4

LEMMA AccountedInit == Init => Accounted
<1> SUFFICES ASSUME Init PROVE Accounted
  OBVIOUS
<1>1. Bytes(size, Uncounted) = {}
  BY DEF Init, Uncounted, Bytes
<1> QED BY <1>1, FS_EmptySet DEF Init, Accounted, Owed

LEMMA AccountedNext == TypeInv /\ TypeInv' /\ Accounted /\ [Next]_vars => Accounted'
<1> SUFFICES ASSUME TypeInv, TypeInv', Accounted, [Next]_vars PROVE Accounted'
  OBVIOUS
<1>1. /\ pc \in [Reqs -> {"new", "scan", "put", "count", "mark", "video", "job", "enqueue",
                          "cancel", "done"}]
      /\ size \in [Reqs -> 0 .. ByteSize]
      /\ received \in Nat /\ missed \in Nat /\ stored \in Nat /\ Owed \in Nat
  BY OwedIsSum DEF TypeInv, RowTypeOK
<1>2. ASSUME UNCHANGED <<received, missed, stored>>, Uncounted' = Uncounted,
             \A r \in Uncounted : size'[r] = size[r]
      PROVE  Accounted'
  BY <1>2, OwedSame DEF Accounted
<1>3. CASE CreateSession \/ ClientPut \/ Expire \/ DeleteRaw \/ ExpireSessions \/ UNCHANGED vars
  <2>1. UNCHANGED <<received, missed, stored, size, pc>>
    BY <1>3 DEF CreateSession, ClientPut, Expire, DeleteRaw, ExpireSessions, vars, rowVars,
       storeVars, chunkVars
  <2> QED BY <1>2, <2>1 DEF Uncounted
<1>4. ASSUME NEW q \in Reqs, ChunkRead(q) PROVE Accounted'
  <2>1. /\ UNCHANGED <<received, missed, stored>> /\ pc[q] = "new"
        /\ pc' = [pc EXCEPT ![q] = "scan"] /\ \E n : size' = [size EXCEPT ![q] = n]
    BY <1>4 DEF ChunkRead, Arrives, Goto, rowVars, storeVars, chunkVars
  <2> QED BY <1>1, <1>2, <2>1 DEF Uncounted
<1>5. ASSUME NEW q \in Reqs, NEW label, pc[q] # "count", label # "count", Goto(q, label),
             UNCHANGED <<received, missed, stored, size>>
      PROVE  Accounted'
  BY <1>1, <1>2, <1>5 DEF Goto, Uncounted
<1>6. ASSUME NEW q \in Reqs,
             Scan(q) \/ CompleteRead(q) \/ CancelRead(q) \/ MarkCancelled(q) \/ EnqueueJob(q)
      PROVE  Accounted'
  BY <1>5, <1>6 DEF Scan, CompleteRead, CancelRead, MarkCancelled, EnqueueJob, Arrives,
     rowVars, storeVars, chunkVars
<1>7. ASSUME NEW q \in Reqs, MarkComplete(q) \/ InsertVideo(q) \/ InsertJob(q)
      PROVE  Accounted'
  BY <1>5, <1>7 DEF MarkComplete, InsertVideo, InsertJob, Proceed, rowVars, storeVars, chunkVars
<1>8. ASSUME NEW q \in Reqs, PutChunk(q) PROVE Accounted'
  <2>1. pc[q] = "put" /\ q \notin Uncounted /\ size[q] \in Nat
    BY <1>1, <1>8, UploadAssumption DEF PutChunk, Uncounted
  <2>2. CASE /\ stored' = stored + size[q] /\ Goto(q, "count")
             /\ UNCHANGED <<received, missed, size>>
    <3>1. Uncounted' = Uncounted \cup {q}
      BY <1>1, <2>2 DEF Goto, Uncounted
    <3>2. Owed' = Owed + size[q]
      BY <2>1, <2>2, <3>1, OwedMoves
    <3> QED BY <1>1, <2>1, <2>2, <3>2 DEF Accounted
  <2>3. CASE /\ stored' = stored + size[q] /\ missed' = missed + size[q] /\ Goto(q, "done")
             /\ UNCHANGED <<received, size>>
    <3>1. Uncounted' = Uncounted
      BY <1>1, <2>1, <2>3 DEF Goto, Uncounted
    <3>2. Owed' = Owed
      BY <2>3, <3>1, OwedSame
    <3> QED BY <1>1, <2>1, <2>3, <3>2 DEF Accounted
  <2>4. CASE Goto(q, "done") /\ UNCHANGED <<received, missed, stored, size>>
    BY <1>5, <2>1, <2>4
  <2> QED BY <1>8, <2>2, <2>3, <2>4 DEF PutChunk, Outcomes, Executed, Proceed, rowVars
<1>9. ASSUME NEW q \in Reqs, CountChunk(q) PROVE Accounted'
  <2>1. /\ q \in Uncounted /\ size[q] \in Nat /\ Goto(q, "done") /\ UNCHANGED <<stored, size>>
        /\ \/ received' = received + size[q] /\ missed' = missed
           \/ missed' = missed + size[q] /\ received' = received
    BY <1>1, <1>9, UploadAssumption DEF CountChunk, Uncounted
  <2>2. Uncounted' = Uncounted \ {q}
    BY <1>1, <2>1 DEF Goto, Uncounted
  <2>3. Owed = Owed' + size[q] /\ Owed' \in Nat
    BY <2>1, <2>2, OwedMoves
  <2> QED BY <1>1, <2>1, <2>3 DEF Accounted
<1> QED BY <1>3, <1>4, <1>6, <1>7, <1>8, <1>9 DEF Next

(* However the chunk requests of a session overlap and whichever of their  *)
(* calls fail, received_bytes and the bytes in the store differ by exactly *)
(* the chunks of the requests about to count and of those that failed to   *)
(* (UploadChunk): no chunk is counted twice, early or not at all. No chunk *)
(* is longer than byte_size.                                               *)
THEOREM SessionInvHolds == Spec => []SessionInv
<1>1. TypeInv /\ Accounted => SessionInv
  BY TypeInvImplies, OwedIsSum DEF SessionInv, ReceivedIsStored, Accounted
<1> QED BY <1>1, TypeInvInit, TypeInvNext, AccountedInit, AccountedNext, PTL DEF Spec
================================================================================
