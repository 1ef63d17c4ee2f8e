----------------------------- MODULE LiveStream -----------------------------
(***************************************************************************)
(* The live streams of one owner (live/service.go, live/repository.go,     *)
(* handlers/live.go) and the DVR cleaner (live/dvr.go). A stream's row is  *)
(* created by a request of its owner, driven by the hooks MediaMTX calls   *)
(* when an encoder connects or leaves, and read by the cleaner; every      *)
(* statement is a step of its own and none looks at the status it          *)
(* overwrites. Streams names the Create requests and the rows they insert, *)
(* Hooks the hook calls.                                                   *)
(*                                                                         *)
(* At most MaxFaults times a statement fails ("err": not executed, "lost": *)
(* executed, error returned), a file removal fails or the API process dies *)
(* and is started again. Update changes title and description only, the    *)
(* auth hook accepts every call and the other handlers read.               *)
(***************************************************************************)
EXTENDS Naturals, FiniteSets

CONSTANTS Streams,    \* Create requests of the owner
          Hooks,      \* hook calls
          MaxFaults   \* bound: failures

ASSUME LiveAssumption == MaxFaults \in Nat /\ IsFiniteSet(Hooks)

VARIABLES
  status,    \* live_streams.status, "none" before the INSERT, "deleted" after the DELETE
  urls,      \* rows whose URLs are set
  dvr,       \* rows with dvr_enabled
  endedAt,   \* ended_at: how often it was written
  due,       \* <<stream, n>>: the DVR window after the n-th ended_at is over
  cleaned,   \* rows with dvr_cleaned_at
  creating,  \* the next statement of a Create request
  keyed,     \* streams whose key the owner was told
  onAir,     \* streams an encoder is publishing
  segments,  \* streams with segments on disk
  hook,      \* the next statement of a hook call
  of,        \* the stream of a hook call
  ends,      \* hook calls that are on-unpublish
  todo,      \* <<stream, n>> of the rows the running sweep has still to look at
  marking,   \* the stream whose segments the sweep has removed, as a set
  faults,    \* failures so far
  crowded,   \* history: two Create requests were open at once
  raced      \* history: streams with two hook calls open at once

rowVars   == <<status, urls, dvr, endedAt, due, cleaned>>
createVars == <<creating, keyed>>
mediaVars == <<onAir, segments>>
hookVars  == <<hook, of, ends>>
sweepVars == <<todo, marking>>
vars == <<rowVars, createVars, mediaVars, hookVars, sweepVars, faults, crowded, raced>>

TypeOK ==
  /\ status \in [Streams -> {"none", "idle", "live", "ending", "ended", "deleted"}]
  /\ UNION {urls, dvr, cleaned, keyed, onAir, segments, marking, raced} \subseteq Streams
  /\ endedAt \in [Streams -> 0 .. Cardinality(Hooks)]
  /\ due \cup todo \subseteq Streams \X (1 .. Cardinality(Hooks))
  /\ \A p \in due \cup todo : p[2] <= endedAt[p[1]]
  /\ creating \in [Streams -> {"new", "insert", "urls", "over"}]
  /\ hook \in [Hooks -> {"new", "read", "live", "ending", "ended", "over"}]
  /\ of \in [Hooks -> Streams]
  /\ ends \subseteq Hooks
  /\ faults \in 0 .. MaxFaults
  /\ crowded \in BOOLEAN

Init ==
  /\ status = [s \in Streams |-> "none"]
  /\ urls = {}
  /\ dvr \in SUBSET Streams
  /\ endedAt = [s \in Streams |-> 0]
  /\ due = {}
  /\ cleaned = {}
  /\ creating = [s \in Streams |-> "new"]
  /\ keyed = {}
  /\ onAir = {}
  /\ segments = {}
  /\ hook = [h \in Hooks |-> "new"]
  /\ of \in [Hooks -> Streams]
  /\ ends = {}
  /\ todo = {}
  /\ marking = {}
  /\ faults = 0
  /\ crowded = FALSE
  /\ raced = {}

------------------------------------------------------------------------------
Outcomes == {"ok"} \cup (IF faults < MaxFaults THEN {"err", "lost"} ELSE {})
Executed(o) == o \in {"ok", "lost"}
Count(o) == faults' = IF o = "ok" THEN faults ELSE faults + 1

Exists(s) == status[s] \notin {"none", "deleted"}
Open(h) == hook[h] \notin {"new", "over"}
HooksOf(s) == {h \in Hooks : Open(h) /\ of[h] = s}

(* UpdateStatus, an UPDATE by id that finds no row once it is deleted.     *)
SetStatus(s, o, new) ==
  status' = IF Executed(o) /\ Exists(s) THEN [status EXCEPT ![s] = new] ELSE status

------------------------------------------------------------------------------
(* Seeded bug: only streams on air count as active.                        *)
CreateReadLive(s) ==
  /\ creating[s] = "new"
  /\ \A t \in Streams : status[t] # "live"
  /\ creating' = [creating EXCEPT ![s] = "insert"]
  /\ crowded' = (crowded \/ \E t \in Streams : creating[t] \in {"insert", "urls"})
  /\ UNCHANGED <<rowVars, keyed, mediaVars, hookVars, sweepVars, faults, raced>>

(* Create asks for an active stream of the owner; one without URLs cannot  *)
(* be scanned and ends the request as well.                                *)
CreateRead(s) ==
  /\ creating[s] = "new"
  /\ \A t \in Streams : status[t] \notin {"idle", "live"}
  /\ creating' = [creating EXCEPT ![s] = "insert"]
  /\ crowded' = (crowded \/ \E t \in Streams : creating[t] \in {"insert", "urls"})
  /\ UNCHANGED <<rowVars, keyed, mediaVars, hookVars, sweepVars, faults, raced>>

CreateInsert(s) ==
  /\ creating[s] = "insert"
  /\ \E o \in Outcomes :
       /\ status' = IF Executed(o) THEN [status EXCEPT ![s] = "idle"] ELSE status
       /\ creating' = [creating EXCEPT ![s] = IF o = "ok" THEN "urls" ELSE "over"]
       /\ Count(o)
  /\ UNCHANGED <<urls, dvr, endedAt, due, cleaned, keyed, mediaVars, hookVars, sweepVars,
                 crowded, raced>>

(* Seeded bug: a failed UPDATE of the URLs is answered with the key.       *)
CreateURLsAnyway(s) ==
  /\ creating[s] = "urls"
  /\ \E o \in Outcomes :
       /\ urls' = IF Executed(o) /\ Exists(s) THEN urls \cup {s} ELSE urls
       /\ keyed' = keyed \cup {s}
       /\ Count(o)
  /\ creating' = [creating EXCEPT ![s] = "over"]
  /\ UNCHANGED <<status, dvr, endedAt, due, cleaned, mediaVars, hookVars, sweepVars,
                 crowded, raced>>

(* SetStreamURLs, whose error is only logged, and the read that follows.   *)
(* It fails on a row without URLs and finds none if it was deleted, and    *)
(* the handler panics on the missing stream before it shows the key.       *)
CreateURLs(s) ==
  /\ creating[s] = "urls"
  /\ \E o \in Outcomes :
       /\ urls' = IF Executed(o) /\ Exists(s) THEN urls \cup {s} ELSE urls
       /\ keyed' = IF s \in urls' THEN keyed \cup {s} ELSE keyed
       /\ Count(o)
  /\ creating' = [creating EXCEPT ![s] = "over"]
  /\ UNCHANGED <<status, dvr, endedAt, due, cleaned, mediaVars, hookVars, sweepVars,
                 crowded, raced>>

(* DELETE by the owner, whatever the status; segments are left alone.      *)
Delete(s) ==
  /\ Exists(s)
  /\ status' = [status EXCEPT ![s] = "deleted"]
  /\ UNCHANGED <<urls, dvr, endedAt, due, cleaned, createVars, mediaVars, hookVars,
                 sweepVars, faults, crowded, raced>>

------------------------------------------------------------------------------
(* An encoder connects with the key, or leaves: MediaMTX writes segments   *)
(* while it is connected and calls the hook, and the one for publishers    *)
(* again and again (runOnPublishRestart) while the encoder is there.       *)
CallHook(h, s) ==
  /\ hook[h] = "new"
  /\ of[h] = s
  /\ hook' = [hook EXCEPT ![h] = "read"]
  /\ raced' = IF HooksOf(s) = {} THEN raced ELSE raced \cup {s}

EncoderConnects(h, s) ==
  /\ s \in keyed \ onAir
  /\ onAir' = onAir \cup {s}
  /\ segments' = segments \cup {s}
  /\ CallHook(h, s)
  /\ UNCHANGED <<rowVars, createVars, of, ends, sweepVars, faults, crowded>>

HookRepeats(h, s) ==
  /\ s \in onAir
  /\ CallHook(h, s)
  /\ UNCHANGED <<rowVars, createVars, mediaVars, of, ends, sweepVars, faults, crowded>>

EncoderLeaves(h, s) ==
  /\ s \in onAir
  /\ onAir' = onAir \ {s}
  /\ ends' = ends \cup {h}
  /\ CallHook(h, s)
  /\ UNCHANGED <<rowVars, createVars, segments, of, sweepVars, faults, crowded>>

(* The lookup by key: a row without URLs cannot be scanned.                *)
Found(s) == Exists(s) /\ s \in urls

(* Seeded bug: a stream that ended is started again.                       *)
DetectStartReadEnded(h) ==
  /\ hook[h] = "read"
  /\ h \notin ends
  /\ hook' = [hook EXCEPT ![h] = IF Found(of[h]) /\ status[of[h]] \in {"idle", "ended"}
                                 THEN "live" ELSE "over"]
  /\ UNCHANGED <<rowVars, createVars, mediaVars, of, ends, sweepVars, faults, crowded, raced>>

(* DetectStart: a stream that is live is left alone, only an idle one      *)
(* goes live.                                                              *)
DetectStartRead(h) ==
  /\ hook[h] = "read"
  /\ h \notin ends
  /\ hook' = [hook EXCEPT ![h] = IF Found(of[h]) /\ status[of[h]] = "idle"
                                 THEN "live" ELSE "over"]
  /\ UNCHANGED <<rowVars, createVars, mediaVars, of, ends, sweepVars, faults, crowded, raced>>

DetectStart(h) ==
  /\ hook[h] = "live"
  /\ \E o \in Outcomes : SetStatus(of[h], o, "live") /\ Count(o)
  /\ hook' = [hook EXCEPT ![h] = "over"]
  /\ UNCHANGED <<urls, dvr, endedAt, due, cleaned, createVars, mediaVars, of, ends,
                 sweepVars, crowded, raced>>

(* Seeded bug: only a stream that never went live is ended.                *)
DetectEndReadIdle(h) ==
  /\ hook[h] = "read"
  /\ h \in ends
  /\ hook' = [hook EXCEPT ![h] = IF Found(of[h]) /\ status[of[h]] = "idle"
                                 THEN "ending" ELSE "over"]
  /\ UNCHANGED <<rowVars, createVars, mediaVars, of, ends, sweepVars, faults, crowded, raced>>

(* DetectEnd: nothing to do if the stream is ending or ended.              *)
DetectEndRead(h) ==
  /\ hook[h] = "read"
  /\ h \in ends
  /\ hook' = [hook EXCEPT ![h] = IF Found(of[h]) /\ status[of[h]] \in {"idle", "live"}
                                 THEN "ending" ELSE "over"]
  /\ UNCHANGED <<rowVars, createVars, mediaVars, of, ends, sweepVars, faults, crowded, raced>>

DetectEnding(h) ==
  /\ hook[h] = "ending"
  /\ \E o \in Outcomes :
       /\ SetStatus(of[h], o, "ending")
       /\ hook' = [hook EXCEPT ![h] = IF o = "ok" THEN "ended" ELSE "over"]
       /\ Count(o)
  /\ UNCHANGED <<urls, dvr, endedAt, due, cleaned, createVars, mediaVars, of, ends,
                 sweepVars, crowded, raced>>

DetectEnded(h) ==
  /\ hook[h] = "ended"
  /\ \E o \in Outcomes :
       /\ SetStatus(of[h], o, "ended")
       /\ endedAt' = IF Executed(o) /\ Exists(of[h])
                     THEN [endedAt EXCEPT ![of[h]] = @ + 1] ELSE endedAt
       /\ Count(o)
  /\ hook' = [hook EXCEPT ![h] = "over"]
  /\ UNCHANGED <<urls, dvr, due, cleaned, createVars, mediaVars, of, ends, sweepVars,
                 crowded, raced>>

------------------------------------------------------------------------------
(* dvr_window_seconds pass after an ended_at.                              *)
WindowPasses(s) ==
  /\ \E n \in 1 .. endedAt[s] :
       /\ <<s, n>> \notin due
       /\ due' = due \cup {<<s, n>>}
  /\ UNCHANGED <<status, urls, dvr, endedAt, cleaned, createVars, mediaVars, hookVars,
                 sweepVars, faults, crowded, raced>>

(* Seeded bug: streams that are ending, without an ended_at, are listed.   *)
SweepListEnding ==
  /\ todo = {}
  /\ marking = {}
  /\ todo' = {<<s, endedAt[s]>> : s \in {t \in dvr \ cleaned : status[t] \in {"ending", "ended"}}}
  /\ todo' # {}
  /\ UNCHANGED <<rowVars, createVars, mediaVars, hookVars, marking, faults, crowded, raced>>

(* sweep: ListEndedWithDVR.                                                *)
SweepList ==
  /\ todo = {}
  /\ marking = {}
  /\ todo' = {<<s, endedAt[s]>> : s \in {t \in dvr \ cleaned : status[t] = "ended"}}
  /\ todo' # {}
  /\ UNCHANGED <<rowVars, createVars, mediaVars, hookVars, marking, faults, crowded, raced>>

SweepSkip(p) ==
  /\ marking = {}
  /\ p \in todo \ due
  /\ todo' = todo \ {p}
  /\ UNCHANGED <<rowVars, createVars, mediaVars, hookVars, marking, faults, crowded, raced>>

(* Seeded bug: the retention is not awaited.                               *)
SweepRemoveEarly(p) ==
  /\ marking = {}
  /\ p \in todo
  /\ todo' = todo \ {p}
  /\ marking' = {p[1]}
  /\ \E o \in Outcomes \ {"lost"} :
       /\ segments' = IF o = "ok" THEN segments \ {p[1]} ELSE segments
       /\ Count(o)
  /\ UNCHANGED <<rowVars, createVars, onAir, hookVars, crowded, raced>>

(* Retention over: RemoveAll, whose error is logged.                       *)
SweepRemove(p) ==
  /\ marking = {}
  /\ p \in todo \cap due
  /\ todo' = todo \ {p}
  /\ marking' = {p[1]}
  /\ \E o \in Outcomes \ {"lost"} :
       /\ segments' = IF o = "ok" THEN segments \ {p[1]} ELSE segments
       /\ Count(o)
  /\ UNCHANGED <<rowVars, createVars, onAir, hookVars, crowded, raced>>

(* Seeded bug: the row is not stamped.                                     *)
SweepMarkNot ==
  /\ marking # {}
  /\ marking' = {}
  /\ UNCHANGED <<rowVars, createVars, mediaVars, hookVars, todo, faults, crowded, raced>>

(* MarkDVRCleaned, whether or not the directory could be removed.          *)
SweepMark ==
  /\ marking # {}
  /\ \E o \in Outcomes :
       /\ cleaned' = IF Executed(o) THEN cleaned \cup {s \in marking : Exists(s)} ELSE cleaned
       /\ Count(o)
  /\ marking' = {}
  /\ UNCHANGED <<status, urls, dvr, endedAt, due, createVars, mediaVars, hookVars, todo,
                 crowded, raced>>

(* The API process dies and is started again: requests and sweep are gone. *)
Restart ==
  /\ faults < MaxFaults
  /\ faults' = faults + 1
  /\ creating' = [s \in Streams |-> IF creating[s] = "new" THEN "new" ELSE "over"]
  /\ hook' = [h \in Hooks |-> IF Open(h) THEN "over" ELSE hook[h]]
  /\ todo' = {}
  /\ marking' = {}
  /\ UNCHANGED <<rowVars, keyed, mediaVars, of, ends, crowded, raced>>

------------------------------------------------------------------------------
CreateStream(s) == CreateInsert(s) \/ CreateURLs(s)
HookOnPublish(h) == DetectStartRead(h) \/ DetectStart(h)
HookOnUnpublish(h) == DetectEndRead(h) \/ DetectEnding(h) \/ DetectEnded(h)
Handle(h) == HookOnPublish(h) \/ HookOnUnpublish(h)
Sweep == \/ SweepList \/ SweepMark
         \/ \E p \in todo : SweepSkip(p) \/ SweepRemove(p)

Next ==
  \/ \E s \in Streams : \/ CreateRead(s) \/ CreateStream(s) \/ Delete(s) \/ WindowPasses(s)
                        \/ \E h \in Hooks : \/ EncoderConnects(h, s) \/ HookRepeats(h, s)
                                             \/ EncoderLeaves(h, s)
  \/ \E h \in Hooks : Handle(h)
  \/ Sweep
  \/ Restart

Spec == Init /\ [][Next]_vars

(* The HTTP server runs every handler, the ticker fires, time passes.      *)
Fairness ==
  /\ \A s \in Streams : WF_vars(CreateStream(s)) /\ WF_vars(WindowPasses(s))
  /\ \A h \in Hooks : WF_vars(Handle(h))
  /\ WF_vars(Sweep)

FairSpec == Spec /\ Fairness

------------------------------------------------------------------------------
(* Properties.                                                             *)

(* An owner has one active stream, as Create's check intends, unless two   *)
(* Create requests overlapped (the check and the INSERT are two            *)
(* statements) or overlapping hooks brought an ended stream back.          *)
OneActivePerOwner ==
  crowded \/ Cardinality({s \in Streams \ raced : status[s] \in {"idle", "live"}}) <= 1

(* A key is shown only for a stream that the hooks can look up, although   *)
(* the error of SetStreamURLs is only logged: an encoder never publishes   *)
(* a stream that stays idle because its row cannot be scanned, and no row  *)
(* without URLs gets into the list of the cleaner, whose scan would fail.  *)
KeyedIsFound ==
  /\ keyed \subseteq urls
  /\ \A s \in Streams : status[s] \in {"live", "ending", "ended"} => s \in urls

(* When no encoder is connected and no hook call is open, the stream is    *)
(* not shown as live, if its hook calls never overlapped and no statement  *)
(* failed.                                                                 *)
OffAirIsNotLive ==
  \A s \in Streams \ raced :
    s \notin onAir /\ HooksOf(s) = {} /\ faults = 0 => status[s] \notin {"live", "ending"}

(* A stream whose hook calls never overlap stays ended: an encoder that    *)
(* reconnects with the key of an ended stream does not bring it back.      *)
EndedIsFinal ==
  [][\A s \in Streams : status[s] = "ended" /\ s \notin raced'
                        => status'[s] \in {"ended", "deleted"}]_vars

(* The cleaner works from a list; still it removes no segments of a stream *)
(* that is live or whose DVR window, counted from the ended_at in the row, *)
(* is not over, unless hook calls of the stream overlapped.                *)
RemovedWhenOver ==
  [][\A s \in (segments \ segments') \ raced :
       status[s] = "deleted" \/ (status[s] = "ended" /\ <<s, endedAt[s]>> \in due)]_vars

(* The row of every ended DVR stream is stamped in the end, whatever       *)
(* finitely many failures and restarts come before.                        *)
EndedIsCleaned ==
  \A s \in Streams : s \in dvr /\ status[s] = "ended" ~> s \in cleaned \/ status[s] # "ended"

(* The types, and what Create keeps: one active stream, and no key or      *)
(* status of a row that cannot be looked up.                               *)
StreamInv == TypeOK /\ OneActivePerOwner /\ KeyedIsFound

(* What an ended stream keeps: its status, and its recording as long as    *)
(* the DVR window lasts.                                                   *)
EndedIsKept == EndedIsFinal /\ RemovedWhenOver
==============================================================================
