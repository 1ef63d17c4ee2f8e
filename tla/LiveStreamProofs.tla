--------------------------- MODULE LiveStreamProofs ---------------------------
(***************************************************************************)
(* Proofs about LiveStream, for any streams, any finite number of hook     *)
(* calls and any bound on the faults. No statement looks at the status it  *)
(* overwrites, so what holds of a stream rests on its hook calls not       *)
(* overlapping: the invariant says what a hook call between its read and   *)
(* its last write may rely on.                                             *)
(***************************************************************************)
EXTENDS LiveStream, FiniteSetTheorems, TLAPS

------------------------------------------------------------------------------
(* The types of TypeOK, one conjunct a variable. The flag stands apart,    *)
(* for a prover of its own; the bound on endedAt is Counted, below.        *)
Typed ==
  /\ status \in [Streams -> {"none", "idle", "live", "ending", "ended", "deleted"}]
  /\ urls \subseteq Streams /\ dvr \subseteq Streams /\ cleaned \subseteq Streams
  /\ keyed \subseteq Streams /\ onAir \subseteq Streams /\ segments \subseteq Streams
  /\ marking \subseteq Streams /\ raced \subseteq Streams
  /\ endedAt \in [Streams -> Nat]
  /\ creating \in [Streams -> {"new", "insert", "urls", "over"}]
  /\ hook \in [Hooks -> {"new", "read", "live", "ending", "ended", "over"}]
  /\ of \in [Hooks -> Streams]
  /\ ends \subseteq Hooks
  /\ faults \in 0 .. MaxFaults

Flag == crowded \in BOOLEAN

(* What the cleaner compares with the clock: every window it knows of      *)
(* belongs to an ended_at that was written, and an ended row has one.      *)
Windows ==
  /\ due \subseteq Streams \X Nat /\ todo \subseteq Streams \X Nat
  /\ \A p \in due \cup todo : 1 <= p[2] /\ p[2] <= endedAt[p[1]]
  /\ \A s \in Streams : status[s] = "ended" => 1 <= endedAt[s]

(* Every statement keeps the types.                                        *)
LEMMA TypedNext == ASSUME Typed, Windows, [Next]_vars PROVE Typed'
<1> USE LiveAssumption
<1> USE DEF rowVars, createVars, mediaVars, hookVars, sweepVars, Typed, Outcomes
<1>1. ASSUME NEW s \in Streams, CreateRead(s) PROVE Typed'
  BY <1>1 DEF CreateRead
<1>2. ASSUME NEW s \in Streams, CreateInsert(s) PROVE Typed'
  BY <1>2 DEF CreateInsert, Count
<1>3. ASSUME NEW s \in Streams, CreateURLs(s) PROVE Typed'
  BY <1>3 DEF CreateURLs, Count
<1>4. ASSUME NEW s \in Streams, Delete(s) PROVE Typed'
  BY <1>4 DEF Delete
<1>5. ASSUME NEW s \in Streams, WindowPasses(s) PROVE Typed'
  BY <1>5 DEF WindowPasses
<1>6. ASSUME NEW h \in Hooks, NEW s \in Streams, EncoderConnects(h, s) PROVE Typed'
  BY <1>6 DEF EncoderConnects, CallHook
<1>7. ASSUME NEW h \in Hooks, NEW s \in Streams, EncoderLeaves(h, s) PROVE Typed'
  BY <1>7 DEF EncoderLeaves, CallHook
<1>7a. ASSUME NEW h \in Hooks, NEW s \in Streams, HookRepeats(h, s) PROVE Typed'
  BY <1>7a DEF HookRepeats, CallHook
<1>8. ASSUME NEW h \in Hooks, DetectStartRead(h) PROVE Typed'
  BY <1>8 DEF DetectStartRead, Found
<1>9. ASSUME NEW h \in Hooks, DetectStart(h) PROVE Typed'
  BY <1>9 DEF DetectStart, SetStatus, Count
<1>10. ASSUME NEW h \in Hooks, DetectEndRead(h) PROVE Typed'
  BY <1>10 DEF DetectEndRead, Found
<1>11. ASSUME NEW h \in Hooks, DetectEnding(h) PROVE Typed'
  BY <1>11 DEF DetectEnding, SetStatus, Count
<1>12. ASSUME NEW h \in Hooks, DetectEnded(h) PROVE Typed'
  BY <1>12 DEF DetectEnded, SetStatus, Count
<1>13. CASE SweepList
  BY <1>13 DEF SweepList
<1>14. CASE SweepMark
  BY <1>14 DEF SweepMark, Count
<1>15. ASSUME NEW p \in todo, SweepSkip(p) PROVE Typed'
  BY <1>15 DEF SweepSkip
<1>16. ASSUME NEW p \in todo, SweepRemove(p) PROVE Typed'
  BY <1>16 DEF SweepRemove, Count, Windows
<1>17. CASE Restart
  BY <1>17 DEF Restart
<1>18. CASE UNCHANGED vars
  BY <1>18 DEF vars
<1> QED
  BY <1>1, <1>2, <1>3, <1>4, <1>5, <1>6, <1>7, <1>7a, <1>8, <1>9, <1>10,
     <1>11, <1>12, <1>13, <1>14, <1>15, <1>16, <1>17, <1>18
     DEF Next, CreateStream, HookOnPublish, HookOnUnpublish, Handle, Sweep

(* Only Create's overlap check writes the flag.                            *)
LEMMA FlagNext == ASSUME Flag, [Next]_vars PROVE Flag'
<1> USE DEF rowVars, createVars, mediaVars, hookVars, sweepVars, Flag
<1>1. ASSUME NEW s \in Streams, CreateRead(s) PROVE Flag'
  BY <1>1 DEF CreateRead
<1>2. ASSUME NEW s \in Streams, CreateInsert(s) PROVE Flag'
  BY <1>2 DEF CreateInsert, Count
<1>3. ASSUME NEW s \in Streams, CreateURLs(s) PROVE Flag'
  BY <1>3 DEF CreateURLs, Count
<1>4. ASSUME NEW s \in Streams, Delete(s) PROVE Flag'
  BY <1>4 DEF Delete
<1>5. ASSUME NEW s \in Streams, WindowPasses(s) PROVE Flag'
  BY <1>5 DEF WindowPasses
<1>6. ASSUME NEW h \in Hooks, NEW s \in Streams, EncoderConnects(h, s) PROVE Flag'
  BY <1>6 DEF EncoderConnects, CallHook
<1>7. ASSUME NEW h \in Hooks, NEW s \in Streams, EncoderLeaves(h, s) PROVE Flag'
  BY <1>7 DEF EncoderLeaves, CallHook
<1>7a. ASSUME NEW h \in Hooks, NEW s \in Streams, HookRepeats(h, s) PROVE Flag'
  BY <1>7a DEF HookRepeats, CallHook
<1>8. ASSUME NEW h \in Hooks, DetectStartRead(h) PROVE Flag'
  BY <1>8 DEF DetectStartRead, Found
<1>9. ASSUME NEW h \in Hooks, DetectStart(h) PROVE Flag'
  BY <1>9 DEF DetectStart, SetStatus, Count
<1>10. ASSUME NEW h \in Hooks, DetectEndRead(h) PROVE Flag'
  BY <1>10 DEF DetectEndRead, Found
<1>11. ASSUME NEW h \in Hooks, DetectEnding(h) PROVE Flag'
  BY <1>11 DEF DetectEnding, SetStatus, Count
<1>12. ASSUME NEW h \in Hooks, DetectEnded(h) PROVE Flag'
  BY <1>12 DEF DetectEnded, SetStatus, Count
<1>13. CASE SweepList
  BY <1>13 DEF SweepList
<1>14. CASE SweepMark
  BY <1>14 DEF SweepMark, Count
<1>15. ASSUME NEW p \in todo, SweepSkip(p) PROVE Flag'
  BY <1>15 DEF SweepSkip
<1>16. ASSUME NEW p \in todo, SweepRemove(p) PROVE Flag'
  BY <1>16 DEF SweepRemove, Count
<1>17. CASE Restart
  BY <1>17 DEF Restart
<1>18. CASE UNCHANGED vars
  BY <1>18 DEF vars
<1> QED
  BY <1>1, <1>2, <1>3, <1>4, <1>5, <1>6, <1>7, <1>7a, <1>8, <1>9, <1>10,
     <1>11, <1>12, <1>13, <1>14, <1>15, <1>16, <1>17, <1>18
     DEF Next, CreateStream, HookOnPublish, HookOnUnpublish, Handle, Sweep

(* ended_at is written with the status, in one UPDATE.                     *)
LEMMA WindowsNext == ASSUME Typed, Windows, [Next]_vars PROVE Windows'
<1> USE DEF rowVars, createVars, mediaVars, hookVars, sweepVars, Typed, Windows, Exists,
           Executed
<1>1. ASSUME NEW s \in Streams, CreateRead(s) PROVE Windows'
  BY <1>1 DEF CreateRead
<1>2. ASSUME NEW s \in Streams, CreateInsert(s) PROVE Windows'
  BY <1>2 DEF CreateInsert, Count
<1>3. ASSUME NEW s \in Streams, CreateURLs(s) PROVE Windows'
  BY <1>3 DEF CreateURLs, Count
<1>4. ASSUME NEW s \in Streams, Delete(s) PROVE Windows'
  BY <1>4 DEF Delete
<1>5. ASSUME NEW s \in Streams, WindowPasses(s) PROVE Windows'
  BY <1>5 DEF WindowPasses
<1>6. ASSUME NEW h \in Hooks, NEW s \in Streams, EncoderConnects(h, s) PROVE Windows'
  BY <1>6 DEF EncoderConnects, CallHook
<1>7. ASSUME NEW h \in Hooks, NEW s \in Streams, EncoderLeaves(h, s) PROVE Windows'
  BY <1>7 DEF EncoderLeaves, CallHook
<1>7a. ASSUME NEW h \in Hooks, NEW s \in Streams, HookRepeats(h, s) PROVE Windows'
  BY <1>7a DEF HookRepeats, CallHook
<1>8. ASSUME NEW h \in Hooks, DetectStartRead(h) PROVE Windows'
  BY <1>8 DEF DetectStartRead, Found
<1>9. ASSUME NEW h \in Hooks, DetectStart(h) PROVE Windows'
  BY <1>9 DEF DetectStart, SetStatus, Count
<1>10. ASSUME NEW h \in Hooks, DetectEndRead(h) PROVE Windows'
  BY <1>10 DEF DetectEndRead, Found
<1>11. ASSUME NEW h \in Hooks, DetectEnding(h) PROVE Windows'
  BY <1>11 DEF DetectEnding, SetStatus, Count
<1>12. ASSUME NEW h \in Hooks, DetectEnded(h) PROVE Windows'
  BY <1>12 DEF DetectEnded, SetStatus, Count
<1>13. CASE SweepList
  BY <1>13 DEF SweepList
<1>14. CASE SweepMark
  BY <1>14 DEF SweepMark, Count
<1>15. ASSUME NEW p \in todo, SweepSkip(p) PROVE Windows'
  BY <1>15 DEF SweepSkip
<1>16. ASSUME NEW p \in todo, SweepRemove(p) PROVE Windows'
  BY <1>16 DEF SweepRemove, Count
<1>17. CASE Restart
  BY <1>17 DEF Restart
<1>18. CASE UNCHANGED vars
  BY <1>18 DEF vars
<1> QED
  BY <1>1, <1>2, <1>3, <1>4, <1>5, <1>6, <1>7, <1>7a, <1>8, <1>9, <1>10,
     <1>11, <1>12, <1>13, <1>14, <1>15, <1>16, <1>17, <1>18
     DEF Next, CreateStream, HookOnPublish, HookOnUnpublish, Handle, Sweep

------------------------------------------------------------------------------
(* ended_at is written at most once by a hook call, with its last          *)
(* statement.                                                              *)
Served(s) == {h \in Hooks : hook[h] = "over" /\ of[h] = s}

Counted == \A s \in Streams : endedAt[s] <= Cardinality(Served(s))

(* A step that writes no ended_at and reopens no hook call.                *)
LEMMA ServedGrows ==
  ASSUME Typed, Counted, endedAt' = endedAt, of' = of,
         \A h \in Hooks : hook[h] = "over" => hook'[h] = "over"
  PROVE  Counted'
<1> SUFFICES ASSUME NEW s \in Streams PROVE endedAt'[s] <= Cardinality(Served(s))'
  BY DEF Counted
<1>1. Served(s) \subseteq Served(s)' /\ Served(s)' \subseteq Hooks
  BY DEF Served
<1>2. IsFiniteSet(Served(s)') /\ IsFiniteSet(Served(s))
  BY <1>1, LiveAssumption, FS_Subset
<1>3. /\ Cardinality(Served(s)) <= Cardinality(Served(s)')
      /\ Cardinality(Served(s)) \in Nat /\ Cardinality(Served(s)') \in Nat
  BY <1>1, <1>2, FS_Subset, FS_CardinalityType
<1>4. endedAt[s] <= Cardinality(Served(s)) /\ endedAt[s] \in Nat
  BY DEF Counted, Typed
<1> QED BY <1>3, <1>4

(* DetectEnded counts the call that writes ended_at.                       *)
LEMMA CountedNext == ASSUME Typed, Counted, [Next]_vars PROVE Counted'
<1> USE DEF rowVars, createVars, mediaVars, hookVars, sweepVars, Typed
<1>1. ASSUME NEW s \in Streams, CreateRead(s) PROVE Counted'
  BY <1>1, ServedGrows DEF CreateRead
<1>2. ASSUME NEW s \in Streams, CreateInsert(s) PROVE Counted'
  BY <1>2, ServedGrows DEF CreateInsert
<1>3. ASSUME NEW s \in Streams, CreateURLs(s) PROVE Counted'
  BY <1>3, ServedGrows DEF CreateURLs
<1>4. ASSUME NEW s \in Streams, Delete(s) PROVE Counted'
  BY <1>4, ServedGrows DEF Delete
<1>5. ASSUME NEW s \in Streams, WindowPasses(s) PROVE Counted'
  BY <1>5, ServedGrows DEF WindowPasses
<1>6. ASSUME NEW h \in Hooks, NEW s \in Streams, EncoderConnects(h, s) PROVE Counted'
  BY <1>6, ServedGrows DEF EncoderConnects, CallHook
<1>7. ASSUME NEW h \in Hooks, NEW s \in Streams, EncoderLeaves(h, s) PROVE Counted'
  BY <1>7, ServedGrows DEF EncoderLeaves, CallHook
<1>7a. ASSUME NEW h \in Hooks, NEW s \in Streams, HookRepeats(h, s) PROVE Counted'
  BY <1>7a, ServedGrows DEF HookRepeats, CallHook
<1>8. ASSUME NEW h \in Hooks, DetectStartRead(h) PROVE Counted'
  BY <1>8, ServedGrows DEF DetectStartRead
<1>9. ASSUME NEW h \in Hooks, DetectStart(h) PROVE Counted'
  BY <1>9, ServedGrows DEF DetectStart
<1>10. ASSUME NEW h \in Hooks, DetectEndRead(h) PROVE Counted'
  BY <1>10, ServedGrows DEF DetectEndRead
<1>11. ASSUME NEW h \in Hooks, DetectEnding(h) PROVE Counted'
  BY <1>11, ServedGrows DEF DetectEnding
<1>12. ASSUME NEW h \in Hooks, DetectEnded(h) PROVE Counted'
  <2> SUFFICES ASSUME NEW s \in Streams PROVE endedAt'[s] <= Cardinality(Served(s))'
    BY DEF Counted
  <2>1. Served(s)' = IF s = of[h] THEN Served(s) \cup {h} ELSE Served(s)
    BY <1>12 DEF DetectEnded, Served
  <2>2. endedAt'[s] <= IF s = of[h] THEN endedAt[s] + 1 ELSE endedAt[s]
    BY <1>12 DEF DetectEnded
  <2>3. IsFiniteSet(Served(s)) /\ h \notin Served(s)
    BY <1>12, LiveAssumption, FS_Subset DEF DetectEnded, Served
  <2>4. /\ Cardinality(Served(s)) \in Nat
        /\ Cardinality(Served(s) \cup {h}) = Cardinality(Served(s)) + 1
    BY <2>3, FS_CardinalityType, FS_AddElement
  <2>5. endedAt[s] <= Cardinality(Served(s)) /\ endedAt[s] \in Nat /\ endedAt'[s] \in Nat
    BY <1>12 DEF Counted, DetectEnded
  <2> QED BY <2>1, <2>2, <2>4, <2>5
<1>13. CASE SweepList
  BY <1>13, ServedGrows DEF SweepList
<1>14. CASE SweepMark
  BY <1>14, ServedGrows DEF SweepMark
<1>15. ASSUME NEW p \in todo, SweepSkip(p) PROVE Counted'
  BY <1>15, ServedGrows DEF SweepSkip
<1>16. ASSUME NEW p \in todo, SweepRemove(p) PROVE Counted'
  BY <1>16, ServedGrows DEF SweepRemove
<1>17. CASE Restart
  BY <1>17, ServedGrows DEF Restart, Open
<1>18. CASE UNCHANGED vars
  BY <1>18, ServedGrows DEF vars
<1> QED
  BY <1>1, <1>2, <1>3, <1>4, <1>5, <1>6, <1>7, <1>7a, <1>8, <1>9, <1>10,
     <1>11, <1>12, <1>13, <1>14, <1>15, <1>16, <1>17, <1>18
     DEF Next, CreateStream, HookOnPublish, HookOnUnpublish, Handle, Sweep

------------------------------------------------------------------------------
(* A key is told only of a row with URLs, and with them Create is over; so *)
(* the hooks of a stream can look it up, and no INSERT of it is to come.   *)
Keys ==
  /\ keyed \subseteq urls
  /\ onAir \subseteq keyed
  /\ \A s \in Streams :
       /\ creating[s] \in {"new", "insert"} => status[s] = "none"
       /\ s \in urls => creating[s] = "over"
       /\ status[s] \in {"live", "ending", "ended"} => s \in urls
  /\ \A h \in Hooks : hook[h] # "new" => of[h] \in keyed

(* The URLs are never taken back.                                          *)
LEMMA KeysNext == ASSUME Typed, Keys, [Next]_vars PROVE Keys'
<1> USE DEF rowVars, createVars, mediaVars, hookVars, sweepVars, Typed, Keys, Exists,
           Executed, Open
<1>1. ASSUME NEW s \in Streams, CreateRead(s) PROVE Keys'
  BY <1>1 DEF CreateRead
<1>2. ASSUME NEW s \in Streams, CreateInsert(s) PROVE Keys'
  BY <1>2 DEF CreateInsert, Count
<1>3. ASSUME NEW s \in Streams, CreateURLs(s) PROVE Keys'
  BY <1>3 DEF CreateURLs, Count
<1>4. ASSUME NEW s \in Streams, Delete(s) PROVE Keys'
  BY <1>4 DEF Delete
<1>5. ASSUME NEW s \in Streams, WindowPasses(s) PROVE Keys'
  BY <1>5 DEF WindowPasses
<1>6. ASSUME NEW h \in Hooks, NEW s \in Streams, EncoderConnects(h, s) PROVE Keys'
  BY <1>6 DEF EncoderConnects, CallHook
<1>7. ASSUME NEW h \in Hooks, NEW s \in Streams, EncoderLeaves(h, s) PROVE Keys'
  BY <1>7 DEF EncoderLeaves, CallHook
<1>7a. ASSUME NEW h \in Hooks, NEW s \in Streams, HookRepeats(h, s) PROVE Keys'
  BY <1>7a DEF HookRepeats, CallHook
<1>8. ASSUME NEW h \in Hooks, DetectStartRead(h) PROVE Keys'
  BY <1>8 DEF DetectStartRead, Found
<1>9. ASSUME NEW h \in Hooks, DetectStart(h) PROVE Keys'
  BY <1>9 DEF DetectStart, SetStatus, Count
<1>10. ASSUME NEW h \in Hooks, DetectEndRead(h) PROVE Keys'
  BY <1>10 DEF DetectEndRead, Found
<1>11. ASSUME NEW h \in Hooks, DetectEnding(h) PROVE Keys'
  BY <1>11 DEF DetectEnding, SetStatus, Count
<1>12. ASSUME NEW h \in Hooks, DetectEnded(h) PROVE Keys'
  BY <1>12 DEF DetectEnded, SetStatus, Count
<1>13. CASE SweepList
  BY <1>13 DEF SweepList
<1>14. CASE SweepMark
  BY <1>14 DEF SweepMark, Count
<1>15. ASSUME NEW p \in todo, SweepSkip(p) PROVE Keys'
  BY <1>15 DEF SweepSkip
<1>16. ASSUME NEW p \in todo, SweepRemove(p) PROVE Keys'
  BY <1>16 DEF SweepRemove, Count
<1>17. CASE Restart
  BY <1>17 DEF Restart
<1>18. CASE UNCHANGED vars
  BY <1>18 DEF vars
<1> QED
  BY <1>1, <1>2, <1>3, <1>4, <1>5, <1>6, <1>7, <1>7a, <1>8, <1>9, <1>10,
     <1>11, <1>12, <1>13, <1>14, <1>15, <1>16, <1>17, <1>18
     DEF Next, CreateStream, HookOnPublish, HookOnUnpublish, Handle, Sweep

------------------------------------------------------------------------------
(* The hook calls of a stream that never overlapped: one is open at a      *)
(* time, and the status is still what that call read or wrote, or the row  *)
(* is gone.                                                                *)
Turns ==
  /\ \A g, h \in Hooks : Open(g) /\ Open(h) /\ of[g] = of[h] => g = h \/ of[h] \in raced
  /\ \A h \in Hooks :
       /\ hook[h] = "new" \/ hook[h] = "live" => h \notin ends
       /\ hook[h] \in {"ending", "ended"} => h \in ends
       /\ of[h] \notin raced =>
            /\ hook[h] = "live" => status[of[h]] \in {"idle", "deleted"}
            /\ hook[h] = "ending" => status[of[h]] \in {"idle", "live", "deleted"}
            /\ hook[h] = "ended" => status[of[h]] \in {"ending", "deleted"}

(* Between the read of a hook call and its write only Delete intervenes.   *)
LEMMA TurnsNext == ASSUME Typed, Keys, Turns, [Next]_vars PROVE Turns'
<1> USE DEF rowVars, createVars, mediaVars, hookVars, sweepVars, Typed, Keys, Turns,
           Exists, Executed, Open, HooksOf
<1>1. ASSUME NEW s \in Streams, CreateRead(s) PROVE Turns'
  BY <1>1 DEF CreateRead
<1>2. ASSUME NEW s \in Streams, CreateInsert(s) PROVE Turns'
  BY <1>2 DEF CreateInsert, Count
<1>3. ASSUME NEW s \in Streams, CreateURLs(s) PROVE Turns'
  BY <1>3 DEF CreateURLs, Count
<1>4. ASSUME NEW s \in Streams, Delete(s) PROVE Turns'
  BY <1>4 DEF Delete
<1>5. ASSUME NEW s \in Streams, WindowPasses(s) PROVE Turns'
  BY <1>5 DEF WindowPasses
<1>6. ASSUME NEW h \in Hooks, NEW s \in Streams, EncoderConnects(h, s) PROVE Turns'
  BY <1>6 DEF EncoderConnects, CallHook
<1>7. ASSUME NEW h \in Hooks, NEW s \in Streams, EncoderLeaves(h, s) PROVE Turns'
  BY <1>7 DEF EncoderLeaves, CallHook
<1>7a. ASSUME NEW h \in Hooks, NEW s \in Streams, HookRepeats(h, s) PROVE Turns'
  BY <1>7a DEF HookRepeats, CallHook
<1>8. ASSUME NEW h \in Hooks, DetectStartRead(h) PROVE Turns'
  BY <1>8 DEF DetectStartRead, Found
<1>9. ASSUME NEW h \in Hooks, DetectStart(h) PROVE Turns'
  BY <1>9 DEF DetectStart, SetStatus, Count
<1>10. ASSUME NEW h \in Hooks, DetectEndRead(h) PROVE Turns'
  BY <1>10 DEF DetectEndRead, Found
<1>11. ASSUME NEW h \in Hooks, DetectEnding(h) PROVE Turns'
  BY <1>11 DEF DetectEnding, SetStatus, Count
<1>12. ASSUME NEW h \in Hooks, DetectEnded(h) PROVE Turns'
  BY <1>12 DEF DetectEnded, SetStatus, Count
<1>13. CASE SweepList
  BY <1>13 DEF SweepList
<1>14. CASE SweepMark
  BY <1>14 DEF SweepMark, Count
<1>15. ASSUME NEW p \in todo, SweepSkip(p) PROVE Turns'
  BY <1>15 DEF SweepSkip
<1>16. ASSUME NEW p \in todo, SweepRemove(p) PROVE Turns'
  BY <1>16 DEF SweepRemove, Count
<1>17. CASE Restart
  BY <1>17 DEF Restart
<1>18. CASE UNCHANGED vars
  BY <1>18 DEF vars
<1> QED
  BY <1>1, <1>2, <1>3, <1>4, <1>5, <1>6, <1>7, <1>7a, <1>8, <1>9, <1>10,
     <1>11, <1>12, <1>13, <1>14, <1>15, <1>16, <1>17, <1>18
     DEF Next, CreateStream, HookOnPublish, HookOnUnpublish, Handle, Sweep

------------------------------------------------------------------------------
(* Without overlapping Create requests no active stream appears between    *)
(* the check and the INSERT.                                               *)
Owners ==
  crowded \/
    \A s, t \in Streams :
      /\ creating[s] \in {"insert", "urls"} /\ creating[t] \in {"insert", "urls"} => s = t
      /\ creating[s] = "insert" /\ status[t] \in {"idle", "live"} => t \in raced
      /\ status[s] \in {"idle", "live"} /\ status[t] \in {"idle", "live"}
           => s = t \/ s \in raced \/ t \in raced

(* Create inserts a stream where there is none.                            *)
LEMMA OwnersNext == ASSUME Typed, Keys, Turns, Owners, [Next]_vars PROVE Owners'
<1> USE DEF rowVars, createVars, mediaVars, hookVars, sweepVars, Typed, Keys, Turns,
           Owners, Exists, Executed, Open
<1>1. ASSUME NEW s \in Streams, CreateRead(s) PROVE Owners'
  <2>1. /\ UNCHANGED <<status, raced>>
        /\ \A t \in Streams : status[t] \notin {"idle", "live"}
        /\ creating'[s] = "insert" /\ \A t \in Streams \ {s} : creating'[t] = creating[t]
        /\ crowded' \/ \A t \in Streams : creating[t] \notin {"insert", "urls"}
    BY <1>1 DEF CreateRead
  <2> HIDE DEF Typed, Keys, Turns
  <2> QED BY <2>1
<1>2. ASSUME NEW s \in Streams, CreateInsert(s) PROVE Owners'
  BY <1>2 DEF CreateInsert, Count
<1>3. ASSUME NEW s \in Streams, CreateURLs(s) PROVE Owners'
  BY <1>3 DEF CreateURLs, Count
<1>4. ASSUME NEW s \in Streams, Delete(s) PROVE Owners'
  BY <1>4 DEF Delete
<1>5. ASSUME NEW s \in Streams, WindowPasses(s) PROVE Owners'
  BY <1>5 DEF WindowPasses
<1>6. ASSUME NEW h \in Hooks, NEW s \in Streams, EncoderConnects(h, s) PROVE Owners'
  BY <1>6 DEF EncoderConnects, CallHook
<1>7. ASSUME NEW h \in Hooks, NEW s \in Streams, EncoderLeaves(h, s) PROVE Owners'
  BY <1>7 DEF EncoderLeaves, CallHook
<1>7a. ASSUME NEW h \in Hooks, NEW s \in Streams, HookRepeats(h, s) PROVE Owners'
  BY <1>7a DEF HookRepeats, CallHook
<1>8. ASSUME NEW h \in Hooks, DetectStartRead(h) PROVE Owners'
  BY <1>8 DEF DetectStartRead, Found
<1>9. ASSUME NEW h \in Hooks, DetectStart(h) PROVE Owners'
  BY <1>9 DEF DetectStart, SetStatus, Count
<1>10. ASSUME NEW h \in Hooks, DetectEndRead(h) PROVE Owners'
  BY <1>10 DEF DetectEndRead, Found
<1>11. ASSUME NEW h \in Hooks, DetectEnding(h) PROVE Owners'
  BY <1>11 DEF DetectEnding, SetStatus, Count
<1>12. ASSUME NEW h \in Hooks, DetectEnded(h) PROVE Owners'
  BY <1>12 DEF DetectEnded, SetStatus, Count
<1>13. CASE SweepList
  BY <1>13 DEF SweepList
<1>14. CASE SweepMark
  BY <1>14 DEF SweepMark, Count
<1>15. ASSUME NEW p \in todo, SweepSkip(p) PROVE Owners'
  BY <1>15 DEF SweepSkip
<1>16. ASSUME NEW p \in todo, SweepRemove(p) PROVE Owners'
  BY <1>16 DEF SweepRemove, Count
<1>17. CASE Restart
  BY <1>17 DEF Restart
<1>18. CASE UNCHANGED vars
  BY <1>18 DEF vars
<1> QED
  BY <1>1, <1>2, <1>3, <1>4, <1>5, <1>6, <1>7, <1>7a, <1>8, <1>9, <1>10,
     <1>11, <1>12, <1>13, <1>14, <1>15, <1>16, <1>17, <1>18
     DEF Next, CreateStream, HookOnPublish, HookOnUnpublish, Handle, Sweep

------------------------------------------------------------------------------
(* A stream that is live or ending has an encoder, or a hook call under    *)
(* way that will end it. The on-publish call of a stream without overlaps  *)
(* runs while the encoder is connected.                                    *)
Airtime ==
  /\ \A h \in Hooks : Open(h) /\ h \notin ends => of[h] \in onAir \cup raced
  /\ faults = 0 => \A s \in Streams \ raced :
       /\ status[s] = "live" /\ s \notin onAir
            => \E h \in Hooks : of[h] = s /\ h \in ends /\ hook[h] \in {"read", "ending"}
       /\ status[s] = "ending" => \E h \in Hooks : of[h] = s /\ hook[h] = "ended"

(* Every on-unpublish call leaves the stream ended, if nothing fails.      *)
LEMMA AirtimeNext == ASSUME Typed, Keys, Turns, Airtime, [Next]_vars PROVE Airtime'
<1> USE DEF rowVars, createVars, mediaVars, hookVars, sweepVars, Typed, Keys, Turns,
           Airtime, Exists, Executed, Open, HooksOf, Outcomes
<1>1. ASSUME NEW s \in Streams, CreateRead(s) PROVE Airtime'
  BY <1>1 DEF CreateRead
<1>2. ASSUME NEW s \in Streams, CreateInsert(s) PROVE Airtime'
  BY <1>2 DEF CreateInsert, Count
<1>3. ASSUME NEW s \in Streams, CreateURLs(s) PROVE Airtime'
  BY <1>3 DEF CreateURLs, Count
<1>4. ASSUME NEW s \in Streams, Delete(s) PROVE Airtime'
  BY <1>4 DEF Delete
<1>5. ASSUME NEW s \in Streams, WindowPasses(s) PROVE Airtime'
  BY <1>5 DEF WindowPasses
<1>6. ASSUME NEW h \in Hooks, NEW s \in Streams, EncoderConnects(h, s) PROVE Airtime'
  BY <1>6 DEF EncoderConnects, CallHook
<1>7. ASSUME NEW h \in Hooks, NEW s \in Streams, EncoderLeaves(h, s) PROVE Airtime'
  BY <1>7 DEF EncoderLeaves, CallHook
<1>7a. ASSUME NEW h \in Hooks, NEW s \in Streams, HookRepeats(h, s) PROVE Airtime'
  BY <1>7a DEF HookRepeats, CallHook
<1>8. ASSUME NEW h \in Hooks, DetectStartRead(h) PROVE Airtime'
  BY <1>8 DEF DetectStartRead, Found
<1>9. ASSUME NEW h \in Hooks, DetectStart(h) PROVE Airtime'
  BY <1>9 DEF DetectStart, SetStatus, Count
<1>10. ASSUME NEW h \in Hooks, DetectEndRead(h) PROVE Airtime'
  BY <1>10 DEF DetectEndRead, Found
<1>11. ASSUME NEW h \in Hooks, DetectEnding(h) PROVE Airtime'
  BY <1>11 DEF DetectEnding, SetStatus, Count
<1>12. ASSUME NEW h \in Hooks, DetectEnded(h) PROVE Airtime'
  BY <1>12 DEF DetectEnded, SetStatus, Count
<1>13. CASE SweepList
  BY <1>13 DEF SweepList
<1>14. CASE SweepMark
  BY <1>14 DEF SweepMark, Count
<1>15. ASSUME NEW p \in todo, SweepSkip(p) PROVE Airtime'
  BY <1>15 DEF SweepSkip
<1>16. ASSUME NEW p \in todo, SweepRemove(p) PROVE Airtime'
  BY <1>16 DEF SweepRemove, Count
<1>17. CASE Restart
  BY <1>17 DEF Restart
<1>18. CASE UNCHANGED vars
  BY <1>18 DEF vars
<1> QED
  BY <1>1, <1>2, <1>3, <1>4, <1>5, <1>6, <1>7, <1>7a, <1>8, <1>9, <1>10,
     <1>11, <1>12, <1>13, <1>14, <1>15, <1>16, <1>17, <1>18
     DEF Next, CreateStream, HookOnPublish, HookOnUnpublish, Handle, Sweep

------------------------------------------------------------------------------
(* A row the sweep has still to look at is as the sweep listed it.         *)
Listed ==
  \A p \in todo : p[1] \in raced \/ status[p[1]] = "deleted"
                  \/ (status[p[1]] = "ended" /\ endedAt[p[1]] = p[2])

(* Nothing but overlapping hook calls changes an ended row, except Delete. *)
LEMMA ListedNext == ASSUME Typed, Windows, Keys, Turns, Listed, [Next]_vars PROVE Listed'
<1> USE DEF rowVars, createVars, mediaVars, hookVars, sweepVars, Typed, Windows, Keys,
           Turns, Listed, Exists, Executed, Open
<1>1. ASSUME NEW s \in Streams, CreateRead(s) PROVE Listed'
  BY <1>1 DEF CreateRead
<1>2. ASSUME NEW s \in Streams, CreateInsert(s) PROVE Listed'
  BY <1>2 DEF CreateInsert, Count
<1>3. ASSUME NEW s \in Streams, CreateURLs(s) PROVE Listed'
  BY <1>3 DEF CreateURLs, Count
<1>4. ASSUME NEW s \in Streams, Delete(s) PROVE Listed'
  BY <1>4 DEF Delete
<1>5. ASSUME NEW s \in Streams, WindowPasses(s) PROVE Listed'
  BY <1>5 DEF WindowPasses
<1>6. ASSUME NEW h \in Hooks, NEW s \in Streams, EncoderConnects(h, s) PROVE Listed'
  BY <1>6 DEF EncoderConnects, CallHook
<1>7. ASSUME NEW h \in Hooks, NEW s \in Streams, EncoderLeaves(h, s) PROVE Listed'
  BY <1>7 DEF EncoderLeaves, CallHook
<1>7a. ASSUME NEW h \in Hooks, NEW s \in Streams, HookRepeats(h, s) PROVE Listed'
  BY <1>7a DEF HookRepeats, CallHook
<1>8. ASSUME NEW h \in Hooks, DetectStartRead(h) PROVE Listed'
  BY <1>8 DEF DetectStartRead, Found
<1>9. ASSUME NEW h \in Hooks, DetectStart(h) PROVE Listed'
  BY <1>9 DEF DetectStart, SetStatus, Count
<1>10. ASSUME NEW h \in Hooks, DetectEndRead(h) PROVE Listed'
  BY <1>10 DEF DetectEndRead, Found
<1>11. ASSUME NEW h \in Hooks, DetectEnding(h) PROVE Listed'
  BY <1>11 DEF DetectEnding, SetStatus, Count
<1>12. ASSUME NEW h \in Hooks, DetectEnded(h) PROVE Listed'
  BY <1>12 DEF DetectEnded, SetStatus, Count
<1>13. CASE SweepList
  BY <1>13 DEF SweepList
<1>14. CASE SweepMark
  BY <1>14 DEF SweepMark, Count
<1>15. ASSUME NEW p \in todo, SweepSkip(p) PROVE Listed'
  BY <1>15 DEF SweepSkip
<1>16. ASSUME NEW p \in todo, SweepRemove(p) PROVE Listed'
  BY <1>16 DEF SweepRemove, Count
<1>17. CASE Restart
  BY <1>17 DEF Restart
<1>18. CASE UNCHANGED vars
  BY <1>18 DEF vars
<1> QED
  BY <1>1, <1>2, <1>3, <1>4, <1>5, <1>6, <1>7, <1>7a, <1>8, <1>9, <1>10,
     <1>11, <1>12, <1>13, <1>14, <1>15, <1>16, <1>17, <1>18
     DEF Next, CreateStream, HookOnPublish, HookOnUnpublish, Handle, Sweep

------------------------------------------------------------------------------
Inv ==
  /\ Typed /\ Flag /\ Windows /\ Counted
  /\ Keys /\ Turns
  /\ Owners /\ Airtime /\ Listed

LEMMA InvInit == Init => Inv
<1> SUFFICES ASSUME Init PROVE Inv
  OBVIOUS
<1>1. Typed
  BY LiveAssumption DEF Init, Typed
<1>2. Flag /\ Keys
  BY DEF Init, Flag, Keys
<1>3. Windows /\ Listed
  BY DEF Init, Windows, Listed
<1>4. Counted
  <2> SUFFICES ASSUME NEW s \in Streams PROVE endedAt[s] <= Cardinality(Served(s))
    BY DEF Counted
  <2>1. Cardinality(Served(s)) \in Nat
    BY LiveAssumption, FS_Subset, FS_CardinalityType DEF Served
  <2> QED BY <2>1 DEF Init
<1>5. Turns /\ Owners /\ Airtime
  BY DEF Init, Turns, Owners, Airtime, Open
<1> QED BY <1>1, <1>2, <1>3, <1>4, <1>5 DEF Inv

(* A set with no two different members has at most one.                    *)
LEMMA AtMostOne ==
  ASSUME NEW S, \A x, y \in S : x = y
  PROVE  Cardinality(S) <= 1
<1>1. CASE S = {}
  BY <1>1, FS_EmptySet
<1>2. CASE S # {}
  <2> PICK x \in S : TRUE
    BY <1>2
  <2>1. S = {x}
    OBVIOUS
  <2> QED BY <2>1, FS_Singleton
<1> QED BY <1>1, <1>2

(* The invariant of every behaviour, from which the theorems follow.       *)
LEMMA InvHolds == Spec => []Inv
<1>1. Inv /\ [Next]_vars => Inv'
  BY TypedNext, FlagNext, WindowsNext, CountedNext, KeysNext, TurnsNext, OwnersNext,
     AirtimeNext, ListedNext DEF Inv
<1> QED BY InvInit, <1>1, PTL DEF Spec

LEMMA InvTypes == Inv => TypeOK
<1> SUFFICES ASSUME Inv PROVE TypeOK
  OBVIOUS
<1>1. ASSUME NEW s \in Streams
      PROVE  endedAt[s] <= Cardinality(Hooks) /\ Cardinality(Hooks) \in Nat
  <2>1. Served(s) \subseteq Hooks /\ IsFiniteSet(Hooks)
    BY LiveAssumption DEF Served
  <2>2. Cardinality(Served(s)) <= Cardinality(Hooks) /\ Cardinality(Served(s)) \in Nat
        /\ Cardinality(Hooks) \in Nat
    BY <2>1, FS_Subset, FS_CardinalityType
  <2> QED BY <2>2 DEF Inv, Counted, Typed
<1>2. endedAt \in [Streams -> 0 .. Cardinality(Hooks)]
  BY <1>1 DEF Inv, Typed
<1>3. /\ due \cup todo \subseteq Streams \X (1 .. Cardinality(Hooks))
      /\ \A p \in due \cup todo : p[2] <= endedAt[p[1]]
  BY <1>1 DEF Inv, Windows, Typed
<1>4. UNION {urls, dvr, cleaned, keyed, onAir, segments, marking, raced} \subseteq Streams
  BY DEF Inv, Typed
<1> QED BY <1>2, <1>3, <1>4 DEF Inv, Typed, Flag, TypeOK

------------------------------------------------------------------------------
(* The types; an owner has one active stream, unless Create requests or    *)
(* hook calls overlapped; a key or a status is only of a row that can be   *)
(* looked up.                                                              *)
THEOREM StreamInvHolds == Spec => []StreamInv
<1>1. ASSUME Inv PROVE OneActivePerOwner
  <2> DEFINE A == {s \in Streams \ raced : status[s] \in {"idle", "live"}}
  <2>1. SUFFICES ASSUME ~ crowded PROVE Cardinality(A) <= 1
    BY DEF OneActivePerOwner
  <2>2. \A s, t \in A : s = t
    BY <1>1, <2>1 DEF Inv, Owners
  <2> HIDE DEF A
  <2> QED BY <2>2, AtMostOne
<1>2. Inv => KeyedIsFound
  BY DEF Inv, Keys, KeyedIsFound
<1> QED BY <1>1, <1>2, InvTypes, InvHolds, PTL DEF StreamInv

(* When no encoder is connected and no hook call is open, a stream whose   *)
(* hook calls never overlapped is not shown as live, if nothing failed.    *)
THEOREM OffAirIsNotLiveHolds == Spec => []OffAirIsNotLive
<1>1. Inv => OffAirIsNotLive
  BY DEF Inv, Typed, Airtime, OffAirIsNotLive, HooksOf, Open
<1> QED BY <1>1, InvHolds, PTL

(* What EndedIsFinal and RemovedWhenOver ask of a step.                    *)
KeepsStatus ==
  \A s \in Streams : status[s] = "ended" /\ s \notin raced' => status'[s] \in {"ended", "deleted"}

KeepsRecording ==
  \A s \in (segments \ segments') \ raced :
    status[s] = "deleted" \/ (status[s] = "ended" /\ <<s, endedAt[s]>> \in due)

(* No statement overwrites the status of an ended row: a hook call that    *)
(* would has read it before, and overlaps the one that ended the stream.   *)
LEMMA StepKeepsStatus == ASSUME Typed, Keys, Turns, [Next]_vars PROVE KeepsStatus
<1> USE DEF rowVars, createVars, mediaVars, hookVars, sweepVars, Typed, Keys, Turns,
           KeepsStatus, Exists, Executed
<1>1. ASSUME NEW s \in Streams, CreateRead(s) PROVE KeepsStatus
  BY <1>1 DEF CreateRead
<1>2. ASSUME NEW s \in Streams, CreateInsert(s) PROVE KeepsStatus
  BY <1>2 DEF CreateInsert, Count
<1>3. ASSUME NEW s \in Streams, CreateURLs(s) PROVE KeepsStatus
  BY <1>3 DEF CreateURLs, Count
<1>4. ASSUME NEW s \in Streams, Delete(s) PROVE KeepsStatus
  BY <1>4 DEF Delete
<1>5. ASSUME NEW s \in Streams, WindowPasses(s) PROVE KeepsStatus
  BY <1>5 DEF WindowPasses
<1>6. ASSUME NEW h \in Hooks, NEW s \in Streams, EncoderConnects(h, s) PROVE KeepsStatus
  BY <1>6 DEF EncoderConnects, CallHook
<1>7. ASSUME NEW h \in Hooks, NEW s \in Streams, EncoderLeaves(h, s) PROVE KeepsStatus
  BY <1>7 DEF EncoderLeaves, CallHook
<1>7a. ASSUME NEW h \in Hooks, NEW s \in Streams, HookRepeats(h, s) PROVE KeepsStatus
  BY <1>7a DEF HookRepeats, CallHook
<1>8. ASSUME NEW h \in Hooks, DetectStartRead(h) PROVE KeepsStatus
  BY <1>8 DEF DetectStartRead, Found
<1>9. ASSUME NEW h \in Hooks, DetectStart(h) PROVE KeepsStatus
  BY <1>9 DEF DetectStart, SetStatus, Count
<1>10. ASSUME NEW h \in Hooks, DetectEndRead(h) PROVE KeepsStatus
  BY <1>10 DEF DetectEndRead, Found
<1>11. ASSUME NEW h \in Hooks, DetectEnding(h) PROVE KeepsStatus
  BY <1>11 DEF DetectEnding, SetStatus, Count
<1>12. ASSUME NEW h \in Hooks, DetectEnded(h) PROVE KeepsStatus
  BY <1>12 DEF DetectEnded, SetStatus, Count
<1>13. CASE SweepList
  BY <1>13 DEF SweepList
<1>14. CASE SweepMark
  BY <1>14 DEF SweepMark, Count
<1>15. ASSUME NEW p \in todo, SweepSkip(p) PROVE KeepsStatus
  BY <1>15 DEF SweepSkip
<1>16. ASSUME NEW p \in todo, SweepRemove(p) PROVE KeepsStatus
  BY <1>16 DEF SweepRemove, Count
<1>17. CASE Restart
  BY <1>17 DEF Restart
<1>18. CASE UNCHANGED vars
  BY <1>18 DEF vars
<1> QED
  BY <1>1, <1>2, <1>3, <1>4, <1>5, <1>6, <1>7, <1>7a, <1>8, <1>9, <1>10,
     <1>11, <1>12, <1>13, <1>14, <1>15, <1>16, <1>17, <1>18
     DEF Next, CreateStream, HookOnPublish, HookOnUnpublish, Handle, Sweep

(* Only the sweep removes segments, of a row as it listed it.              *)
LEMMA StepKeepsRecording == ASSUME Typed, Windows, Listed, [Next]_vars PROVE KeepsRecording
<1> USE DEF rowVars, createVars, mediaVars, hookVars, sweepVars, Typed, Windows, Listed,
           KeepsRecording
<1>1. ASSUME NEW s \in Streams, CreateRead(s) PROVE KeepsRecording
  BY <1>1 DEF CreateRead
<1>2. ASSUME NEW s \in Streams, CreateInsert(s) PROVE KeepsRecording
  BY <1>2 DEF CreateInsert, Count
<1>3. ASSUME NEW s \in Streams, CreateURLs(s) PROVE KeepsRecording
  BY <1>3 DEF CreateURLs, Count
<1>4. ASSUME NEW s \in Streams, Delete(s) PROVE KeepsRecording
  BY <1>4 DEF Delete
<1>5. ASSUME NEW s \in Streams, WindowPasses(s) PROVE KeepsRecording
  BY <1>5 DEF WindowPasses
<1>6. ASSUME NEW h \in Hooks, NEW s \in Streams, EncoderConnects(h, s) PROVE KeepsRecording
  BY <1>6 DEF EncoderConnects, CallHook
<1>7. ASSUME NEW h \in Hooks, NEW s \in Streams, EncoderLeaves(h, s) PROVE KeepsRecording
  BY <1>7 DEF EncoderLeaves, CallHook
<1>7a. ASSUME NEW h \in Hooks, NEW s \in Streams, HookRepeats(h, s) PROVE KeepsRecording
  BY <1>7a DEF HookRepeats, CallHook
<1>8. ASSUME NEW h \in Hooks, DetectStartRead(h) PROVE KeepsRecording
  BY <1>8 DEF DetectStartRead, Found
<1>9. ASSUME NEW h \in Hooks, DetectStart(h) PROVE KeepsRecording
  BY <1>9 DEF DetectStart, SetStatus, Count
<1>10. ASSUME NEW h \in Hooks, DetectEndRead(h) PROVE KeepsRecording
  BY <1>10 DEF DetectEndRead, Found
<1>11. ASSUME NEW h \in Hooks, DetectEnding(h) PROVE KeepsRecording
  BY <1>11 DEF DetectEnding, SetStatus, Count
<1>12. ASSUME NEW h \in Hooks, DetectEnded(h) PROVE KeepsRecording
  BY <1>12 DEF DetectEnded, SetStatus, Count
<1>13. CASE SweepList
  BY <1>13 DEF SweepList
<1>14. CASE SweepMark
  BY <1>14 DEF SweepMark, Count
<1>15. ASSUME NEW p \in todo, SweepSkip(p) PROVE KeepsRecording
  BY <1>15 DEF SweepSkip
<1>16. ASSUME NEW p \in todo, SweepRemove(p) PROVE KeepsRecording
  BY <1>16 DEF SweepRemove, Count
<1>17. CASE Restart
  BY <1>17 DEF Restart
<1>18. CASE UNCHANGED vars
  BY <1>18 DEF vars
<1> QED
  BY <1>1, <1>2, <1>3, <1>4, <1>5, <1>6, <1>7, <1>7a, <1>8, <1>9, <1>10,
     <1>11, <1>12, <1>13, <1>14, <1>15, <1>16, <1>17, <1>18
     DEF Next, CreateStream, HookOnPublish, HookOnUnpublish, Handle, Sweep

(* An ended stream whose hook calls never overlap stays ended, whatever    *)
(* encoder reconnects, and the cleaner removes its segments only when the  *)
(* window after the ended_at in its row is over or the row was deleted.    *)
THEOREM EndedIsKeptHolds == Spec => EndedIsKept
<1>1. Inv /\ [Next]_vars => KeepsStatus /\ KeepsRecording
  BY StepKeepsStatus, StepKeepsRecording DEF Inv
<1>2. Inv /\ [Next]_vars => [KeepsStatus]_vars /\ [KeepsRecording]_vars
  BY <1>1
<1>3. Spec => [][KeepsStatus]_vars /\ [][KeepsRecording]_vars
  BY <1>2, InvHolds, PTL DEF Spec
<1> QED BY <1>3 DEF EndedIsKept, EndedIsFinal, RemovedWhenOver, KeepsStatus, KeepsRecording
==============================================================================
