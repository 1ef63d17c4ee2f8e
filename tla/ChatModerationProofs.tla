------------------------ MODULE ChatModerationProofs ------------------------
(***************************************************************************)
(* Proofs about ChatModeration, for any messages, any moderators' requests *)
(* and every fault. A rule, a message or a deletion is looked up or        *)
(* written in one statement and announced in a later one; the invariant    *)
(* says what is known in between, and how far the viewer has followed.     *)
(***************************************************************************)
EXTENDS ChatModeration, TLAPS

(* The events are different from each other.                               *)
LEMMA Kinds ==
  /\ \A m \in Msgs : Message(m) \in Events /\ Deleted(m) \in Events
  /\ LockEvents \subseteq Events
  /\ <<"chat_locked">> \in LockEvents /\ <<"chat_unlocked">> \in LockEvents
  /\ <<"chat_locked">> # <<"chat_unlocked">>
  /\ \A m, n \in Msgs : Message(m) # Deleted(n)
  /\ \A m, n \in Msgs : Message(m) = Message(n) \/ Deleted(m) = Deleted(n) => m = n
  /\ \A m \in Msgs : Message(m) \notin LockEvents /\ Deleted(m) \notin LockEvents
<1>1. \A m, n \in Msgs : Message(m) = Message(n) \/ Deleted(m) = Deleted(n) => m = n
  BY DEF Message, Deleted
<1>2. \A m, n \in Msgs : Message(m) # Deleted(n)
  BY DEF Message, Deleted
<1>3. <<"chat_locked">> # <<"chat_unlocked">>
  OBVIOUS
<1>4. ASSUME NEW m \in Msgs PROVE Message(m) \notin LockEvents /\ Deleted(m) \notin LockEvents
  <2>1. Len(Message(m)) = 2 /\ Len(Deleted(m)) = 2
    BY DEF Message, Deleted
  <2>2. \A e \in LockEvents : Len(e) = 1
    BY DEF LockEvents
  <2> QED BY <2>1, <2>2
<1> QED BY <1>1, <1>2, <1>3, <1>4 DEF Events, LockEvents

------------------------------------------------------------------------------
(* The types of TypeOK, one conjunct a variable; the flag stands apart,    *)
(* for a prover of its own, and the bound on the copies a viewer shows is  *)
(* Shown, below.                                                           *)
Typed ==
  /\ rules \subseteq Rules
  /\ msg \in [Msgs -> {"none", "stored", "deleted"}]
  /\ sending \in [Msgs -> {"new", "timeout", "lock", "insert", "publish", "over"}]
  /\ moderating \in [Mods -> {"new", "publish", "over"}]
  /\ event \in [Mods -> Events]
  /\ log \in Seq(Events)
  /\ viewer \in {"away", "history", "joined"}
  /\ rows \in Seq(Msgs) /\ listed \in Nat /\ listed <= Len(rows)
  /\ readAt \in Nat /\ pos \in Nat /\ readAt <= pos /\ pos <= Len(log)
  /\ \A i \in missed : i \in Nat /\ readAt < i /\ i <= pos
  /\ visible \in [Msgs -> Nat]
  /\ binding \in [Msgs -> SUBSET Rules]
  /\ missing \subseteq Events

Flag == doubt \in BOOLEAN

(* Where an event is in the log.                                           *)
At(e) == {i \in 1 .. Len(log) : log[i] = e}

(* Publish appends the event, or notes that it is missing.                 *)
LEMMA Published ==
  ASSUME Typed, NEW e \in Events, Publish(e)
  PROVE  \/ /\ log' = Append(log, e) /\ missing' = missing
            /\ log' \in Seq(Events) /\ Len(log') = Len(log) + 1
            /\ \A f : At(f)' = IF f = e THEN At(f) \cup {Len(log) + 1} ELSE At(f)
         \/ /\ log' = log /\ missing' = missing \cup {e}
            /\ \A f : At(f)' = At(f)
<1>1. CASE log' = Append(log, e) /\ missing' = missing
  <2>1. log' \in Seq(Events) /\ Len(log') = Len(log) + 1
    BY <1>1 DEF Typed
  <2>2. \A i \in 1 .. Len(log') : log'[i] = IF i = Len(log) + 1 THEN e ELSE log[i]
    BY <1>1 DEF Typed
  <2>3. ASSUME NEW f PROVE At(f)' = IF f = e THEN At(f) \cup {Len(log) + 1} ELSE At(f)
    BY <2>1, <2>2 DEF At, Typed
  <2> QED BY <1>1, <2>1, <2>3
<1>2. CASE log' = log /\ missing' = missing \cup {e}
  BY <1>2 DEF At
<1> QED BY <1>1, <1>2 DEF Publish

(* As long as nothing is published, every event stays where it is.         *)
LEMMA SameLog == ASSUME log' = log PROVE \A f : At(f)' = At(f)
  BY DEF At

(* Every statement keeps the types.                                        *)
LEMMA TypedNext == ASSUME Typed, [Next]_vars PROVE Typed'
<1> USE DEF chatVars, viewerVars, modVars, Typed
<1>1. ASSUME NEW m \in Msgs, IsBanned(m) PROVE Typed'
  BY <1>1 DEF IsBanned, Check
<1>2. ASSUME NEW m \in Msgs, IsTimedOut(m) PROVE Typed'
  BY <1>2 DEF IsTimedOut, Check
<1>3. ASSUME NEW m \in Msgs, IsChatLocked(m) PROVE Typed'
  BY <1>3 DEF IsChatLocked, Check
<1>4. ASSUME NEW m \in Msgs, CreateMessage(m) PROVE Typed'
  <2>1. rows' = rows \/ rows' = Append(rows, m)
    BY <1>4 DEF CreateMessage
  <2>2. rows' \in Seq(Msgs) /\ Len(rows) <= Len(rows')
    <3>1. rows \in Seq(Msgs)
      OBVIOUS
    <3> HIDE DEF Typed
    <3> QED BY <2>1, <3>1
  <2>3. msg' \in [Msgs -> {"none", "stored", "deleted"}]
    BY <1>4 DEF CreateMessage
  <2>4. /\ sending' \in [Msgs -> {"new", "timeout", "lock", "insert", "publish", "over"}]
        /\ missing' \subseteq Events
    BY <1>4, Kinds DEF CreateMessage
  <2>5. UNCHANGED <<rules, modVars, log, viewerVars, binding>>
    BY <1>4 DEF CreateMessage
  <2>6. /\ rules' \subseteq Rules /\ log' \in Seq(Events) /\ viewer' \in {"away", "history", "joined"}
        /\ event' \in [Mods -> Events] /\ moderating' \in [Mods -> {"new", "publish", "over"}]
        /\ visible' \in [Msgs -> Nat] /\ binding' \in [Msgs -> SUBSET Rules]
    BY <2>5
  <2>7. /\ readAt' \in Nat /\ pos' \in Nat /\ readAt' <= pos' /\ pos' <= Len(log')
        /\ \A i \in missed' : i \in Nat /\ readAt' < i /\ i <= pos'
    BY <2>5
  <2>8. listed' \in Nat /\ listed' <= Len(rows')
    BY <2>2, <2>5
  <2> QED BY <2>2, <2>3, <2>4, <2>6, <2>7, <2>8
<1>5. ASSUME NEW m \in Msgs, PublishMessage(m) PROVE Typed'
  <2>1. Message(m) \in Events /\ Publish(Message(m))
    BY <1>5, Kinds DEF PublishMessage
  <2>2. log' \in Seq(Events) /\ Len(log) <= Len(log') /\ missing' \subseteq Events
    BY <2>1, Published
  <2> QED BY <1>5, <2>2 DEF PublishMessage
<1>6. ASSUME NEW q \in Mods, NEW n \in Msgs, DeleteMessage(q, n) PROVE Typed'
  BY <1>6, Kinds DEF DeleteMessage
<1>7. ASSUME NEW q \in Mods, BanUser(q) PROVE Typed'
  BY <1>7 DEF BanUser, Request, Put, Rules
<1>8. ASSUME NEW q \in Mods, UnbanUser(q) PROVE Typed'
  BY <1>8 DEF UnbanUser, Request, Lift
<1>9. ASSUME NEW q \in Mods, TimeoutUser(q) PROVE Typed'
  BY <1>9 DEF TimeoutUser, Request, Put, Rules
<1>10. ASSUME NEW q \in Mods, RemoveTimeout(q) PROVE Typed'
  BY <1>10 DEF RemoveTimeout, Request, Lift
<1>11. CASE TimeoutExpires
  BY <1>11 DEF TimeoutExpires, Lift
<1>12. ASSUME NEW q \in Mods, NEW locked \in BOOLEAN, SetChatLocked(q, locked) PROVE Typed'
  <2>1. event' \in [Mods -> Events]
    BY <1>12, Kinds DEF SetChatLocked
  <2>2. rules' \subseteq Rules /\ binding' \in [Msgs -> SUBSET Rules]
    <3>1. \/ Put("lock") \/ Lift("lock") \/ UNCHANGED <<rules, binding>>
      BY <1>12 DEF SetChatLocked
    <3>2. CASE Put("lock")
      BY <3>2 DEF Put, Rules
    <3>3. CASE Lift("lock")
      BY <3>3 DEF Lift
    <3> QED BY <3>1, <3>2, <3>3
  <2>3. moderating' \in [Mods -> {"new", "publish", "over"}]
    BY <1>12 DEF SetChatLocked
  <2>4. UNCHANGED <<msg, rows, sending, log, viewerVars, missing>>
    BY <1>12 DEF SetChatLocked
  <2> QED BY <2>1, <2>2, <2>3, <2>4
<1>13. ASSUME NEW q \in Mods, Announce(q) PROVE Typed'
  <2>1. event[q] \in Events /\ Publish(event[q])
    BY <1>13 DEF Announce
  <2>2. log' \in Seq(Events) /\ Len(log) <= Len(log') /\ missing' \subseteq Events
    BY <2>1, Published
  <2> QED BY <1>13, <2>2 DEF Announce
<1>14. CASE ConnectHistory
  <2>1. /\ viewer' = "history" /\ UNCHANGED <<chatVars, sending, modVars, log, binding, missing>>
        /\ \/ UNCHANGED <<visible, pos, readAt, listed, missed>>
           \/ /\ visible' = [m \in Msgs |-> IF m \in Recent /\ msg[m] = "stored" THEN 1 ELSE 0]
              /\ pos' = Len(log) /\ readAt' = Len(log) /\ listed' = Len(rows) /\ missed' = {}
    BY <1>14 DEF ConnectHistory
  <2>2. Len(log) \in Nat /\ Len(rows) \in Nat
    OBVIOUS
  <2>3. visible' \in [Msgs -> Nat]
    BY <2>1
  <2>4. /\ readAt' \in Nat /\ pos' \in Nat /\ readAt' <= pos' /\ pos' <= Len(log')
        /\ \A i \in missed' : i \in Nat /\ readAt' < i /\ i <= pos'
    BY <2>1, <2>2
  <2>5. listed' \in Nat /\ listed' <= Len(rows')
    BY <2>1, <2>2
  <2> QED BY <2>1, <2>3, <2>4, <2>5
<1>15. CASE ConnectJoin
  <2>1. /\ viewer' = "joined" /\ pos' = Len(log) /\ missed' = missed \cup (pos + 1 .. Len(log))
        /\ UNCHANGED <<chatVars, sending, modVars, log, visible, readAt, listed, binding, missing>>
    BY <1>15 DEF ConnectJoin
  <2>2. Len(log) \in Nat /\ readAt <= Len(log)
    OBVIOUS
  <2>3. \A i \in missed' : i \in Nat /\ readAt < i /\ i <= Len(log)
    BY <2>1, <2>2
  <2> QED BY <2>1, <2>2, <2>3
<1>16. CASE Receive
  BY <1>16 DEF Receive
<1>17. CASE Disconnect
  BY <1>17 DEF Disconnect
<1>18. CASE UNCHANGED vars
  BY <1>18 DEF vars
<1> QED
  BY <1>1, <1>2, <1>3, <1>4, <1>5, <1>6, <1>7, <1>8, <1>9, <1>10,
     <1>11, <1>12, <1>13, <1>14, <1>15, <1>16, <1>17, <1>18
     DEF Next, SendMessage, Moderate, Connect

(* Only lock calls write the flag.                                         *)
LEMMA FlagNext == ASSUME Flag, [Next]_vars PROVE Flag'
<1> USE DEF chatVars, viewerVars, modVars, Flag
<1>1. ASSUME NEW m \in Msgs, IsBanned(m) PROVE Flag'
  BY <1>1 DEF IsBanned, Check
<1>2. ASSUME NEW m \in Msgs, IsTimedOut(m) PROVE Flag'
  BY <1>2 DEF IsTimedOut, Check
<1>3. ASSUME NEW m \in Msgs, IsChatLocked(m) PROVE Flag'
  BY <1>3 DEF IsChatLocked, Check
<1>4. ASSUME NEW m \in Msgs, CreateMessage(m) PROVE Flag'
  BY <1>4 DEF CreateMessage
<1>5. ASSUME NEW m \in Msgs, PublishMessage(m) PROVE Flag'
  BY <1>5 DEF PublishMessage
<1>6. ASSUME NEW q \in Mods, NEW n \in Msgs, DeleteMessage(q, n) PROVE Flag'
  BY <1>6 DEF DeleteMessage
<1>7. ASSUME NEW q \in Mods, BanUser(q) PROVE Flag'
  BY <1>7 DEF BanUser, Request, Put
<1>8. ASSUME NEW q \in Mods, UnbanUser(q) PROVE Flag'
  BY <1>8 DEF UnbanUser, Request, Lift
<1>9. ASSUME NEW q \in Mods, TimeoutUser(q) PROVE Flag'
  BY <1>9 DEF TimeoutUser, Request, Put
<1>10. ASSUME NEW q \in Mods, RemoveTimeout(q) PROVE Flag'
  BY <1>10 DEF RemoveTimeout, Request, Lift
<1>11. CASE TimeoutExpires
  BY <1>11 DEF TimeoutExpires, Lift
<1>12. ASSUME NEW q \in Mods, NEW locked \in BOOLEAN, SetChatLocked(q, locked) PROVE Flag'
  BY <1>12 DEF SetChatLocked, Put, Lift
<1>13. ASSUME NEW q \in Mods, Announce(q) PROVE Flag'
  BY <1>13 DEF Announce
<1>14. CASE ConnectHistory
  BY <1>14 DEF ConnectHistory
<1>15. CASE ConnectJoin
  BY <1>15 DEF ConnectJoin
<1>16. CASE Receive
  BY <1>16 DEF Receive
<1>17. CASE Disconnect
  BY <1>17 DEF Disconnect
<1>18. CASE UNCHANGED vars
  BY <1>18 DEF vars
<1> QED
  BY <1>1, <1>2, <1>3, <1>4, <1>5, <1>6, <1>7, <1>8, <1>9, <1>10,
     <1>11, <1>12, <1>13, <1>14, <1>15, <1>16, <1>17, <1>18
     DEF Next, SendMessage, Moderate, Connect

------------------------------------------------------------------------------
(* What SendMessage knows of the rules after each of its checks: a rule    *)
(* that is still in binding is in force, and none of those looked up so    *)
(* far is in binding.                                                      *)
Bound ==
  \A m \in Msgs :
    /\ sending[m] # "over" => binding[m] \subseteq rules
    /\ sending[m] \in {"timeout", "lock", "insert"} => "ban" \notin binding[m]
    /\ sending[m] \in {"lock", "insert"} => "timeout" \notin binding[m]
    /\ sending[m] = "insert" => "lock" \notin binding[m]
    /\ msg[m] # "none" \/ sending[m] = "publish" => binding[m] = {}
    /\ msg[m] # "none" => sending[m] \in {"publish", "over"}

(* A rule lifted since leaves binding, one put in force later is not in    *)
(* it.                                                                     *)
LEMMA BoundNext == ASSUME Typed, Bound, [Next]_vars PROVE Bound'
<1> USE DEF chatVars, viewerVars, modVars, Typed, Bound, Executed
<1>1. ASSUME NEW m \in Msgs, IsBanned(m) PROVE Bound'
  BY <1>1 DEF IsBanned, Check
<1>2. ASSUME NEW m \in Msgs, IsTimedOut(m) PROVE Bound'
  BY <1>2 DEF IsTimedOut, Check
<1>3. ASSUME NEW m \in Msgs, IsChatLocked(m) PROVE Bound'
  BY <1>3 DEF IsChatLocked, Check
<1>4. ASSUME NEW m \in Msgs, CreateMessage(m) PROVE Bound'
  <2>1. binding[m] = {}
    <3>1. sending[m] = "insert"
      BY <1>4 DEF CreateMessage
    <3>2. /\ binding[m] \subseteq Rules
          /\ "ban" \notin binding[m] /\ "timeout" \notin binding[m] /\ "lock" \notin binding[m]
      BY <3>1
    <3> QED BY <3>2 DEF Rules
  <2> QED BY <1>4, <2>1 DEF CreateMessage
<1>5. ASSUME NEW m \in Msgs, PublishMessage(m) PROVE Bound'
  BY <1>5 DEF PublishMessage
<1>6. ASSUME NEW q \in Mods, NEW n \in Msgs, DeleteMessage(q, n) PROVE Bound'
  BY <1>6 DEF DeleteMessage
<1>7. ASSUME NEW q \in Mods, BanUser(q) PROVE Bound'
  BY <1>7 DEF BanUser, Request, Put
<1>8. ASSUME NEW q \in Mods, UnbanUser(q) PROVE Bound'
  BY <1>8 DEF UnbanUser, Request, Lift
<1>9. ASSUME NEW q \in Mods, TimeoutUser(q) PROVE Bound'
  BY <1>9 DEF TimeoutUser, Request, Put
<1>10. ASSUME NEW q \in Mods, RemoveTimeout(q) PROVE Bound'
  BY <1>10 DEF RemoveTimeout, Request, Lift
<1>11. CASE TimeoutExpires
  BY <1>11 DEF TimeoutExpires, Lift
<1>12. ASSUME NEW q \in Mods, NEW locked \in BOOLEAN, SetChatLocked(q, locked) PROVE Bound'
  <2>1. \/ Put("lock") \/ Lift("lock") \/ UNCHANGED <<rules, binding>>
    BY <1>12 DEF SetChatLocked
  <2>2. UNCHANGED <<msg, sending>>
    BY <1>12 DEF SetChatLocked
  <2> QED BY <2>1, <2>2 DEF Put, Lift
<1>13. ASSUME NEW q \in Mods, Announce(q) PROVE Bound'
  BY <1>13 DEF Announce
<1>14. CASE ConnectHistory
  BY <1>14 DEF ConnectHistory
<1>15. CASE ConnectJoin
  BY <1>15 DEF ConnectJoin
<1>16. CASE Receive
  BY <1>16 DEF Receive
<1>17. CASE Disconnect
  BY <1>17 DEF Disconnect
<1>18. CASE UNCHANGED vars
  BY <1>18 DEF vars
<1> QED
  BY <1>1, <1>2, <1>3, <1>4, <1>5, <1>6, <1>7, <1>8, <1>9, <1>10,
     <1>11, <1>12, <1>13, <1>14, <1>15, <1>16, <1>17, <1>18
     DEF Next, SendMessage, Moderate, Connect

------------------------------------------------------------------------------
(* What is announced of deletions: the requests about to publish one, and  *)
(* what the log says of a message.                                         *)
Pending(e) == {q \in Mods : moderating[q] = "publish" /\ event[q] = e}

RemovedAt(m) ==
  /\ \A i, j \in At(Deleted(m)) : i = j
  /\ \A p, q \in Pending(Deleted(m)) : p = q
  /\ At(Deleted(m)) # {} => Pending(Deleted(m)) = {}
  /\ At(Deleted(m)) # {} \/ Pending(Deleted(m)) # {} => msg[m] = "deleted"
  /\ msg[m] = "deleted" => \/ Pending(Deleted(m)) # {}
                           \/ Deleted(m) \in missing
                           \/ At(Deleted(m)) # {}

Removed ==
  /\ \A q \in Mods : event[q] \in LockEvents \/ \E m \in Msgs : event[q] = Deleted(m)
  /\ \A m \in Msgs : RemovedAt(m)

(* What is announced of deletions depends on the log, the requests about   *)
(* to publish, and which messages are deleted.                             *)
LEMMA RemovedSame ==
  ASSUME Removed, UNCHANGED event, missing \subseteq missing',
         \/ UNCHANGED log
         \/ \A m \in Msgs : At(Deleted(m))' = At(Deleted(m)),
         \A m \in Msgs : msg'[m] = "deleted" <=> msg[m] = "deleted",
         \A q \in Mods : moderating'[q] = "publish" <=> moderating[q] = "publish"
  PROVE  Removed'
<1>1. \A m \in Msgs : At(Deleted(m))' = At(Deleted(m))
  BY SameLog
<1>2. \A m \in Msgs : Pending(Deleted(m))' = Pending(Deleted(m))
  BY DEF Pending
<1>3. \A m \in Msgs : RemovedAt(m)'
  BY <1>1, <1>2 DEF Removed, RemovedAt
<1> QED BY <1>3 DEF Removed

(* The UPDATE asks for deleted = FALSE, so one request has a deletion to   *)
(* announce.                                                               *)
LEMMA RemovedNext == ASSUME Typed, Bound, Removed, [Next]_vars PROVE Removed'
<1> USE DEF chatVars, viewerVars, modVars, Typed, Bound, Executed
<1>1. ASSUME NEW m \in Msgs, IsBanned(m) PROVE Removed'
  BY <1>1, RemovedSame DEF IsBanned, Check
<1>2. ASSUME NEW m \in Msgs, IsTimedOut(m) PROVE Removed'
  BY <1>2, RemovedSame DEF IsTimedOut, Check
<1>3. ASSUME NEW m \in Msgs, IsChatLocked(m) PROVE Removed'
  BY <1>3, RemovedSame DEF IsChatLocked, Check
<1>4. ASSUME NEW m \in Msgs, CreateMessage(m) PROVE Removed'
  BY <1>4, RemovedSame DEF CreateMessage
<1>5. ASSUME NEW m \in Msgs, PublishMessage(m) PROVE Removed'
  <2>1. missing \subseteq missing' /\ \A n \in Msgs : At(Deleted(n))' = At(Deleted(n))
    BY <1>5, Kinds, Published DEF PublishMessage
  <2>2. UNCHANGED <<msg, event, moderating>>
    BY <1>5 DEF PublishMessage
  <2> QED BY <2>1, <2>2, RemovedSame
<1>6. ASSUME NEW q \in Mods, NEW n \in Msgs, DeleteMessage(q, n) PROVE Removed'
  <2>1. moderating[q] = "new" /\ msg[n] = "stored" /\ event' = [event EXCEPT ![q] = Deleted(n)]
        /\ log' = log /\ missing \subseteq missing'
    BY <1>6 DEF DeleteMessage
  <2>2. \A k \in Msgs : At(Deleted(k))' = At(Deleted(k))
    BY <2>1, SameLog
  <2>3. \A k \in Msgs : q \notin Pending(Deleted(k))
    BY <2>1 DEF Pending
  <2>4. At(Deleted(n)) = {} /\ Pending(Deleted(n)) = {}
    BY <2>1 DEF Removed, RemovedAt
  <2>5. ASSUME NEW k \in Msgs, k # n
        PROVE  Pending(Deleted(k))' = Pending(Deleted(k)) /\ msg'[k] = msg[k]
    <3>1. Deleted(k) # Deleted(n)
      BY <2>5, Kinds
    <3>2. \A p \in Mods : p # q => moderating'[p] = moderating[p] /\ event'[p] = event[p]
      BY <1>6 DEF DeleteMessage
    <3>3. Pending(Deleted(k))' = Pending(Deleted(k))
      BY <2>1, <2>3, <3>1, <3>2 DEF Pending
    <3> QED BY <1>6, <2>5, <3>3 DEF DeleteMessage
  <2>6. /\ Pending(Deleted(n))' \subseteq {q}
        /\ Pending(Deleted(n))' # {} => msg'[n] = "deleted"
        /\ msg'[n] = "deleted" => Pending(Deleted(n))' # {} \/ Deleted(n) \in missing'
    <3>1. \A p \in Mods : p # q => moderating'[p] = moderating[p] /\ event'[p] = event[p]
      BY <1>6 DEF DeleteMessage
    <3>2. Pending(Deleted(n))' = IF moderating'[q] = "publish" THEN {q} ELSE {}
      BY <2>1, <2>4, <3>1 DEF Pending
    <3>3. /\ moderating'[q] = "publish" => msg'[n] = "deleted"
          /\ msg'[n] = "deleted" => moderating'[q] = "publish" \/ Deleted(n) \in missing'
      BY <1>6 DEF DeleteMessage
    <3> QED BY <3>2, <3>3
  <2>7. ASSUME NEW k \in Msgs PROVE RemovedAt(k)'
    <3>1. CASE k = n
      BY <2>2, <2>4, <2>6, <3>1 DEF RemovedAt
    <3>2. CASE k # n
      <4>1. RemovedAt(k)
        BY DEF Removed
      <4>2. Deleted(k) \in missing => Deleted(k) \in missing'
        BY <2>1
      <4> QED BY <2>2, <2>5, <3>2, <4>1, <4>2 DEF RemovedAt
    <3> QED BY <3>1, <3>2
  <2>8. \A p \in Mods : event'[p] \in LockEvents \/ \E k \in Msgs : event'[p] = Deleted(k)
    BY <2>1 DEF Removed
  <2> QED BY <2>7, <2>8 DEF Removed
<1>7. ASSUME NEW q \in Mods, BanUser(q) PROVE Removed'
  BY <1>7, RemovedSame DEF BanUser, Request, Put
<1>8. ASSUME NEW q \in Mods, UnbanUser(q) PROVE Removed'
  BY <1>8, RemovedSame DEF UnbanUser, Request, Lift
<1>9. ASSUME NEW q \in Mods, TimeoutUser(q) PROVE Removed'
  BY <1>9, RemovedSame DEF TimeoutUser, Request, Put
<1>10. ASSUME NEW q \in Mods, RemoveTimeout(q) PROVE Removed'
  BY <1>10, RemovedSame DEF RemoveTimeout, Request, Lift
<1>11. CASE TimeoutExpires
  BY <1>11, RemovedSame DEF TimeoutExpires, Lift
<1>12. ASSUME NEW q \in Mods, NEW locked \in BOOLEAN, SetChatLocked(q, locked) PROVE Removed'
  <2>1. moderating[q] = "new" /\ UNCHANGED <<log, msg, missing>>
    BY <1>12 DEF SetChatLocked
  <2>2. /\ event'[q] \in LockEvents
        /\ \A p \in Mods : p # q => moderating'[p] = moderating[p] /\ event'[p] = event[p]
    BY <1>12, Kinds DEF SetChatLocked
  <2>3. ASSUME NEW k \in Msgs PROVE Pending(Deleted(k))' = Pending(Deleted(k))
    BY <2>1, <2>2, Kinds DEF Pending
  <2>4. \A k \in Msgs : At(Deleted(k))' = At(Deleted(k))
    BY <2>1, SameLog
  <2>5. ASSUME NEW k \in Msgs PROVE RemovedAt(k)'
    <3>1. RemovedAt(k)
      BY DEF Removed
    <3> QED BY <2>1, <2>3, <2>4, <3>1 DEF RemovedAt
  <2>6. ASSUME NEW p \in Mods
        PROVE  event'[p] \in LockEvents \/ \E k \in Msgs : event'[p] = Deleted(k)
    <3>1. CASE p = q
      BY <2>2, <3>1
    <3>2. CASE p # q
      BY <2>2, <3>2 DEF Removed
    <3> QED BY <3>1, <3>2
  <2> QED BY <2>5, <2>6 DEF Removed
<1>13. ASSUME NEW q \in Mods, Announce(q) PROVE Removed'
  <2>1. event[q] \in Events /\ Publish(event[q])
    BY <1>13 DEF Announce
  <2>2. /\ UNCHANGED <<msg, event>>
        /\ moderating[q] = "publish" /\ moderating' = [moderating EXCEPT ![q] = "over"]
    BY <1>13 DEF Announce
  <2>3. \A k \in Msgs : Pending(Deleted(k))' = Pending(Deleted(k)) \ {q}
    BY <2>2 DEF Pending
  <2>4. \A k \in Msgs : q \in Pending(Deleted(k)) <=> event[q] = Deleted(k)
    BY <2>2 DEF Pending
  <2>5. ASSUME NEW k \in Msgs PROVE RemovedAt(k)'
    <3>1. RemovedAt(k)
      BY DEF Removed
    <3>2. CASE event[q] # Deleted(k)
      <4>1. At(Deleted(k))' = At(Deleted(k)) /\ missing \subseteq missing'
        BY <2>1, <3>2, Published
      <4>2. Pending(Deleted(k))' = Pending(Deleted(k))
        BY <2>3, <2>4, <3>2
      <4> QED BY <2>2, <3>1, <4>1, <4>2 DEF RemovedAt
    <3>3. CASE event[q] = Deleted(k)
      <4>1. Pending(Deleted(k)) = {q} /\ At(Deleted(k)) = {} /\ msg[k] = "deleted"
        BY <2>4, <3>1, <3>3 DEF RemovedAt
      <4>2. \/ At(Deleted(k))' = {Len(log) + 1}
            \/ At(Deleted(k))' = {} /\ Deleted(k) \in missing'
        <5>1. Deleted(k) \in Events /\ Publish(Deleted(k))
          BY <2>1, <3>3
        <5>2. \/ At(Deleted(k))' = At(Deleted(k)) \cup {Len(log) + 1}
              \/ At(Deleted(k))' = At(Deleted(k)) /\ missing' = missing \cup {Deleted(k)}
          BY <5>1, Published
        <5> QED BY <4>1, <5>2
      <4>3. Pending(Deleted(k))' = {}
        BY <2>3, <4>1
      <4> QED BY <2>2, <4>1, <4>2, <4>3 DEF RemovedAt
    <3> QED BY <3>2, <3>3
  <2>6. \A p \in Mods : event'[p] \in LockEvents \/ \E k \in Msgs : event'[p] = Deleted(k)
    BY <2>2 DEF Removed
  <2> QED BY <2>5, <2>6 DEF Removed
<1>14. CASE ConnectHistory
  BY <1>14, RemovedSame DEF ConnectHistory
<1>15. CASE ConnectJoin
  BY <1>15, RemovedSame DEF ConnectJoin
<1>16. CASE Receive
  BY <1>16, RemovedSame DEF Receive
<1>17. CASE Disconnect
  BY <1>17, RemovedSame DEF Disconnect
<1>18. CASE UNCHANGED vars
  BY <1>18, RemovedSame DEF vars
<1> QED
  BY <1>1, <1>2, <1>3, <1>4, <1>5, <1>6, <1>7, <1>8, <1>9, <1>10,
     <1>11, <1>12, <1>13, <1>14, <1>15, <1>16, <1>17, <1>18
     DEF Next, SendMessage, Moderate, Connect

------------------------------------------------------------------------------
(* What is announced of messages: each once, by the request that stored    *)
(* it, or it is known to be missing.                                       *)
Sent ==
  \A m \in Msgs :
    /\ \A i, j \in At(Message(m)) : i = j
    /\ At(Message(m)) # {} => sending[m] = "over"
    /\ sending[m] = "publish" => msg[m] # "none"
    /\ msg[m] # "none" => \/ sending[m] = "publish"
                          \/ Message(m) \in missing
                          \/ At(Message(m)) # {}

(* A message is published after it is stored.                              *)
LEMMA SentNext == ASSUME Typed, Bound, Removed, Sent, [Next]_vars PROVE Sent'
<1> USE DEF chatVars, viewerVars, modVars, Typed, Bound, Sent, Executed
<1>1. ASSUME NEW m \in Msgs, IsBanned(m) PROVE Sent'
  BY <1>1, SameLog DEF IsBanned, Check
<1>2. ASSUME NEW m \in Msgs, IsTimedOut(m) PROVE Sent'
  BY <1>2, SameLog DEF IsTimedOut, Check
<1>3. ASSUME NEW m \in Msgs, IsChatLocked(m) PROVE Sent'
  BY <1>3, SameLog DEF IsChatLocked, Check
<1>4. ASSUME NEW m \in Msgs, CreateMessage(m) PROVE Sent'
  BY <1>4, Kinds, SameLog DEF CreateMessage
<1>5. ASSUME NEW m \in Msgs, PublishMessage(m) PROVE Sent'
  <2>1. /\ Publish(Message(m)) /\ msg' = msg
        /\ sending[m] = "publish" /\ sending' = [sending EXCEPT ![m] = "over"]
    BY <1>5 DEF PublishMessage
  <2>2. At(Message(m)) = {}
    BY <2>1
  <2>3. \/ At(Message(m))' = {Len(log) + 1}
        \/ At(Message(m))' = {} /\ Message(m) \in missing'
    <3>1. Message(m) \in Events
      BY Kinds
    <3> HIDE DEF Sent, Bound
    <3> QED BY <2>1, <2>2, <3>1, Published
  <2>4. ASSUME NEW n \in Msgs, n # m
        PROVE  /\ At(Message(n))' = At(Message(n))
               /\ Message(n) \in missing => Message(n) \in missing'
    <3>1. Message(n) # Message(m) /\ Message(m) \in Events
      BY <2>4, Kinds
    <3> QED BY <2>1, <3>1, Published
  <2>5. ASSUME NEW n \in Msgs
        PROVE  /\ \A i, j \in At(Message(n))' : i = j
               /\ At(Message(n))' # {} => sending'[n] = "over"
               /\ sending'[n] = "publish" => msg'[n] # "none"
               /\ msg'[n] # "none" => \/ sending'[n] = "publish"
                                     \/ Message(n) \in missing'
                                     \/ At(Message(n))' # {}
    <3>1. CASE n = m
      <4>1. sending'[m] = "over"
        BY <2>1
      <4>2. \A i, j \in At(Message(m))' : i = j
        BY <2>3
      <4>3. Message(m) \in missing' \/ At(Message(m))' # {}
        BY <2>3
      <4> HIDE DEF Sent
      <4> QED BY <3>1, <4>1, <4>2, <4>3
    <3>2. CASE n # m
      BY <2>1, <2>4, <3>2
    <3> QED BY <3>1, <3>2
  <2> QED BY <2>5
<1>6. ASSUME NEW q \in Mods, NEW n \in Msgs, DeleteMessage(q, n) PROVE Sent'
  BY <1>6, SameLog DEF DeleteMessage
<1>7. ASSUME NEW q \in Mods, BanUser(q) PROVE Sent'
  BY <1>7, SameLog DEF BanUser, Request, Put
<1>8. ASSUME NEW q \in Mods, UnbanUser(q) PROVE Sent'
  BY <1>8, SameLog DEF UnbanUser, Request, Lift
<1>9. ASSUME NEW q \in Mods, TimeoutUser(q) PROVE Sent'
  BY <1>9, SameLog DEF TimeoutUser, Request, Put
<1>10. ASSUME NEW q \in Mods, RemoveTimeout(q) PROVE Sent'
  BY <1>10, SameLog DEF RemoveTimeout, Request, Lift
<1>11. CASE TimeoutExpires
  BY <1>11, SameLog DEF TimeoutExpires, Lift
<1>12. ASSUME NEW q \in Mods, NEW locked \in BOOLEAN, SetChatLocked(q, locked) PROVE Sent'
  BY <1>12, SameLog DEF SetChatLocked, Put, Lift
<1>13. ASSUME NEW q \in Mods, Announce(q) PROVE Sent'
  <2>1. event[q] \in Events /\ Publish(event[q]) /\ UNCHANGED <<sending, msg>>
    BY <1>13 DEF Announce
  <2>2. \A n \in Msgs : event[q] # Message(n)
    BY Kinds DEF Removed
  <2>3. \A n \in Msgs : /\ At(Message(n))' = At(Message(n))
                        /\ Message(n) \in missing => Message(n) \in missing'
    BY <2>1, <2>2, Published
  <2> QED BY <2>1, <2>3
<1>14. CASE ConnectHistory
  BY <1>14, SameLog DEF ConnectHistory
<1>15. CASE ConnectJoin
  BY <1>15, SameLog DEF ConnectJoin
<1>16. CASE Receive
  BY <1>16, SameLog DEF Receive
<1>17. CASE Disconnect
  BY <1>17, SameLog DEF Disconnect
<1>18. CASE UNCHANGED vars
  BY <1>18, SameLog DEF vars
<1> QED
  BY <1>1, <1>2, <1>3, <1>4, <1>5, <1>6, <1>7, <1>8, <1>9, <1>10,
     <1>11, <1>12, <1>13, <1>14, <1>15, <1>16, <1>17, <1>18
     DEF Next, SendMessage, Moderate, Connect

------------------------------------------------------------------------------
(* The lock: unless lock calls overlapped or failed, at most one is        *)
(* between its UPDATE and its event, and the row says what that event, or  *)
(* else the last one in the log, says.                                     *)
Locking == {i \in 1 .. Len(log) : log[i] \in LockEvents}
LastSays(locked) ==
  IF Locking = {} THEN ~ locked
  ELSE \E i \in Locking : /\ \A j \in Locking : j <= i
                          /\ locked <=> log[i] = <<"chat_locked">>

Locks ==
  \/ doubt
  \/ PendingLock = {} /\ LastSays("lock" \in rules)
  \/ \E q \in Mods : /\ PendingLock = {q}
                     /\ "lock" \in rules <=> event[q] = <<"chat_locked">>

(* What the last lock event says depends on the lock events in the log     *)
(* only.                                                                   *)
LEMMA LockAppended ==
  ASSUME Typed, NEW e, log' = Append(log, e)
  PROVE  /\ e \in LockEvents => /\ Locking' = Locking \cup {Len(log) + 1}
                                /\ \A i \in Locking : i < Len(log) + 1
                                /\ log'[Len(log) + 1] = e
         /\ e \notin LockEvents => Locking' = Locking /\ \A i \in Locking : log'[i] = log[i]
<1>1. Len(log) \in Nat /\ Len(log') = Len(log) + 1
  BY DEF Typed
<1>2. \A i \in 1 .. Len(log) + 1 : log'[i] = IF i = Len(log) + 1 THEN e ELSE log[i]
  BY DEF Typed
<1> QED BY <1>1, <1>2 DEF Locking

LEMMA LocksSame ==
  ASSUME Typed, Locks, PendingLock' = PendingLock, doubt' = doubt,
         \A q \in PendingLock : event'[q] = event[q],
         "lock" \in rules' <=> "lock" \in rules,
         \/ UNCHANGED log
         \/ \E e : e \notin LockEvents /\ log' = Append(log, e)
  PROVE  Locks'
<1>1. Locking' = Locking /\ \A i \in Locking : log'[i] = log[i]
  BY LockAppended DEF Locking
<1>2. LastSays("lock" \in rules) => LastSays("lock" \in rules)'
  BY <1>1 DEF LastSays
<1> QED BY <1>2 DEF Locks

(* Lock calls that do not overlap announce in the order of their updates.  *)
LEMMA LocksNext == ASSUME Typed, Flag, Removed, Locks, [Next]_vars PROVE Locks'
<1> USE DEF chatVars, viewerVars, modVars, Typed, Executed
<1>1. ASSUME NEW m \in Msgs, IsBanned(m) PROVE Locks'
  <2>1. PendingLock' = PendingLock /\ UNCHANGED <<event, log, doubt>>
    BY <1>1 DEF IsBanned, Check, PendingLock
  <2>2. "lock" \in rules' <=> "lock" \in rules
    BY <1>1 DEF IsBanned, Check
  <2> QED BY <2>1, <2>2, LocksSame
<1>2. ASSUME NEW m \in Msgs, IsTimedOut(m) PROVE Locks'
  <2>1. PendingLock' = PendingLock /\ UNCHANGED <<event, log, doubt>>
    BY <1>2 DEF IsTimedOut, Check, PendingLock
  <2>2. "lock" \in rules' <=> "lock" \in rules
    BY <1>2 DEF IsTimedOut, Check
  <2> QED BY <2>1, <2>2, LocksSame
<1>3. ASSUME NEW m \in Msgs, IsChatLocked(m) PROVE Locks'
  <2>1. PendingLock' = PendingLock /\ UNCHANGED <<event, log, doubt>>
    BY <1>3 DEF IsChatLocked, Check, PendingLock
  <2>2. "lock" \in rules' <=> "lock" \in rules
    BY <1>3 DEF IsChatLocked, Check
  <2> QED BY <2>1, <2>2, LocksSame
<1>4. ASSUME NEW m \in Msgs, CreateMessage(m) PROVE Locks'
  <2>1. PendingLock' = PendingLock /\ UNCHANGED <<event, log, doubt>>
    BY <1>4 DEF CreateMessage, PendingLock
  <2>2. "lock" \in rules' <=> "lock" \in rules
    BY <1>4 DEF CreateMessage
  <2> QED BY <2>1, <2>2, LocksSame
<1>5. ASSUME NEW m \in Msgs, PublishMessage(m) PROVE Locks'
  <2>1. PendingLock' = PendingLock /\ UNCHANGED <<event, rules, doubt>>
    BY <1>5 DEF PublishMessage, PendingLock
  <2>2. UNCHANGED log \/ log' = Append(log, Message(m))
    BY <1>5 DEF PublishMessage, Publish
  <2>3. Message(m) \notin LockEvents
    BY Kinds
  <2> QED BY <2>1, <2>2, <2>3, LocksSame
<1>6. ASSUME NEW q \in Mods, NEW n \in Msgs, DeleteMessage(q, n) PROVE Locks'
  <2>1. /\ moderating[q] = "new" /\ event'[q] = Deleted(n) /\ UNCHANGED <<log, rules, doubt>>
        /\ \A p \in Mods : p # q => moderating'[p] = moderating[p] /\ event'[p] = event[p]
    BY <1>6 DEF DeleteMessage
  <2>2. Deleted(n) \notin LockEvents
    BY Kinds
  <2>3. PendingLock' = PendingLock /\ \A p \in PendingLock : event'[p] = event[p]
    BY <2>1, <2>2 DEF PendingLock
  <2> QED BY <2>1, <2>3, LocksSame
<1>7. ASSUME NEW q \in Mods, BanUser(q) PROVE Locks'
  <2>1. PendingLock' = PendingLock /\ UNCHANGED <<event, log, doubt>>
    BY <1>7 DEF BanUser, Request, Put, PendingLock
  <2>2. "lock" \in rules' <=> "lock" \in rules
    BY <1>7 DEF BanUser, Request, Put
  <2> QED BY <2>1, <2>2, LocksSame
<1>8. ASSUME NEW q \in Mods, UnbanUser(q) PROVE Locks'
  <2>1. PendingLock' = PendingLock /\ UNCHANGED <<event, log, doubt>>
    BY <1>8 DEF UnbanUser, Request, Lift, PendingLock
  <2>2. "lock" \in rules' <=> "lock" \in rules
    BY <1>8 DEF UnbanUser, Request, Lift
  <2> QED BY <2>1, <2>2, LocksSame
<1>9. ASSUME NEW q \in Mods, TimeoutUser(q) PROVE Locks'
  <2>1. PendingLock' = PendingLock /\ UNCHANGED <<event, log, doubt>>
    BY <1>9 DEF TimeoutUser, Request, Put, PendingLock
  <2>2. "lock" \in rules' <=> "lock" \in rules
    BY <1>9 DEF TimeoutUser, Request, Put
  <2> QED BY <2>1, <2>2, LocksSame
<1>10. ASSUME NEW q \in Mods, RemoveTimeout(q) PROVE Locks'
  <2>1. PendingLock' = PendingLock /\ UNCHANGED <<event, log, doubt>>
    BY <1>10 DEF RemoveTimeout, Request, Lift, PendingLock
  <2>2. "lock" \in rules' <=> "lock" \in rules
    BY <1>10 DEF RemoveTimeout, Request, Lift
  <2> QED BY <2>1, <2>2, LocksSame
<1>11. CASE TimeoutExpires
  <2>1. PendingLock' = PendingLock /\ UNCHANGED <<event, log, doubt>>
    BY <1>11 DEF TimeoutExpires, Lift, PendingLock
  <2>2. "lock" \in rules' <=> "lock" \in rules
    BY <1>11 DEF TimeoutExpires, Lift
  <2> QED BY <2>1, <2>2, LocksSame
<1>12. ASSUME NEW q \in Mods, NEW locked \in BOOLEAN, SetChatLocked(q, locked) PROVE Locks'
  <2>1. PICK o \in Outcomes("db") :
          /\ IF Executed(o) THEN IF locked THEN Put("lock") ELSE Lift("lock")
                            ELSE UNCHANGED <<rules, binding>>
          /\ moderating' = [moderating EXCEPT ![q] = IF o = "ok" THEN "publish" ELSE "over"]
          /\ doubt' = (PendingLock # {} \/ o = "lost" \/ (doubt /\ o = "err"))
    BY <1>12 DEF SetChatLocked
  <2>2. o \in {"ok", "err", "lost"}
    BY DEF Outcomes
  <2>3. /\ moderating[q] = "new" /\ log' = log
        /\ event' = [event EXCEPT ![q] = IF locked THEN <<"chat_locked">> ELSE <<"chat_unlocked">>]
    BY <1>12 DEF SetChatLocked
  <2>4. CASE PendingLock # {} \/ o = "lost" \/ (doubt /\ o = "err")
    BY <2>1, <2>4 DEF Locks
  <2>5. CASE PendingLock = {} /\ o = "ok"
    <3>1. event'[q] \in LockEvents /\ (locked <=> event'[q] = <<"chat_locked">>)
      BY <2>3, Kinds
    <3>2. PendingLock' = {q}
      BY <2>1, <2>3, <2>5, <3>1 DEF PendingLock
    <3>3. "lock" \in rules' <=> locked
      BY <2>1, <2>5 DEF Put, Lift
    <3> QED BY <3>1, <3>2, <3>3 DEF Locks
  <2>6. CASE PendingLock = {} /\ o = "err" /\ ~ doubt
    <3>1. UNCHANGED rules
      BY <2>1, <2>6
    <3>2. PendingLock' = {}
      BY <2>1, <2>3, <2>6 DEF PendingLock
    <3>3. LastSays("lock" \in rules)
      BY <2>6 DEF Locks
    <3> QED BY <2>3, <3>1, <3>2, <3>3 DEF Locks, LastSays, Locking
  <2> QED BY <2>2, <2>4, <2>5, <2>6
<1>13. ASSUME NEW q \in Mods, Announce(q) PROVE Locks'
  <2>1. /\ moderating[q] = "publish" /\ moderating' = [moderating EXCEPT ![q] = "over"]
        /\ doubt' = (doubt \/ (event[q] \in LockEvents /\ log' = log))
        /\ UNCHANGED <<event, rules>>
        /\ UNCHANGED log \/ log' = Append(log, event[q])
    BY <1>13 DEF Announce, Publish
  <2>2. CASE event[q] \notin LockEvents
    <3>1. PendingLock' = PendingLock
      BY <2>1, <2>2 DEF PendingLock
    <3>2. doubt' = doubt
      BY <2>1, <2>2 DEF Flag
    <3> QED BY <2>1, <2>2, <3>1, <3>2, LocksSame
  <2>3. CASE event[q] \in LockEvents
    <3>1. CASE doubt \/ log' = log
      BY <2>1, <2>3, <3>1 DEF Locks
    <3>2. CASE ~ doubt /\ log' # log
      <4>1. q \in PendingLock /\ PendingLock' = PendingLock \ {q}
        BY <2>1, <2>3 DEF PendingLock
      <4>2. PendingLock' = {} /\ ("lock" \in rules <=> event[q] = <<"chat_locked">>)
        BY <3>2, <4>1 DEF Locks
      <4>3. LastSays("lock" \in rules)'
        <5>1. /\ Locking' = Locking \cup {Len(log) + 1} /\ \A i \in Locking : i < Len(log) + 1
              /\ log'[Len(log) + 1] = event[q]
          BY <2>1, <2>3, <3>2, LockAppended
        <5>2. Len(log) \in Nat /\ \A j \in Locking' : j <= Len(log) + 1
          <6>1. log \in Seq(Events)
            OBVIOUS
          <6> HIDE DEF Typed
          <6>2. Len(log) \in Nat /\ Locking \subseteq 1 .. Len(log)
            BY <6>1 DEF Locking
          <6> QED BY <5>1, <6>2
        <5>3. /\ Len(log) + 1 \in Locking'
              /\ "lock" \in rules' <=> log'[Len(log) + 1] = <<"chat_locked">>
          BY <2>1, <4>2, <5>1
        <5> QED BY <5>2, <5>3 DEF LastSays
      <4> QED BY <4>2, <4>3 DEF Locks
    <3> QED BY <3>1, <3>2
  <2> QED BY <2>2, <2>3
<1>14. CASE ConnectHistory
  <2>1. PendingLock' = PendingLock /\ UNCHANGED <<event, log, doubt>>
    BY <1>14 DEF ConnectHistory, PendingLock
  <2>2. "lock" \in rules' <=> "lock" \in rules
    BY <1>14 DEF ConnectHistory
  <2> QED BY <2>1, <2>2, LocksSame
<1>15. CASE ConnectJoin
  <2>1. PendingLock' = PendingLock /\ UNCHANGED <<event, log, doubt>>
    BY <1>15 DEF ConnectJoin, PendingLock
  <2>2. "lock" \in rules' <=> "lock" \in rules
    BY <1>15 DEF ConnectJoin
  <2> QED BY <2>1, <2>2, LocksSame
<1>16. CASE Receive
  <2>1. PendingLock' = PendingLock /\ UNCHANGED <<event, log, doubt>>
    BY <1>16 DEF Receive, PendingLock
  <2>2. "lock" \in rules' <=> "lock" \in rules
    BY <1>16 DEF Receive
  <2> QED BY <2>1, <2>2, LocksSame
<1>17. CASE Disconnect
  <2>1. PendingLock' = PendingLock /\ UNCHANGED <<event, log, doubt>>
    BY <1>17 DEF Disconnect, PendingLock
  <2>2. "lock" \in rules' <=> "lock" \in rules
    BY <1>17 DEF Disconnect
  <2> QED BY <2>1, <2>2, LocksSame
<1>18. CASE UNCHANGED vars
  <2>1. PendingLock' = PendingLock /\ UNCHANGED <<event, log, doubt>>
    BY <1>18 DEF vars, PendingLock
  <2>2. "lock" \in rules' <=> "lock" \in rules
    BY <1>18 DEF vars
  <2> QED BY <2>1, <2>2, LocksSame
<1> QED
  BY <1>1, <1>2, <1>3, <1>4, <1>5, <1>6, <1>7, <1>8, <1>9, <1>10,
     <1>11, <1>12, <1>13, <1>14, <1>15, <1>16, <1>17, <1>18
     DEF Next, SendMessage, Moderate, Connect

------------------------------------------------------------------------------
(* Every message that was stored has its row in the order of created_at.   *)
Row(m) == {i \in 1 .. Len(rows) : rows[i] = m}
Kept == \A m \in Msgs : msg[m] # "none" => Row(m) # {}

(* Only the INSERT writes a row, after the others.                         *)
LEMMA Inserted ==
  ASSUME Typed, NEW m \in Msgs, CreateMessage(m)
  PROVE  /\ \/ /\ rows' = rows /\ msg' = msg
            \/ /\ rows' = Append(rows, m) /\ msg' = [msg EXCEPT ![m] = "stored"]
               /\ rows' \in Seq(Msgs) /\ Len(rows') = Len(rows) + 1
               /\ Len(rows) + 1 \in Row(m)'
         /\ \A n : Row(n) \subseteq Row(n)'
<1>1. CASE rows' = rows /\ msg' = msg
  BY <1>1 DEF Row
<1>2. CASE rows' = Append(rows, m) /\ msg' = [msg EXCEPT ![m] = "stored"]
  <2>1. rows' \in Seq(Msgs) /\ Len(rows') = Len(rows) + 1
    BY <1>2 DEF Typed
  <2>2. \A i \in 1 .. Len(rows) + 1 : rows'[i] = IF i = Len(rows) + 1 THEN m ELSE rows[i]
    BY <1>2 DEF Typed
  <2>3. Len(rows) \in Nat
    BY DEF Typed
  <2>4. Len(rows) + 1 \in Row(m)'
    BY <2>1, <2>2, <2>3 DEF Row
  <2>5. \A n : Row(n) \subseteq Row(n)'
    BY <2>1, <2>2, <2>3 DEF Row
  <2> QED BY <1>2, <2>1, <2>4, <2>5
<1> QED BY <1>1, <1>2 DEF CreateMessage

LEMMA KeptNext == ASSUME Typed, Kept, [Next]_vars PROVE Kept'
<1> USE DEF chatVars, viewerVars, modVars, Typed, Kept
<1>0. ASSUME rows' = rows, \A m \in Msgs : msg'[m] # "none" => msg[m] # "none" PROVE Kept'
  BY <1>0 DEF Row
<1>1. ASSUME NEW m \in Msgs, IsBanned(m) PROVE Kept'
  BY <1>0, <1>1 DEF IsBanned, Check
<1>2. ASSUME NEW m \in Msgs, IsTimedOut(m) PROVE Kept'
  BY <1>0, <1>2 DEF IsTimedOut, Check
<1>3. ASSUME NEW m \in Msgs, IsChatLocked(m) PROVE Kept'
  BY <1>0, <1>3 DEF IsChatLocked, Check
<1>4. ASSUME NEW m \in Msgs, CreateMessage(m) PROVE Kept'
  <2>1. CASE rows' = rows /\ msg' = msg
    BY <1>0, <2>1
  <2>2. CASE msg' = [msg EXCEPT ![m] = "stored"] /\ Row(m)' # {}
    <3>1. ASSUME NEW n \in Msgs, msg'[n] # "none" PROVE Row(n)' # {}
      <4>1. CASE n = m
        BY <2>2, <4>1
      <4>2. CASE n # m
        BY <1>4, <2>2, <3>1, <4>2, Inserted
      <4> QED BY <4>1, <4>2
    <3> QED BY <3>1
  <2> QED BY <1>4, <2>1, <2>2, Inserted
<1>5. ASSUME NEW m \in Msgs, PublishMessage(m) PROVE Kept'
  BY <1>0, <1>5 DEF PublishMessage
<1>6. ASSUME NEW q \in Mods, NEW n \in Msgs, DeleteMessage(q, n) PROVE Kept'
  BY <1>0, <1>6 DEF DeleteMessage
<1>7. ASSUME NEW q \in Mods, BanUser(q) PROVE Kept'
  BY <1>0, <1>7 DEF BanUser, Request, Put
<1>8. ASSUME NEW q \in Mods, UnbanUser(q) PROVE Kept'
  BY <1>0, <1>8 DEF UnbanUser, Request, Lift
<1>9. ASSUME NEW q \in Mods, TimeoutUser(q) PROVE Kept'
  BY <1>0, <1>9 DEF TimeoutUser, Request, Put
<1>10. ASSUME NEW q \in Mods, RemoveTimeout(q) PROVE Kept'
  BY <1>0, <1>10 DEF RemoveTimeout, Request, Lift
<1>11. CASE TimeoutExpires
  BY <1>0, <1>11 DEF TimeoutExpires, Lift
<1>12. ASSUME NEW q \in Mods, NEW locked \in BOOLEAN, SetChatLocked(q, locked) PROVE Kept'
  BY <1>0, <1>12 DEF SetChatLocked, Put, Lift
<1>13. ASSUME NEW q \in Mods, Announce(q) PROVE Kept'
  BY <1>0, <1>13 DEF Announce
<1>14. CASE ConnectHistory
  BY <1>0, <1>14 DEF ConnectHistory
<1>15. CASE ConnectJoin
  BY <1>0, <1>15 DEF ConnectJoin
<1>16. CASE Receive
  BY <1>0, <1>16 DEF Receive
<1>17. CASE Disconnect
  BY <1>0, <1>17 DEF Disconnect
<1>18. CASE UNCHANGED vars
  BY <1>0, <1>18 DEF vars
<1> QED
  BY <1>1, <1>2, <1>3, <1>4, <1>5, <1>6, <1>7, <1>8, <1>9, <1>10,
     <1>11, <1>12, <1>13, <1>14, <1>15, <1>16, <1>17, <1>18
     DEF Next, SendMessage, Moderate, Connect

------------------------------------------------------------------------------
(* The viewer: an event it has not seen is one it missed since its last    *)
(* history, or is still to come. A message it lacks is one of those, or    *)
(* was too old for the history; the deletion of a message it shows is one  *)
(* of those, unless the message came after.                                *)
Unseen(i) == i \in missed \/ i > pos
Old(m) == \E i \in Row(m) : i + HistoryLimit <= listed

ShownAt(m) ==
  /\ visible[m] <= 2
  /\ visible[m] = 2 => \E i \in At(Message(m)) : readAt < i /\ i <= pos /\ i \notin missed
  /\ visible[m] = 0 /\ msg[m] = "stored" => Old(m) \/ \A i \in At(Message(m)) : Unseen(i)
  /\ visible[m] > 0 => \A d \in At(Deleted(m)) : Unseen(d) \/ \E i \in At(Message(m)) : d < i

Shown == \A m \in Msgs : ShownAt(m)

(* What the viewer shows is about the past: an event that is published now *)
(* is one the viewer has not seen yet.                                     *)
LEMMA ShownSame ==
  ASSUME Shown, UNCHANGED <<log, pos, visible, readAt, listed, missed>>,
         \A m \in Msgs : Row(m) \subseteq Row(m)',
         \A m \in Msgs : msg'[m] = "stored" => msg[m] = "stored" \/ At(Message(m)) = {}
  PROVE  Shown'
<1>1. \A f : At(f)' = At(f)
  BY SameLog
<1>2. \A i : Unseen(i)' <=> Unseen(i)
  BY DEF Unseen
<1>3. \A m \in Msgs : Old(m) => Old(m)'
  BY DEF Old
<1>4. ASSUME NEW m \in Msgs PROVE ShownAt(m)'
  <2>1. ShownAt(m)
    BY DEF Shown
  <2> QED BY <1>1, <1>2, <1>3, <2>1 DEF ShownAt
<1> QED BY <1>4 DEF Shown

LEMMA ShownPublished ==
  ASSUME Typed, Shown, NEW e \in Events, Publish(e), UNCHANGED <<msg, rows, viewerVars>>
  PROVE  Shown'
<1> PICK k \in Nat : k = Len(log) + 1
  BY DEF Typed
<1>1. UNCHANGED <<pos, visible, readAt, listed, missed>>
  BY DEF viewerVars
<1>2. \A f : At(f) \subseteq At(f)' /\ At(f)' \subseteq At(f) \cup {k}
  BY Published
<1>3. Unseen(k)'
  BY <1>1 DEF Unseen, Typed
<1>4. \A i : Unseen(i)' <=> Unseen(i)
  BY <1>1 DEF Unseen
<1>5. \A m \in Msgs : Old(m) => Old(m)'
  BY <1>1 DEF Old, Row
<1>6. ASSUME NEW m \in Msgs PROVE ShownAt(m)'
  <2>1. ShownAt(m)
    BY DEF Shown
  <2> QED BY <1>1, <1>2, <1>3, <1>4, <1>5, <2>1 DEF ShownAt
<1> QED BY <1>6 DEF Shown

(* The rows that a history leaves out are the old ones.                    *)
LEMMA HistoryShows ==
  ASSUME Typed, Kept, Removed, NEW m \in Msgs, UNCHANGED <<log, msg, rows>>,
         visible' = [n \in Msgs |-> IF n \in Recent /\ msg[n] = "stored" THEN 1 ELSE 0],
         listed' = Len(rows)
  PROVE  ShownAt(m)'
<1>1. CASE m \in Recent /\ msg[m] = "stored"
  <2>1. visible'[m] = 1
    BY <1>1
  <2>2. At(Deleted(m))' = {}
    BY <1>1, SameLog DEF Removed, RemovedAt
  <2> QED BY <2>1, <2>2 DEF ShownAt
<1>2. CASE m \notin Recent /\ msg[m] = "stored"
  <2>1. visible'[m] = 0
    BY <1>2
  <2>2. PICK i \in Row(m) : TRUE
    BY <1>2 DEF Kept
  <2>3. i \in DOMAIN rows /\ rows[i] = m /\ i \in Nat /\ Len(rows) \in Nat
    BY DEF Row, Typed
  <2>4. ~ (i + HistoryLimit > Len(rows))
    BY <1>2, <2>3 DEF Recent
  <2>5. i + HistoryLimit <= listed' /\ i \in Row(m)'
    BY <2>2, <2>3, <2>4, ChatAssumption DEF Row
  <2>6. Old(m)'
    BY <2>5 DEF Old
  <2> QED BY <2>1, <2>6 DEF ShownAt
<1>3. CASE msg[m] # "stored"
  <2>1. visible'[m] = 0
    BY <1>3
  <2> QED BY <1>3, <2>1 DEF ShownAt
<1> QED BY <1>1, <1>2, <1>3

(* History, joining and events, in the order of the log.                   *)
LEMMA ShownNext == ASSUME Typed, Bound, Sent, Removed, Kept, Shown, [Next]_vars PROVE Shown'
<1> USE DEF chatVars, viewerVars, modVars, Typed, Executed
<1>1. ASSUME NEW m \in Msgs, IsBanned(m) PROVE Shown'
  BY <1>1, ShownSame DEF IsBanned, Check, Row
<1>2. ASSUME NEW m \in Msgs, IsTimedOut(m) PROVE Shown'
  BY <1>2, ShownSame DEF IsTimedOut, Check, Row
<1>3. ASSUME NEW m \in Msgs, IsChatLocked(m) PROVE Shown'
  BY <1>3, ShownSame DEF IsChatLocked, Check, Row
<1>4. ASSUME NEW m \in Msgs, CreateMessage(m) PROVE Shown'
  <2>1. \A n \in Msgs : msg'[n] = "stored" => msg[n] = "stored" \/ At(Message(n)) = {}
    BY <1>4 DEF CreateMessage, Sent
  <2>2. \A n \in Msgs : Row(n) \subseteq Row(n)'
    BY <1>4, Inserted
  <2> QED BY <1>4, <2>1, <2>2, ShownSame DEF CreateMessage
<1>5. ASSUME NEW m \in Msgs, PublishMessage(m) PROVE Shown'
  <2>1. Message(m) \in Events /\ Publish(Message(m)) /\ UNCHANGED <<msg, rows, viewerVars>>
    BY <1>5, Kinds DEF PublishMessage
  <2> QED BY <2>1, ShownPublished
<1>6. ASSUME NEW q \in Mods, NEW n \in Msgs, DeleteMessage(q, n) PROVE Shown'
  BY <1>6, ShownSame DEF DeleteMessage, Row
<1>7. ASSUME NEW q \in Mods, BanUser(q) PROVE Shown'
  BY <1>7, ShownSame DEF BanUser, Request, Put, Row
<1>8. ASSUME NEW q \in Mods, UnbanUser(q) PROVE Shown'
  BY <1>8, ShownSame DEF UnbanUser, Request, Lift, Row
<1>9. ASSUME NEW q \in Mods, TimeoutUser(q) PROVE Shown'
  BY <1>9, ShownSame DEF TimeoutUser, Request, Put, Row
<1>10. ASSUME NEW q \in Mods, RemoveTimeout(q) PROVE Shown'
  BY <1>10, ShownSame DEF RemoveTimeout, Request, Lift, Row
<1>11. CASE TimeoutExpires
  BY <1>11, ShownSame DEF TimeoutExpires, Lift, Row
<1>12. ASSUME NEW q \in Mods, NEW locked \in BOOLEAN, SetChatLocked(q, locked) PROVE Shown'
  BY <1>12, ShownSame DEF SetChatLocked, Put, Lift, Row
<1>13. ASSUME NEW q \in Mods, Announce(q) PROVE Shown'
  <2>1. event[q] \in Events /\ Publish(event[q]) /\ UNCHANGED <<msg, rows, viewerVars>>
    BY <1>13 DEF Announce
  <2> QED BY <2>1, ShownPublished
<1>14. CASE ConnectHistory
  <2>1. CASE UNCHANGED <<visible, pos, readAt, listed, missed>>
    <3>1. UNCHANGED <<log, msg, rows>>
      BY <1>14 DEF ConnectHistory
    <3> QED BY <2>1, <3>1, ShownSame DEF Row
  <2>2. CASE /\ visible' = [m \in Msgs |-> IF m \in Recent /\ msg[m] = "stored" THEN 1 ELSE 0]
             /\ listed' = Len(rows)
    <3>1. UNCHANGED <<log, msg, rows>>
      BY <1>14 DEF ConnectHistory
    <3>2. \A m \in Msgs : ShownAt(m)'
      BY <2>2, <3>1, HistoryShows
    <3> QED BY <3>2 DEF Shown
  <2> QED BY <1>14, <2>1, <2>2 DEF ConnectHistory
<1>15. CASE ConnectJoin
  <2>1. /\ pos' = Len(log) /\ missed' = missed \cup (pos + 1 .. Len(log))
        /\ UNCHANGED <<log, msg, rows, visible, readAt, listed>>
    BY <1>15 DEF ConnectJoin
  <2>2. \A f : At(f)' = At(f) /\ At(f) \subseteq 1 .. Len(log)
    BY <2>1, SameLog DEF At
  <2>3. \A i \in 1 .. Len(log) : Unseen(i) => Unseen(i)'
    BY <2>1 DEF Unseen
  <2>4. \A i : i <= pos /\ i \notin missed /\ i \in 1 .. Len(log) => i <= pos' /\ i \notin missed'
    BY <2>1
  <2>5. \A m \in Msgs : Old(m) => Old(m)'
    BY <2>1 DEF Old, Row
  <2>6. ASSUME NEW m \in Msgs PROVE ShownAt(m)'
    <3>1. ShownAt(m) /\ visible[m] \in Nat
      BY DEF Shown
    <3> QED BY <2>1, <2>2, <2>3, <2>4, <2>5, <3>1 DEF ShownAt
  <2> QED BY <2>6 DEF Shown
<1>16. CASE Receive
  <2>1. /\ pos < Len(log) /\ pos' = pos + 1
        /\ UNCHANGED <<log, msg, rows, readAt, listed, missed>>
    BY <1>16 DEF Receive
  <2>2. \A f : At(f)' = At(f) /\ At(f) \subseteq 1 .. Len(log)
    BY <2>1, SameLog DEF At
  <2>3. \A i \in 1 .. Len(log) : i # pos + 1 /\ Unseen(i) => Unseen(i)'
    BY <2>1 DEF Unseen
  <2>4. \A f : pos + 1 \in At(f) <=> log[pos + 1] = f
    BY <2>1 DEF At
  <2>5. pos + 1 \notin missed /\ readAt < pos + 1
    OBVIOUS
  <2>6. \A m \in Msgs : Old(m) => Old(m)'
    BY <2>1 DEF Old, Row
  <2>7. ASSUME NEW m \in Msgs PROVE ShownAt(m)'
    <3>1. ShownAt(m) /\ visible[m] \in Nat /\ Message(m) # Deleted(m)
      BY Kinds DEF Shown
    <3>2. CASE log[pos + 1] = Message(m)
      <4>1. visible'[m] = visible[m] + 1
        BY <1>16, <3>1, <3>2 DEF Receive
      <4>2. pos + 1 \in At(Message(m)) /\ pos + 1 \notin At(Deleted(m))
        BY <2>4, <3>1, <3>2
      <4>3. \A i \in At(Message(m)) : i = pos + 1
        BY <4>2 DEF Sent
      <4>4. visible[m] <= 1
        BY <3>1, <4>3 DEF ShownAt
      <4>5. \A d \in At(Deleted(m)) : d < pos + 1 \/ Unseen(d)'
        BY <2>1, <2>2, <4>2 DEF Unseen
      <4>6. visible'[m] \in {1, 2}
        BY <3>1, <4>1, <4>4
      <4>7. \E i \in At(Message(m))' : readAt' < i /\ i <= pos' /\ i \notin missed'
        <5>1. pos + 1 \in At(Message(m))'
          BY <2>2, <4>2
        <5>2. readAt' < pos + 1 /\ pos + 1 <= pos' /\ pos + 1 \notin missed'
          BY <2>1, <2>5
        <5> QED BY <5>1, <5>2
      <4>8. \A d \in At(Deleted(m))' : Unseen(d)' \/ \E i \in At(Message(m))' : d < i
        BY <2>2, <4>2, <4>5
      <4> QED BY <4>6, <4>7, <4>8 DEF ShownAt
    <3>3. CASE log[pos + 1] = Deleted(m)
      <4>1. visible'[m] = 0
        BY <1>16, <3>1, <3>3 DEF Receive
      <4>2. At(Deleted(m)) # {}
        BY <2>4, <3>3
      <4>3. msg[m] = "deleted"
        BY <4>2 DEF Removed, RemovedAt
      <4> QED BY <2>1, <4>1, <4>3 DEF ShownAt
    <3>4. CASE log[pos + 1] # Message(m) /\ log[pos + 1] # Deleted(m)
      <4>1. visible'[m] = visible[m]
        BY <1>16, <3>4 DEF Receive
      <4>2. pos + 1 \notin At(Message(m)) /\ pos + 1 \notin At(Deleted(m))
        BY <2>4, <3>4
      <4> QED BY <2>1, <2>2, <2>3, <2>6, <3>1, <4>1, <4>2 DEF ShownAt
    <3> QED BY <3>2, <3>3, <3>4
  <2> QED BY <2>7 DEF Shown
<1>17. CASE Disconnect
  BY <1>17, ShownSame DEF Disconnect, Row
<1>18. CASE UNCHANGED vars
  BY <1>18, ShownSame DEF vars, Row
<1> QED
  BY <1>1, <1>2, <1>3, <1>4, <1>5, <1>6, <1>7, <1>8, <1>9, <1>10,
     <1>11, <1>12, <1>13, <1>14, <1>15, <1>16, <1>17, <1>18
     DEF Next, SendMessage, Moderate, Connect

------------------------------------------------------------------------------
Inv == Typed /\ Flag /\ Bound /\ Removed /\ Sent /\ Locks /\ Kept /\ Shown

LEMMA InvInit == Init => Inv
<1> SUFFICES ASSUME Init PROVE Inv
  OBVIOUS
<1>1. log = <<>> /\ Len(log) = 0 /\ log \in Seq(Events)
  BY DEF Init
<1>2. \A f : At(f) = {}
  BY <1>1 DEF At
<1>3. Locking = {} /\ PendingLock = {} /\ \A f : Pending(f) = {}
  BY <1>1 DEF Init, Locking, PendingLock, Pending
<1>4. event \in [Mods -> LockEvents]
  BY Kinds DEF Init
<1>5. Typed
  <2>1. rows = <<>> /\ rows \in Seq(Msgs) /\ Len(rows) = 0
    BY DEF Init
  <2> QED BY <1>1, <1>4, <2>1, Kinds DEF Init, Typed
<1>6. Flag /\ Bound
  BY DEF Init, Flag, Bound
<1>7. Removed /\ Sent
  BY <1>2, <1>3, <1>4 DEF Init, Removed, RemovedAt, Sent
<1>8. Locks
  BY <1>3 DEF Init, Locks, LastSays
<1>9. Kept /\ Shown
  BY <1>2 DEF Init, Kept, Shown, ShownAt
<1> QED BY <1>5, <1>6, <1>7, <1>8, <1>9 DEF Inv

(* The invariant of every behaviour, from which the theorems follow.       *)
LEMMA InvHolds == Spec => []Inv
<1>1. Inv /\ [Next]_vars => Inv'
  BY TypedNext, FlagNext, BoundNext, RemovedNext, SentNext, LocksNext, KeptNext, ShownNext DEF Inv
<1> QED BY <1>1, InvInit, PTL DEF Spec

------------------------------------------------------------------------------
(* The last place that passes a test is the greatest one.                  *)
LEMMA MaxIs ==
  ASSUME NEW I \in SUBSET Nat, NEW i \in I, \A j \in I : j <= i
  PROVE  Max(I) = i
<1>1. Max(I) \in I /\ \A j \in I : Max(I) >= j
  BY DEF Max
<1>2. Max(I) \in Nat /\ i \in Nat /\ Max(I) >= i /\ Max(I) <= i
  BY <1>1
<1> QED BY <1>2

(* An event that is published once is where IndexOf finds it.              *)
LEMMA IndexIs ==
  ASSUME Typed, NEW e, NEW i \in At(e), \A j \in At(e) : j = i
  PROVE  IndexOf(e) = i
<1>1. At(e) \in SUBSET Nat /\ \A j \in At(e) : j <= i
  BY DEF At, Typed
<1>2. Max(At(e)) = i
  BY <1>1, MaxIs
<1>3. IndexOf(e) = IF At(e) # {} THEN Max(At(e)) ELSE 0
  BY DEF IndexOf, SelectLastInSeq, At
<1> QED BY <1>2, <1>3

(* Unless lock calls overlapped or failed half-way, and when none is under *)
(* way, the last lock event in the log says what chat_locked says.         *)
LEMMA LastIsTrue == Inv => LockAnnounced
<1> SUFFICES ASSUME Inv PROVE LockAnnounced
  OBVIOUS
<1> DEFINE last == SelectLastInSeq(log, LAMBDA x : x \in LockEvents)
<1>1. last = IF Locking # {} THEN Max(Locking) ELSE 0
  BY DEF SelectLastInSeq, Locking
<1> HIDE DEF last
<1>2. SUFFICES ASSUME PendingLock = {}, ~ doubt
               PROVE  "lock" \in rules <=> last # 0 /\ log[last] = <<"chat_locked">>
  BY DEF LockAnnounced, last
<1>3. LastSays("lock" \in rules)
  BY <1>2 DEF Inv, Locks
<1>4. CASE Locking = {}
  BY <1>1, <1>3, <1>4 DEF LastSays
<1>5. CASE Locking # {}
  <2>1. PICK i \in Locking : /\ \A j \in Locking : j <= i
                             /\ "lock" \in rules <=> log[i] = <<"chat_locked">>
    BY <1>3, <1>5 DEF LastSays
  <2>2. Locking \in SUBSET Nat /\ i # 0
    BY DEF Locking, Inv, Typed
  <2>3. last = i
    BY <1>1, <1>5, <2>1, <2>2, MaxIs
  <2> QED BY <2>1, <2>2, <2>3
<1> QED BY <1>4, <1>5

(* For any number of messages, moderators and failures: the deletion of a  *)
(* message is announced once and only if it is deleted                     *)
(* (chat_service.go, DeleteMessage), and the last lock event says what the *)
(* row says unless lock calls overlapped or failed (SetChatLocked).        *)
THEOREM AnnouncedInvHolds == Spec => []AnnouncedInv
<1>1. Inv => TypeOK
  <2> SUFFICES ASSUME Inv PROVE TypeOK
    OBVIOUS
  <2>1. visible \in [Msgs -> 0 .. 2]
    BY DEF Inv, Typed, Shown, ShownAt
  <2>2. doubt \in BOOLEAN
    BY DEF Inv, Flag
  <2> QED BY <2>1, <2>2 DEF Inv, Typed, TypeOK
<1>2. Inv => DeletedOnce
  <2> SUFFICES ASSUME Inv PROVE DeletedOnce
    OBVIOUS
  <2>1. \A m \in Msgs : At(Deleted(m)) = {i \in DOMAIN log : log[i] = Deleted(m)}
    BY DEF At, Inv, Typed
  <2> QED BY <2>1 DEF DeletedOnce, Inv, Removed, RemovedAt
<1> QED BY <1>1, <1>2, LastIsTrue, InvHolds, PTL DEF AnnouncedInv

(* A message that was sent while a ban, a timeout or the lock was in force *)
(* and remained so is not stored, whatever moderators do between the three *)
(* lookups of SendMessage, the INSERT and each other.                      *)
THEOREM RulesBindHolds == Spec => []RulesBind
<1>1. Inv => RulesBind
  BY DEF Inv, Bound, RulesBind
<1> QED BY <1>1, InvHolds, PTL

(* Whenever a viewer connects, with or without getting the history (chat.  *)
(* go, Connect): once it has got every event it shows what the rows say,   *)
(* except for the events published between the last history it got and     *)
(* its joining, the unpublished ones, a deletion that was announced before *)
(* its message, and messages older than the history's limit.               *)
THEOREM ViewerAgreesHolds == Spec => []ViewerAgrees
<1>1. Inv => ViewerAgrees
  <2> SUFFICES ASSUME Inv, CaughtUp, NEW m \in Msgs
               PROVE  /\ visible[m] > 0 /\ msg[m] = "deleted" =>
                           \/ InGap(Deleted(m))
                           \/ Deleted(m) \in missing
                           \/ \E q \in Mods : moderating[q] = "publish" /\ event[q] = Deleted(m)
                           \/ IndexOf(Deleted(m)) # 0 /\ IndexOf(Deleted(m)) < IndexOf(Message(m))
                      /\ visible[m] = 0 /\ msg[m] = "stored" =>
                           \/ InGap(Message(m)) \/ TooOld(m)
                           \/ Message(m) \in missing \/ sending[m] = "publish"
                      /\ visible[m] > 1 => IndexOf(Message(m)) > readAt /\ ~ InGap(Message(m))
    BY DEF ViewerAgrees
  <2>1. /\ viewer = "joined" /\ pos = Len(log) /\ visible[m] \in Nat
        /\ Typed /\ RemovedAt(m) /\ ShownAt(m)
    BY DEF Inv, CaughtUp, Typed, Removed, Shown
  <2>2. \A f : \A i \in At(f) : i # 0 /\ i <= pos
    BY <2>1 DEF At, Typed
  <2>3. \A i \in At(Message(m)) : IndexOf(Message(m)) = i
    BY <2>1, IndexIs DEF Inv, Sent
  <2>4. \A i \in At(Deleted(m)) : IndexOf(Deleted(m)) = i
    BY <2>1, IndexIs DEF RemovedAt
  <2>5. ASSUME visible[m] > 0, msg[m] = "deleted", At(Deleted(m)) # {}
        PROVE  \/ InGap(Deleted(m))
               \/ IndexOf(Deleted(m)) # 0 /\ IndexOf(Deleted(m)) < IndexOf(Message(m))
    <3>1. PICK d \in At(Deleted(m)) : TRUE
      BY <2>5
    <3>2. IndexOf(Deleted(m)) = d /\ d # 0 /\ d <= pos /\ d \in Nat /\ pos \in Nat
      BY <2>1, <2>2, <2>4 DEF At, Typed
    <3>3. Unseen(d) \/ \E i \in At(Message(m)) : d < i
      BY <2>1, <2>5 DEF ShownAt
    <3>4. CASE Unseen(d)
      BY <3>2, <3>4 DEF Unseen, InGap
    <3>5. CASE \E i \in At(Message(m)) : d < i
      BY <2>3, <3>2, <3>5
    <3> QED BY <3>3, <3>4, <3>5
  <2>6. visible[m] > 0 /\ msg[m] = "deleted" =>
          \/ InGap(Deleted(m))
          \/ Deleted(m) \in missing
          \/ \E q \in Mods : moderating[q] = "publish" /\ event[q] = Deleted(m)
          \/ IndexOf(Deleted(m)) # 0 /\ IndexOf(Deleted(m)) < IndexOf(Message(m))
    BY <2>1, <2>5 DEF RemovedAt, Pending
  <2>7. ASSUME visible[m] = 0, msg[m] = "stored", At(Message(m)) # {}
        PROVE  InGap(Message(m)) \/ TooOld(m)
    <3>1. PICK i \in At(Message(m)) : TRUE
      BY <2>7
    <3>2. IndexOf(Message(m)) = i /\ i <= pos /\ i \in Nat /\ pos \in Nat
      BY <2>1, <2>2, <2>3 DEF At, Typed
    <3>3. Unseen(i) \/ Old(m)
      BY <2>1, <2>7 DEF ShownAt
    <3>4. CASE Unseen(i)
      BY <3>2, <3>4 DEF Unseen, InGap
    <3>5. CASE Old(m)
      BY <2>1, <3>5 DEF Old, Row, TooOld, Typed
    <3> QED BY <3>3, <3>4, <3>5
  <2>8. visible[m] = 0 /\ msg[m] = "stored" =>
          InGap(Message(m)) \/ TooOld(m) \/ Message(m) \in missing \/ sending[m] = "publish"
    BY <2>7 DEF Inv, Sent
  <2>9. visible[m] > 1 => IndexOf(Message(m)) > readAt /\ ~ InGap(Message(m))
    <3> SUFFICES ASSUME visible[m] > 1
                 PROVE  IndexOf(Message(m)) > readAt /\ ~ InGap(Message(m))
      OBVIOUS
    <3>1. visible[m] = 2
      BY <2>1 DEF ShownAt
    <3>2. PICK i \in At(Message(m)) : readAt < i /\ i \notin missed
      BY <2>1, <3>1 DEF ShownAt
    <3>3. IndexOf(Message(m)) = i
      BY <2>3
    <3> QED BY <3>2, <3>3 DEF InGap
  <2> QED BY <2>6, <2>8, <2>9
<1> QED BY <1>1, InvHolds, PTL
==============================================================================
