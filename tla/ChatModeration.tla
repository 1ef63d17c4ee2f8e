--------------------------- MODULE ChatModeration ---------------------------
(***************************************************************************)
(* The chat of one stream above the hub (live/chat_service.go,             *)
(* live/chat_repository.go, handlers/chat.go): messages of one user, the   *)
(* moderators' requests, and a viewer that reads the history and then      *)
(* follows the events. Msgs names SendMessage calls and the rows they      *)
(* insert, Mods the moderators' requests; each statement and each Publish  *)
(* is a step of its own.                                                   *)
(*                                                                         *)
(* The channel is a log: ChatHub shows that a client that stays in its     *)
(* room gets the events in the order of Redis and none twice. A call that  *)
(* fails is "err" (not executed) or "lost" (executed, error returned).     *)
(* Frames to one user (BroadcastToUser) change no state and are left out;  *)
(* a caller who may not moderate, an empty or a long body change nothing.  *)
(***************************************************************************)
EXTENDS Naturals, Sequences, SequencesExt

CONSTANTS Msgs,    \* SendMessage calls
          Mods,    \* moderators' requests
          HistoryLimit, \* rows in the history of Connect, 50 in the code
          Faults   \* what may go wrong

ASSUME ChatAssumption ==
  /\ Faults \subseteq {"db", "redis"}
  /\ HistoryLimit \in Nat \ {0}

Rules == {"ban", "timeout", "lock"}

VARIABLES
  rules,      \* rules in force: rows of live_chat_bans, live_chat_timeouts, chat_locked
  msg,        \* rows of live_chat_messages
  rows,       \* the messages in the order of created_at
  sending,    \* the next call of a SendMessage
  event,      \* the event a moderator's request has still to publish
  moderating, \* the next call of a moderator's request
  log,        \* events published on chat:stream:<id>
  viewer,     \* the viewer's connection
  pos,        \* events the viewer has got, or will not get any more
  visible,    \* copies of a message the viewer shows undeleted
  readAt,     \* history: length of the log when the viewer last got the history
  listed,     \* history: number of rows there were then
  missed,     \* history: events since then that the viewer did not get
  binding,    \* history: rules in force ever since a SendMessage began
  missing,    \* history: events that were to be published and were not
  doubt       \* history: lock calls overlapped, or the last one failed half-way

chatVars   == <<rules, msg, rows>>
viewerVars == <<viewer, pos, visible, readAt, listed, missed>>
modVars    == <<event, moderating>>
vars == <<chatVars, sending, modVars, log, viewerVars, binding, missing, doubt>>

Message(m) == <<"message", m>>
Deleted(m) == <<"deleted", m>>
LockEvents == {<<"chat_locked">>, <<"chat_unlocked">>}
Events == LockEvents \cup {Message(m) : m \in Msgs} \cup {Deleted(m) : m \in Msgs}

TypeOK ==
  /\ rules \subseteq Rules
  /\ msg \in [Msgs -> {"none", "stored", "deleted"}]
  /\ sending \in [Msgs -> {"new", "timeout", "lock", "insert", "publish", "over"}]
  /\ moderating \in [Mods -> {"new", "publish", "over"}]
  /\ event \in [Mods -> Events]
  /\ log \in Seq(Events)
  /\ viewer \in {"away", "history", "joined"}
  /\ rows \in Seq(Msgs) /\ listed \in 0 .. Len(rows)
  /\ readAt <= pos /\ pos <= Len(log) /\ missed \subseteq readAt + 1 .. pos
  /\ visible \in [Msgs -> 0 .. 2]
  /\ binding \in [Msgs -> SUBSET Rules]
  /\ missing \subseteq Events
  /\ doubt \in BOOLEAN

Init ==
  /\ rules = {}
  /\ msg = [m \in Msgs |-> "none"]
  /\ rows = <<>>
  /\ sending = [m \in Msgs |-> "new"]
  /\ event = [q \in Mods |-> <<"chat_locked">>]
  /\ moderating = [q \in Mods |-> "new"]
  /\ log = <<>>
  /\ viewer = "away"
  /\ pos = 0
  /\ visible = [m \in Msgs |-> 0]
  /\ readAt = 0
  /\ listed = 0
  /\ missed = {}
  /\ binding = [m \in Msgs |-> {}]
  /\ missing = {}
  /\ doubt = FALSE

------------------------------------------------------------------------------
Outcomes(service) == {"ok"} \cup (IF service \in Faults THEN {"err", "lost"} ELSE {})
Executed(o) == o \in {"ok", "lost"}

(* Publish, whose error is logged and otherwise ignored.                   *)
Publish(e) ==
  \E o \in Outcomes("redis") :
    IF Executed(o)
    THEN log' = Append(log, e) /\ UNCHANGED missing
    ELSE missing' = missing \cup {e} /\ UNCHANGED log

------------------------------------------------------------------------------
(* SendMessage: three checks, the INSERT and the event.                    *)
Check(m, at, rule, next) ==
  /\ sending[m] = at
  /\ sending' = [sending EXCEPT ![m] = IF rule \in rules THEN "over" ELSE next]
  /\ UNCHANGED <<chatVars, modVars, log, viewerVars, missing, doubt>>

IsBanned(m) ==
  /\ Check(m, "new", "ban", "timeout")
  /\ binding' = [binding EXCEPT ![m] = rules]

(* Seeded bug: a row of live_chat_timeouts is looked for under the ban.    *)
IsTimedOutBanned(m) == Check(m, "timeout", "ban", "lock") /\ UNCHANGED binding

IsTimedOut(m) == Check(m, "timeout", "timeout", "lock") /\ UNCHANGED binding

IsChatLocked(m) == Check(m, "lock", "lock", "insert") /\ UNCHANGED binding

CreateMessage(m) ==
  /\ sending[m] = "insert"
  /\ \E o \in Outcomes("db") :
       /\ IF Executed(o)
          THEN msg' = [msg EXCEPT ![m] = "stored"] /\ rows' = Append(rows, m)
          ELSE UNCHANGED <<msg, rows>>
       /\ sending' = [sending EXCEPT ![m] = IF o = "ok" THEN "publish" ELSE "over"]
       /\ missing' = IF o = "ok" THEN missing ELSE missing \cup {Message(m)}
  /\ UNCHANGED <<rules, modVars, log, viewerVars, binding, doubt>>

(* Seeded bug: a Publish is repeated as long as it returns an error.       *)
PublishMessageRetry(m) ==
  /\ sending[m] = "publish"
  /\ \E o \in Outcomes("redis") :
       /\ log' = IF Executed(o) THEN Append(log, Message(m)) ELSE log
       /\ sending' = [sending EXCEPT ![m] = IF o = "ok" THEN "over" ELSE "publish"]
  /\ UNCHANGED <<chatVars, modVars, viewerVars, binding, missing, doubt>>

PublishMessage(m) ==
  /\ sending[m] = "publish"
  /\ Publish(Message(m))
  /\ sending' = [sending EXCEPT ![m] = "over"]
  /\ UNCHANGED <<chatVars, modVars, viewerVars, binding, doubt>>

------------------------------------------------------------------------------
(* Seeded bug: the UPDATE does not ask for deleted = FALSE.                *)
DeleteMessageAgain(q, m) ==
  /\ moderating[q] = "new"
  /\ msg[m] # "none"
  /\ \E o \in Outcomes("db") :
       /\ msg' = IF Executed(o) THEN [msg EXCEPT ![m] = "deleted"] ELSE msg
       /\ moderating' = [moderating EXCEPT ![q] = IF o = "ok" THEN "publish" ELSE "over"]
       /\ missing' = IF o = "lost" THEN missing \cup {Deleted(m)} ELSE missing
  /\ event' = [event EXCEPT ![q] = Deleted(m)]
  /\ UNCHANGED <<rules, rows, sending, log, viewerVars, binding, doubt>>

(* DeleteMessage of a message that is not deleted yet; the request of the  *)
(* second of two moderators ends here.                                     *)
DeleteMessage(q, m) ==
  /\ moderating[q] = "new"
  /\ msg[m] = "stored"
  /\ \E o \in Outcomes("db") :
       /\ msg' = IF Executed(o) THEN [msg EXCEPT ![m] = "deleted"] ELSE msg
       /\ moderating' = [moderating EXCEPT ![q] = IF o = "ok" THEN "publish" ELSE "over"]
       /\ missing' = IF o = "lost" THEN missing \cup {Deleted(m)} ELSE missing
  /\ event' = [event EXCEPT ![q] = Deleted(m)]
  /\ UNCHANGED <<rules, rows, sending, log, viewerVars, binding, doubt>>

(* A rule is put in force or lifted by one statement; a SendMessage under  *)
(* way is no longer bound by a rule that was lifted.                       *)
Put(rule)  == rules' = rules \cup {rule} /\ UNCHANGED binding
Lift(rule) ==
  /\ rules' = rules \ {rule}
  /\ binding' = [m \in Msgs |-> IF sending[m] = "over" THEN binding[m]
                                ELSE binding[m] \ {rule}]

(* A moderator's request that is over after one statement: what it sends   *)
(* to the user concerned, and an error of the statement, change no state.  *)
Request(q) ==
  /\ moderating[q] = "new"
  /\ moderating' = [moderating EXCEPT ![q] = "over"]
  /\ UNCHANGED <<msg, rows, sending, event, log, viewerVars, missing, doubt>>

BanUser(q) == Request(q) /\ Put("ban")

UnbanUser(q) == Request(q) /\ Lift("ban")

(* The INSERT replaces a timeout that is in force.                         *)
TimeoutUser(q) == Request(q) /\ Put("timeout")

RemoveTimeout(q) == Request(q) /\ Lift("timeout")

(* expires_at of the timeout passes.                                       *)
TimeoutExpires ==
  /\ "timeout" \in rules
  /\ Lift("timeout")
  /\ UNCHANGED <<msg, rows, sending, modVars, log, viewerVars, missing, doubt>>

PendingLock == {q \in Mods : moderating[q] = "publish" /\ event[q] \in LockEvents}

(* Seeded bug: unlocking announces that the chat is locked.                *)
SetChatLockedSwapped(q, locked) ==
  /\ moderating[q] = "new"
  /\ \E o \in Outcomes("db") :
       /\ IF Executed(o) THEN IF locked THEN Put("lock") ELSE Lift("lock")
                         ELSE UNCHANGED <<rules, binding>>
       /\ moderating' = [moderating EXCEPT ![q] = IF o = "ok" THEN "publish" ELSE "over"]
       /\ doubt' = (PendingLock # {} \/ o = "lost" \/ (doubt /\ o = "err"))
  /\ event' = [event EXCEPT ![q] = <<"chat_locked">>]
  /\ UNCHANGED <<msg, rows, sending, log, viewerVars, missing>>

(* SetChatLocked updates the row and then announces it.                    *)
SetChatLocked(q, locked) ==
  /\ moderating[q] = "new"
  /\ \E o \in Outcomes("db") :
       /\ IF Executed(o) THEN IF locked THEN Put("lock") ELSE Lift("lock")
                         ELSE UNCHANGED <<rules, binding>>
       /\ moderating' = [moderating EXCEPT ![q] = IF o = "ok" THEN "publish" ELSE "over"]
       /\ doubt' = (PendingLock # {} \/ o = "lost" \/ (doubt /\ o = "err"))
  /\ event' = [event EXCEPT ![q] = IF locked THEN <<"chat_locked">> ELSE <<"chat_unlocked">>]
  /\ UNCHANGED <<msg, rows, sending, log, viewerVars, missing>>

Announce(q) ==
  /\ moderating[q] = "publish"
  /\ Publish(event[q])
  /\ moderating' = [moderating EXCEPT ![q] = "over"]
  /\ doubt' = (doubt \/ (event[q] \in LockEvents /\ log' = log))
  /\ UNCHANGED <<chatVars, sending, event, viewerVars, binding>>

------------------------------------------------------------------------------
(* ListMessages of Connect: the newest HistoryLimit rows, deleted or not.  *)
Recent == {rows[i] : i \in {j \in DOMAIN rows : j + HistoryLimit > Len(rows)}}

(* Seeded bug: the bodies of deleted messages are not left out.            *)
ConnectHistoryRaw ==
  /\ viewer = "away"
  /\ viewer' = "history"
  /\ visible' = [m \in Msgs |-> IF m \in Recent THEN 1 ELSE 0]
  /\ pos' = Len(log)
  /\ readAt' = Len(log)
  /\ listed' = Len(rows)
  /\ missed' = {}
  /\ UNCHANGED <<chatVars, sending, modVars, log, binding, missing, doubt>>

(* Connect reads the newest messages, bodies of deleted ones left out, and *)
(* sends them; the browser replaces what it shows. If the read fails, no   *)
(* history is sent: the browser keeps what it shows and will not get the   *)
(* events published since it last was in the room. (No history is sent     *)
(* either while there is no row, when the browser has nothing to show.)    *)
ConnectHistory ==
  /\ viewer = "away"
  /\ viewer' = "history"
  /\ \E o \in Outcomes("db") \ {"lost"} :
       IF o = "ok"
       THEN /\ visible' = [m \in Msgs |-> IF m \in Recent /\ msg[m] = "stored" THEN 1 ELSE 0]
            /\ pos' = Len(log)
            /\ readAt' = Len(log)
            /\ listed' = Len(rows)
            /\ missed' = {}
       ELSE UNCHANGED <<visible, pos, readAt, listed, missed>>
  /\ UNCHANGED <<chatVars, sending, modVars, log, binding, missing, doubt>>

(* The client is added to the room of the hub.                             *)
ConnectJoin ==
  /\ viewer = "history"
  /\ viewer' = "joined"
  /\ pos' = Len(log)
  /\ missed' = missed \cup (pos + 1 .. Len(log))
  /\ UNCHANGED <<chatVars, sending, modVars, log, visible, readAt, listed, binding, missing,
                 doubt>>

(* The viewer gets the next event: a message is added to the list, a       *)
(* deletion applies to the copies in it.                                   *)
Receive ==
  /\ viewer = "joined"
  /\ pos < Len(log)
  /\ pos' = pos + 1
  /\ visible' = [m \in Msgs |-> CASE log[pos + 1] = Message(m) -> visible[m] + 1
                                  [] log[pos + 1] = Deleted(m) -> 0
                                  [] OTHER -> visible[m]]
  /\ UNCHANGED <<chatVars, sending, modVars, log, viewer, readAt, listed, missed, binding,
                 missing, doubt>>

(* The connection breaks; the browser connects again.                      *)
Disconnect ==
  /\ viewer \in {"history", "joined"}
  /\ viewer' = "away"
  /\ UNCHANGED <<chatVars, sending, modVars, log, pos, visible, readAt, listed, missed,
                 binding, missing, doubt>>

------------------------------------------------------------------------------
SendMessage(m) == \/ IsBanned(m) \/ IsTimedOut(m) \/ IsChatLocked(m)
                  \/ CreateMessage(m) \/ PublishMessage(m)

Moderate(q) ==
  \/ \E m \in Msgs : DeleteMessage(q, m)
  \/ BanUser(q) \/ UnbanUser(q) \/ TimeoutUser(q) \/ RemoveTimeout(q)
  \/ \E locked \in BOOLEAN : SetChatLocked(q, locked)
  \/ Announce(q)

Connect == ConnectHistory \/ ConnectJoin

Next ==
  \/ \E m \in Msgs : SendMessage(m)
  \/ \E q \in Mods : Moderate(q)
  \/ TimeoutExpires
  \/ Connect \/ Receive \/ Disconnect

Spec == Init /\ [][Next]_vars

------------------------------------------------------------------------------
(* Properties.                                                             *)

IndexOf(e) == SelectLastInSeq(log, LAMBDA x : x = e)
CaughtUp == viewer = "joined" /\ pos = Len(log)

(* An event that was published when the viewer was not in the room, and    *)
(* not before the history that it has got.                                 *)
InGap(e) == IndexOf(e) \in missed

(* A message that HistoryLimit newer rows kept out of that history.        *)
TooOld(m) == \E i \in DOMAIN rows : rows[i] = m /\ i + HistoryLimit <= listed

(* A message sent while a ban, a timeout or the lock was in force, and     *)
(* remained so, is not stored, although each rule is looked up in a query  *)
(* of its own and moderators act in between.                               *)
RulesBind == \A m \in Msgs : msg[m] # "none" => binding[m] = {}

(* The deletion of a message is announced once, however many moderators    *)
(* delete it, and never for a message that is not deleted.                 *)
DeletedOnce ==
  \A m \in Msgs :
    LET announced == {i \in DOMAIN log : log[i] = Deleted(m)}
    IN  /\ \A i, j \in announced : i = j
        /\ announced # {} => msg[m] = "deleted"

(* When no lock call is under way, the last lock event says what the row   *)
(* says, unless calls overlapped (each updates the row and then publishes, *)
(* so the events may be the other way round) or one failed half-way.       *)
LockAnnounced ==
  LET last == SelectLastInSeq(log, LAMBDA x : x \in LockEvents)
  IN  PendingLock = {} /\ ~ doubt
        => ("lock" \in rules <=> last # 0 /\ log[last] = <<"chat_locked">>)

(* A viewer that has got every event shows a message that is deleted only  *)
(* if the deletion was announced before the message was, or not at all, or *)
(* in the gap: between the history that the viewer got last (Connect goes  *)
(* on without one if the read fails) and its joining. It lacks a stored    *)
(* message only if the announcement is missing or fell into the gap, or if *)
(* HistoryLimit newer rows, deleted ones too, kept it out of the history.  *)
(* It shows two copies only of a message that was announced after the      *)
(* history which already had it.                                           *)
ViewerAgrees ==
  CaughtUp =>
    \A m \in Msgs :
      /\ visible[m] > 0 /\ msg[m] = "deleted" =>
           \/ InGap(Deleted(m))
           \/ Deleted(m) \in missing
           \/ \E q \in Mods : moderating[q] = "publish" /\ event[q] = Deleted(m)
           \/ IndexOf(Deleted(m)) # 0 /\ IndexOf(Deleted(m)) < IndexOf(Message(m))
      /\ visible[m] = 0 /\ msg[m] = "stored" =>
           \/ InGap(Message(m)) \/ TooOld(m)
           \/ Message(m) \in missing \/ sending[m] = "publish"
      /\ visible[m] > 1 => IndexOf(Message(m)) > readAt /\ ~ InGap(Message(m))

(* The types, and what the events say of deletions and of the lock.        *)
AnnouncedInv == TypeOK /\ DeletedOnce /\ LockAnnounced
==============================================================================
