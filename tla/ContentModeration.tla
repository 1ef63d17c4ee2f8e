------------------------- MODULE ContentModeration --------------------------
(***************************************************************************)
(* Reports, appeals, moderation actions and roles (moderation/service.go,  *)
(* moderation/repository.go, handlers/moderation.go, handlers/admin.go)    *)
(* around one target (a video, comment, user, live stream or chat message) *)
(* and one report on it.                                                   *)
(* Reqs names the requests of moderators and administrators; a request     *)
(* inserts at most one row of moderation_actions, which carries its name.  *)
(* Each statement is a step; an UPDATE whose WHERE clause finds no row     *)
(* ends the request with an error and is left out.                         *)
(*                                                                         *)
(* A statement that fails is "err" (not executed) or "lost" (executed,     *)
(* error returned). Notes, lists and statistics are left out, as are       *)
(* callers without the role.                                               *)
(***************************************************************************)
EXTENDS Naturals, FiniteSets

CONSTANTS Reqs,    \* requests of moderators and administrators
          Faults   \* what may go wrong

ASSUME ModerationAssumption == Faults \subseteq {"db"}

ActionTypes == {"hide_content", "unpublish_video", "delete_video", "remove_comment",
                "terminate_live_stream", "lock_live_chat", "suspend_user", "ban_user",
                "restore_content"}
Roles == {"admin", "moderator", "user"}

States == [video   |-> {"public", "unlisted", "private", "removed"},
           comment |-> {"visible", "hidden", "deleted"},
           user    |-> {"active", "suspended", "banned"},
           live_stream |-> {"as it was"}, live_chat_message |-> {"as it was"}]
Normal == [video |-> "public", comment |-> "visible", user |-> "active",
           live_stream |-> "as it was", live_chat_message |-> "as it was"]

VARIABLES
  kind,      \* target_type
  shown,     \* visibility of the video, status of the comment or the user
  deleted,   \* deleted_at of the target is set
  roles,     \* the target's rows of user_roles
  report,    \* moderation_reports.status
  appeal,    \* moderation_reports.appeal_status
  acts,      \* rows of moderation_actions: the type, by request
  reversed,  \* rows with reversed_at
  audited,   \* requests with a row in audit_log
  pc,        \* the next statement of a request
  arg,       \* the action a request carries out, or is to reverse
  decided,   \* history: requests that resolved or dismissed the report
  applied,   \* history: actions applied to the target
  restores,  \* history: how often the reversal of an action restored the target
  early,     \* history: actions reversed before they were applied
  others,    \* history: the deletion in force is not a moderation action's
  failed     \* history: a statement failed, or role changes overlapped

targetVars == <<kind, shown, deleted>>
reportVars == <<report, appeal>>
actVars    == <<acts, reversed, audited>>
reqVars    == <<pc, arg>>
history    == <<decided, applied, restores, early, others, failed>>
vars == <<targetVars, roles, reportVars, actVars, reqVars, history>>

TypeOK ==
  /\ kind \in DOMAIN States
  /\ shown \in States[kind]
  /\ deleted \in BOOLEAN
  /\ roles \subseteq Roles
  /\ report \in {"none", "open", "assigned", "resolved", "dismissed"}
  /\ appeal \in {"none", "pending", "granted", "denied"}
  /\ acts \in [Reqs -> ActionTypes \cup {"none"}]
  /\ reversed \subseteq {q \in Reqs : acts[q] # "none"}
  /\ audited \subseteq Reqs
  /\ pc \in [Reqs -> {"new", "action", "apply", "audit", "reverse", "restore", "clear",
                      "grant", "over"}]
  /\ arg \in [Reqs -> ActionTypes \cup Roles \cup Reqs \cup {"none"}]
  /\ decided \cup applied \cup early \subseteq Reqs
  /\ restores \in [Reqs -> Nat]
  /\ {others, failed} \subseteq BOOLEAN

Init ==
  /\ kind \in DOMAIN States
  /\ shown = Normal[kind]
  /\ deleted = FALSE
  /\ roles = {"user"}
  /\ report = "none"
  /\ appeal = "none"
  /\ acts = [q \in Reqs |-> "none"]
  /\ reversed = {}
  /\ audited = {}
  /\ pc = [q \in Reqs |-> "new"]
  /\ arg = [q \in Reqs |-> "none"]
  /\ decided = {}
  /\ applied = {}
  /\ restores = [q \in Reqs |-> 0]
  /\ early = {}
  /\ others = FALSE
  /\ failed = FALSE

------------------------------------------------------------------------------
Outcomes == {"ok"} \cup (IF "db" \in Faults THEN {"err", "lost"} ELSE {})
Executed(o) == o \in {"ok", "lost"}
Note(o) == failed' = (failed \/ o # "ok")

Goto(q, label) == pc' = [pc EXCEPT ![q] = label]
Proceed(q, o, label) == Goto(q, IF o = "ok" THEN label ELSE "over")

(* Seeded bug: remove_comment gives a comment the visibility of a video.   *)
EffectRemoved(type) ==
  CASE type \in {"hide_content", "unpublish_video"} /\ kind # "user" -> <<"private", FALSE>>
    [] type \in {"delete_video", "remove_comment"} /\ kind # "user" -> <<"removed", TRUE>>
    [] type = "suspend_user" /\ kind = "user" -> <<"suspended", FALSE>>
    [] type = "ban_user" /\ kind = "user" -> <<"banned", FALSE>>
    [] type = "restore_content" -> <<Normal[kind], FALSE>>
    [] OTHER -> <<shown, deleted>>

(* applyActionToTarget: shown and deleted_at after an action. An action    *)
(* that does not fit the target, or finds no row to update, changes        *)
(* nothing; the two about live streams never do.                           *)
Effect(type) ==
  CASE type = "hide_content" /\ kind = "video" /\ ~ deleted -> <<"private", FALSE>>
    [] type = "hide_content" /\ kind = "comment" /\ ~ deleted -> <<"hidden", FALSE>>
    [] type = "unpublish_video" /\ kind = "video" /\ ~ deleted -> <<"unlisted", FALSE>>
    [] type = "delete_video" /\ kind = "video" /\ ~ deleted -> <<"removed", TRUE>>
    [] type = "remove_comment" /\ kind = "comment" /\ ~ deleted -> <<shown, TRUE>>
    [] type = "suspend_user" /\ kind = "user" -> <<"suspended", FALSE>>
    [] type = "ban_user" /\ kind = "user" -> <<"banned", FALSE>>
    [] type = "restore_content" /\ kind # "user" /\ deleted -> <<Normal[kind], FALSE>>
    [] type = "restore_content" /\ kind = "user" /\ shown # "active" -> <<"active", FALSE>>
    [] OTHER -> <<shown, deleted>>

Apply(type) ==
  /\ shown' = Effect(type)[1]
  /\ deleted' = Effect(type)[2]
  /\ others' = (others /\ deleted')

------------------------------------------------------------------------------
(* A user reports the target, by the endpoint for all kinds or by the one  *)
(* of its kind. (ReportComment writes comment_reports, which nothing here  *)
(* reads.)                                                                 *)
InsertReport ==
  /\ report = "none"
  /\ report' = "open"
  /\ UNCHANGED <<targetVars, roles, appeal, actVars, reqVars, history>>

CreateReport == InsertReport
ReportVideo == kind = "video" /\ InsertReport
ReportUser == kind = "user" /\ InsertReport
ReportLiveStream == kind = "live_stream" /\ InsertReport
ReportLiveChatMessage == kind = "live_chat_message" /\ InsertReport

(* Assignment and its audit entry; the latter's error is ignored.          *)
AssignReport(q) ==
  /\ pc[q] = "new"
  /\ report \in {"open", "assigned"}
  /\ report' = "assigned"
  /\ Goto(q, "over")
  /\ UNCHANGED <<targetVars, roles, appeal, actVars, arg, history>>

UnassignReport(q) ==
  /\ pc[q] = "new"
  /\ report = "assigned"
  /\ report' = "open"
  /\ Goto(q, "over")
  /\ UNCHANGED <<targetVars, roles, appeal, actVars, arg, history>>

(* Seeded bug: the UPDATE does not ask for an open report.                 *)
ResolveReportAny(q) ==
  /\ pc[q] = "new"
  /\ report # "none"
  /\ \E o \in Outcomes, type \in ActionTypes \cup {"none"} :
       /\ report' = IF Executed(o) THEN "resolved" ELSE report
       /\ decided' = IF Executed(o) THEN decided \cup {q} ELSE decided
       /\ arg' = [arg EXCEPT ![q] = type]
       /\ Proceed(q, o, IF type = "none" THEN "over" ELSE "action")
       /\ Note(o)
  /\ UNCHANGED <<targetVars, roles, appeal, actVars, applied, restores, early,
                 others>>

(* ResolveReport, with or without an action that then is carried out.      *)
ResolveReport(q) ==
  /\ pc[q] = "new"
  /\ report \in {"open", "assigned"}
  /\ \E o \in Outcomes, type \in ActionTypes \cup {"none"} :
       /\ report' = IF Executed(o) THEN "resolved" ELSE report
       /\ decided' = IF Executed(o) THEN decided \cup {q} ELSE decided
       /\ arg' = [arg EXCEPT ![q] = type]
       /\ Proceed(q, o, IF type = "none" THEN "over" ELSE "action")
       /\ Note(o)
  /\ UNCHANGED <<targetVars, roles, appeal, actVars, applied, restores, early,
                 others>>

DismissReport(q) ==
  /\ pc[q] = "new"
  /\ report \in {"open", "assigned"}
  /\ report' = "dismissed"
  /\ decided' = decided \cup {q}
  /\ Goto(q, "over")
  /\ UNCHANGED <<targetVars, roles, appeal, actVars, arg, applied, restores, early,
                 others, failed>>

(* Seeded bug: a second appeal is accepted.                                *)
SubmitAppealAgain ==
  /\ report = "resolved"
  /\ appeal' = "pending"
  /\ UNCHANGED <<targetVars, roles, report, actVars, reqVars, history>>

SubmitAppeal ==
  /\ report = "resolved"
  /\ appeal = "none"
  /\ appeal' = "pending"
  /\ UNCHANGED <<targetVars, roles, report, actVars, reqVars, history>>

(* ResolveAppeal decides the appeal and does nothing else.                 *)
ResolveAppeal(q) ==
  /\ pc[q] = "new"
  /\ appeal = "pending"
  /\ appeal' \in {"granted", "denied"}
  /\ Goto(q, "over")
  /\ UNCHANGED <<targetVars, roles, report, actVars, arg, history>>

------------------------------------------------------------------------------
(* ExecuteAction: the row, the target, the audit log.                      *)
ExecuteAction(q) ==
  /\ pc[q] = "new"
  /\ \E type \in ActionTypes : arg' = [arg EXCEPT ![q] = type]
  /\ Goto(q, "action")
  /\ UNCHANGED <<targetVars, roles, reportVars, actVars, history>>

CreateAction(q) ==
  /\ pc[q] = "action"
  /\ \E o \in Outcomes :
       /\ acts' = IF Executed(o) THEN [acts EXCEPT ![q] = arg[q]] ELSE acts
       /\ Proceed(q, o, "apply")
       /\ Note(o)
  /\ UNCHANGED <<targetVars, roles, reportVars, reversed, audited, arg, decided,
                 applied, restores, early, others>>

(* Seeded bug: the audit entry is written although the action failed.      *)
ApplyActionAnyway(q) ==
  /\ pc[q] = "apply"
  /\ \E o \in Outcomes :
       /\ IF Executed(o)
          THEN Apply(arg[q]) /\ applied' = applied \cup {q}
          ELSE UNCHANGED <<shown, deleted, others, applied>>
       /\ Goto(q, "audit")
       /\ Note(o)
  /\ UNCHANGED <<kind, roles, reportVars, actVars, arg, decided, restores, early>>

ApplyAction(q) ==
  /\ pc[q] = "apply"
  /\ \E o \in Outcomes :
       /\ IF Executed(o)
          THEN Apply(arg[q]) /\ applied' = applied \cup {q}
          ELSE UNCHANGED <<shown, deleted, others, applied>>
       /\ Proceed(q, o, "audit")
       /\ Note(o)
  /\ UNCHANGED <<kind, roles, reportVars, actVars, arg, decided, restores, early>>

(* CreateAuditLog, whose error is ignored.                                 *)
Audit(q) ==
  /\ pc[q] = "audit"
  /\ \E o \in Outcomes :
       /\ audited' = IF Executed(o) THEN audited \cup {q} ELSE audited
       /\ Note(o)
  /\ Goto(q, "over")
  /\ UNCHANGED <<targetVars, roles, reportVars, acts, reversed, arg, decided,
                 applied, restores, early, others>>

------------------------------------------------------------------------------
(* ReverseAction looks for an action that is not reversed.                 *)
ReverseRead(q) ==
  /\ pc[q] = "new"
  /\ \E a \in Reqs \ reversed :
       /\ acts[a] # "none"
       /\ arg' = [arg EXCEPT ![q] = a]
  /\ Goto(q, "reverse")
  /\ UNCHANGED <<targetVars, roles, reportVars, actVars, history>>

Restorable == {"hide_content", "delete_video", "remove_comment"}

(* Seeded bug: the UPDATE does not ask for reversed_at IS NULL.            *)
ReverseUpdateAgain(q) ==
  /\ pc[q] = "reverse"
  /\ \E o \in Outcomes :
       /\ reversed' = IF Executed(o) THEN reversed \cup {arg[q]} ELSE reversed
       /\ early' = IF Executed(o) /\ arg[q] \notin applied THEN early \cup {arg[q]} ELSE early
       /\ Proceed(q, o, IF acts[arg[q]] \in Restorable THEN "restore" ELSE "over")
       /\ Note(o)
  /\ UNCHANGED <<targetVars, roles, reportVars, acts, audited, arg, decided, applied,
                 restores, others>>

(* The row is marked, unless another request has done it since.            *)
ReverseUpdate(q) ==
  /\ pc[q] = "reverse"
  /\ \E o \in IF arg[q] \in reversed THEN {"err"} ELSE Outcomes :
       /\ reversed' = IF Executed(o) THEN reversed \cup {arg[q]} ELSE reversed
       /\ early' = IF Executed(o) /\ arg[q] \notin applied THEN early \cup {arg[q]} ELSE early
       /\ Proceed(q, o, IF acts[arg[q]] \in Restorable THEN "restore" ELSE "over")
       /\ failed' = (failed \/ (arg[q] \notin reversed /\ o # "ok"))
  /\ UNCHANGED <<targetVars, roles, reportVars, acts, audited, arg, decided, applied,
                 restores, others>>

(* Seeded bug: the action is applied again instead of restore_content.     *)
ReverseRestoreSame(q) ==
  /\ pc[q] = "restore"
  /\ \E o \in Outcomes :
       /\ IF Executed(o)
          THEN /\ Apply(acts[arg[q]])
               /\ restores' = [restores EXCEPT ![arg[q]] = @ + 1]
          ELSE UNCHANGED <<shown, deleted, others, restores>>
       /\ Note(o)
  /\ Goto(q, "over")
  /\ UNCHANGED <<kind, roles, reportVars, actVars, arg, decided, applied, early>>

(* The target of a hide, delete or remove action is restored, error        *)
(* ignored; the audit entry that follows is not tracked.                   *)
ReverseRestore(q) ==
  /\ pc[q] = "restore"
  /\ \E o \in Outcomes :
       /\ IF Executed(o)
          THEN /\ Apply("restore_content")
               /\ restores' = [restores EXCEPT ![arg[q]] = @ + 1]
          ELSE UNCHANGED <<shown, deleted, others, restores>>
       /\ Note(o)
  /\ Goto(q, "over")
  /\ UNCHANGED <<kind, roles, reportVars, actVars, arg, decided, applied, early>>

------------------------------------------------------------------------------
(* Administrators change the target directly, without an action. An UPDATE *)
(* asks for deleted_at IS NULL.                                            *)
Direct(q, target) ==
  /\ pc[q] = "new"
  /\ kind = target
  /\ ~ deleted

SetShown(q) ==
  /\ \E o \in Outcomes, to \in States[kind] :
       /\ shown' = IF Executed(o) THEN to ELSE shown
       /\ Note(o)
  /\ Goto(q, "over")
  /\ UNCHANGED <<kind, deleted, roles, reportVars, actVars, arg, decided, applied,
                 restores, early, others>>

AdminUpdateVideo(q) == Direct(q, "video") /\ SetShown(q)

AdminUpdateComment(q) == Direct(q, "comment") /\ SetShown(q)

(* DeleteVideo by an administrator.                                        *)
AdminDeleteVideo(q) ==
  /\ Direct(q, "video")
  /\ deleted' = TRUE
  /\ shown' = "removed"
  /\ others' = TRUE
  /\ Goto(q, "over")
  /\ UNCHANGED <<kind, roles, reportVars, actVars, arg, decided, applied, restores,
                 early, failed>>

(* The author deletes the comment.                                         *)
DeleteComment(q) ==
  /\ Direct(q, "comment")
  /\ deleted' = TRUE
  /\ others' = TRUE
  /\ Goto(q, "over")
  /\ UNCHANGED <<kind, shown, roles, reportVars, actVars, arg, decided, applied, restores,
                 early, failed>>

(* UpdateUser with a status, and perhaps with a role as well.              *)
UpdateUserStatus(q) ==
  /\ Direct(q, "user")
  /\ \E o \in Outcomes, to \in States["user"], role \in {"clear", "over"} :
       /\ shown' = IF Executed(o) THEN to ELSE shown
       /\ Proceed(q, o, role)
       /\ Note(o)
  /\ UNCHANGED <<kind, deleted, roles, reportVars, actVars, arg, decided, applied, restores,
                 early, others>>

(* Seeded bug: the roles are granted without clearing the old ones.        *)
ClearRolesNot(q) ==
  /\ pc[q] \in {"new", "clear"}
  /\ kind = "user"
  /\ \E r \in Roles : arg' = [arg EXCEPT ![q] = r]
  /\ \E o \in Outcomes :
       /\ Proceed(q, o, "grant")
       /\ failed' = (failed \/ o # "ok" \/ \E p \in Reqs : pc[p] = "grant")
  /\ UNCHANGED <<targetVars, roles, reportVars, actVars, decided, applied, restores,
                 early, others>>

(* UpdateUser with a role: DELETE of all roles, INSERT of the new one.     *)
ClearRoles(q) ==
  /\ pc[q] \in {"new", "clear"}
  /\ kind = "user"
  /\ \E r \in Roles : arg' = [arg EXCEPT ![q] = r]
  /\ \E o \in Outcomes :
       /\ roles' = IF Executed(o) THEN {} ELSE roles
       /\ Proceed(q, o, "grant")
       /\ failed' = (failed \/ o # "ok" \/ \E p \in Reqs : pc[p] = "grant")
  /\ UNCHANGED <<targetVars, reportVars, actVars, decided, applied, restores, early,
                 others>>

GrantRole(q) ==
  /\ pc[q] = "grant"
  /\ \E o \in Outcomes :
       /\ roles' = IF Executed(o) THEN roles \cup {arg[q]} ELSE roles
       /\ Note(o)
  /\ Goto(q, "over")
  /\ UNCHANGED <<targetVars, reportVars, actVars, arg, decided, applied, restores,
                 early, others>>

------------------------------------------------------------------------------
ServiceExecuteAction(q) == CreateAction(q) \/ ApplyAction(q) \/ Audit(q)

ReverseAction(q) == ReverseRead(q) \/ ReverseUpdate(q) \/ ReverseRestore(q)

UpdateUser(q) == UpdateUserStatus(q) \/ ClearRoles(q) \/ GrantRole(q)

Step(q) ==
  \/ AssignReport(q) \/ UnassignReport(q) \/ ResolveReport(q) \/ DismissReport(q)
  \/ ResolveAppeal(q)
  \/ ExecuteAction(q) \/ ServiceExecuteAction(q) \/ ReverseAction(q)
  \/ AdminUpdateVideo(q) \/ AdminDeleteVideo(q) \/ AdminUpdateComment(q) \/ DeleteComment(q)
  \/ UpdateUser(q)

Next ==
  \/ CreateReport \/ ReportVideo \/ ReportUser \/ ReportLiveStream \/ ReportLiveChatMessage
  \/ SubmitAppeal
  \/ \E q \in Reqs : Step(q)

Spec == Init /\ [][Next]_vars

------------------------------------------------------------------------------
(* Properties.                                                             *)

Quiet == \A q \in Reqs : pc[q] \in {"new", "over"}

(* However many moderators resolve or dismiss a report at once, one of     *)
(* them decides it, and only that one's action is carried out.             *)
OneDecision == Cardinality(decided) <= 1

(* A report that was resolved or dismissed, and an appeal that was granted *)
(* or denied, stays so: no late assignment, second decision or second      *)
(* appeal reopens it.                                                      *)
DecisionIsFinal ==
  [][/\ report \in {"resolved", "dismissed"} => report' = report
     /\ appeal \in {"granted", "denied"} => appeal' = appeal]_vars

(* The audit log names only actions that have a row and took effect.       *)
AuditIsTrue == \A q \in audited : acts[q] # "none" /\ q \in applied

(* Two moderators that reverse one action at once restore the target once. *)
RestoredOnce == \A q \in Reqs : restores[q] <= 1

(* A deleted target has a cause: a moderation action that stands, or was   *)
(* reversed before it was applied, a deletion by owner or administrator,   *)
(* or a restoration that is under way or failed. A reversed deletion does  *)
(* not linger.                                                             *)
DeletionHasCause ==
  deleted =>
    \/ others \/ failed
    \/ \E q \in applied : acts[q] \in {"delete_video", "remove_comment"}
                          /\ (q \notin reversed \/ q \in early)
    \/ \E q \in Reqs : pc[q] = "restore"

(* "Replace all roles with the new single role": a user has one role when  *)
(* no UpdateUser is under way, unless two overlapped or a statement of one *)
(* failed after the DELETE.                                                *)
OneRole == Quiet /\ ~ failed => Cardinality(roles) = 1

(* The types, and what concurrent requests keep of decisions, audit        *)
(* entries, reversals and roles.                                           *)
ActionInv == TypeOK /\ OneDecision /\ AuditIsTrue /\ RestoredOnce /\ OneRole
==============================================================================
