----------------------- MODULE ContentModerationProofs ------------------------
(***************************************************************************)
(* Proofs about ContentModeration, for any set of requests, every kind of  *)
(* target and every fault. A decision, a reversal and a role change each   *)
(* take several statements; the invariant says what a request may rely on  *)
(* between two of them, and what its history owes to them.                 *)
(***************************************************************************)
EXTENDS ContentModeration, FiniteSetTheorems, TLAPS

------------------------------------------------------------------------------
(* The types of TypeOK, one conjunct a variable. The flags, and the        *)
(* target, whose status depends on its kind, stand apart.                  *)
Typed ==
  /\ report \in {"none", "open", "assigned", "resolved", "dismissed"}
  /\ appeal \in {"none", "pending", "granted", "denied"}
  /\ acts \in [Reqs -> ActionTypes \cup {"none"}]
  /\ audited \subseteq Reqs
  /\ pc \in [Reqs -> {"new", "action", "apply", "audit", "reverse", "restore", "clear",
                      "grant", "over"}]
  /\ arg \in [Reqs -> ActionTypes \cup Roles \cup Reqs \cup {"none"}]
  /\ roles \subseteq Roles
  /\ decided \subseteq Reqs /\ applied \subseteq Reqs /\ early \subseteq Reqs
  /\ reversed \subseteq Reqs
  /\ restores \in [Reqs -> Nat]

Flags == deleted \in BOOLEAN /\ others \in BOOLEAN /\ failed \in BOOLEAN

Target ==
  /\ kind \in {"video", "comment", "user", "live_stream", "live_chat_message"}
  /\ shown \in States[kind]
  /\ deleted => kind \in {"video", "comment"}

(* What a request carries from one statement to the next: the type of its  *)
(* action, which is the type in the row it inserted, the row it is to      *)
(* reverse, or the role it is to grant.                                    *)
Errands ==
  /\ reversed \subseteq {q \in Reqs : acts[q] # "none"}
  /\ \A q \in Reqs :
       /\ pc[q] \in {"new", "action"} => acts[q] = "none"
       /\ pc[q] = "action" => arg[q] \in ActionTypes
       /\ pc[q] \in {"apply", "audit"} => acts[q] \in ActionTypes /\ acts[q] = arg[q]
       /\ pc[q] \in {"reverse", "restore"} => arg[q] \in Reqs /\ acts[arg[q]] # "none"
       /\ pc[q] = "grant" => arg[q] \in Roles

(* No other request changes the row a request has inserted or read.        *)
LEMMA ErrandsNext == ASSUME Typed, Errands, [Next]_vars PROVE Errands'
<1> USE DEF targetVars, reportVars, actVars, reqVars, history, Typed, Errands, Executed
<1>1. CASE InsertReport
  BY <1>1 DEF InsertReport
<1>2. CASE SubmitAppeal
  BY <1>2 DEF SubmitAppeal
<1>3. ASSUME NEW q \in Reqs, AssignReport(q) PROVE Errands'
  BY <1>3 DEF AssignReport, Goto
<1>4. ASSUME NEW q \in Reqs, UnassignReport(q) PROVE Errands'
  BY <1>4 DEF UnassignReport, Goto
<1>5. ASSUME NEW q \in Reqs, ResolveReport(q) PROVE Errands'
  BY <1>5 DEF ResolveReport, Proceed, Goto, Note
<1>6. ASSUME NEW q \in Reqs, DismissReport(q) PROVE Errands'
  BY <1>6 DEF DismissReport, Goto
<1>7. ASSUME NEW q \in Reqs, ResolveAppeal(q) PROVE Errands'
  BY <1>7 DEF ResolveAppeal, Goto
<1>8. ASSUME NEW q \in Reqs, ExecuteAction(q) PROVE Errands'
  BY <1>8 DEF ExecuteAction, Goto
<1>9. ASSUME NEW q \in Reqs, CreateAction(q) PROVE Errands'
  BY <1>9 DEF CreateAction, Proceed, Goto, Note
<1>10. ASSUME NEW q \in Reqs, ApplyAction(q) PROVE Errands'
  BY <1>10 DEF ApplyAction, Proceed, Goto, Note
<1>11. ASSUME NEW q \in Reqs, Audit(q) PROVE Errands'
  BY <1>11 DEF Audit, Goto, Note
<1>12. ASSUME NEW q \in Reqs, ReverseRead(q) PROVE Errands'
  BY <1>12 DEF ReverseRead, Goto
<1>13. ASSUME NEW q \in Reqs, ReverseUpdate(q) PROVE Errands'
  BY <1>13 DEF ReverseUpdate, Proceed, Goto
<1>14. ASSUME NEW q \in Reqs, ReverseRestore(q) PROVE Errands'
  BY <1>14 DEF ReverseRestore, Goto, Note
<1>15. ASSUME NEW q \in Reqs, AdminUpdateVideo(q) PROVE Errands'
  BY <1>15 DEF AdminUpdateVideo, Direct, SetShown, Goto, Note
<1>16. ASSUME NEW q \in Reqs, AdminDeleteVideo(q) PROVE Errands'
  BY <1>16 DEF AdminDeleteVideo, Direct, Goto
<1>17. ASSUME NEW q \in Reqs, AdminUpdateComment(q) PROVE Errands'
  BY <1>17 DEF AdminUpdateComment, Direct, SetShown, Goto, Note
<1>18. ASSUME NEW q \in Reqs, DeleteComment(q) PROVE Errands'
  BY <1>18 DEF DeleteComment, Direct, Goto
<1>19. ASSUME NEW q \in Reqs, UpdateUserStatus(q) PROVE Errands'
  BY <1>19 DEF UpdateUserStatus, Direct, Proceed, Goto, Note
<1>20. ASSUME NEW q \in Reqs, ClearRoles(q) PROVE Errands'
  BY <1>20 DEF ClearRoles, Proceed, Goto
<1>21. ASSUME NEW q \in Reqs, GrantRole(q) PROVE Errands'
  BY <1>21 DEF GrantRole, Goto, Note
<1>22. CASE UNCHANGED vars
  BY <1>22 DEF vars
<1> QED
  BY <1>1, <1>2, <1>3, <1>4, <1>5, <1>6, <1>7, <1>8, <1>9, <1>10,
     <1>11, <1>12, <1>13, <1>14, <1>15, <1>16, <1>17, <1>18, <1>19, <1>20,
     <1>21, <1>22
     DEF Next, CreateReport, ReportVideo, ReportUser, ReportLiveStream, ReportLiveChatMessage,
         Step, ServiceExecuteAction, ReverseAction, UpdateUser

(* Every statement keeps the types.                                        *)
LEMMA TypedNext == ASSUME Typed, Errands, [Next]_vars PROVE Typed'
<1> USE DEF targetVars, reportVars, actVars, reqVars, history, Typed, Executed
<1>1. CASE InsertReport
  BY <1>1 DEF InsertReport
<1>2. CASE SubmitAppeal
  BY <1>2 DEF SubmitAppeal
<1>3. ASSUME NEW q \in Reqs, AssignReport(q) PROVE Typed'
  BY <1>3 DEF AssignReport, Goto
<1>4. ASSUME NEW q \in Reqs, UnassignReport(q) PROVE Typed'
  BY <1>4 DEF UnassignReport, Goto
<1>5. ASSUME NEW q \in Reqs, ResolveReport(q) PROVE Typed'
  BY <1>5 DEF ResolveReport, Proceed, Goto, Note
<1>6. ASSUME NEW q \in Reqs, DismissReport(q) PROVE Typed'
  BY <1>6 DEF DismissReport, Goto
<1>7. ASSUME NEW q \in Reqs, ResolveAppeal(q) PROVE Typed'
  BY <1>7 DEF ResolveAppeal, Goto
<1>8. ASSUME NEW q \in Reqs, ExecuteAction(q) PROVE Typed'
  BY <1>8 DEF ExecuteAction, Goto
<1>9. ASSUME NEW q \in Reqs, CreateAction(q) PROVE Typed'
  BY <1>9 DEF CreateAction, Proceed, Goto, Note, Errands
<1>10. ASSUME NEW q \in Reqs, ApplyAction(q) PROVE Typed'
  BY <1>10 DEF ApplyAction, Proceed, Goto, Note
<1>11. ASSUME NEW q \in Reqs, Audit(q) PROVE Typed'
  BY <1>11 DEF Audit, Goto, Note
<1>12. ASSUME NEW q \in Reqs, ReverseRead(q) PROVE Typed'
  BY <1>12 DEF ReverseRead, Goto
<1>13. ASSUME NEW q \in Reqs, ReverseUpdate(q) PROVE Typed'
  BY <1>13 DEF ReverseUpdate, Proceed, Goto, Errands
<1>14. ASSUME NEW q \in Reqs, ReverseRestore(q) PROVE Typed'
  BY <1>14 DEF ReverseRestore, Goto, Note
<1>15. ASSUME NEW q \in Reqs, AdminUpdateVideo(q) PROVE Typed'
  BY <1>15 DEF AdminUpdateVideo, Direct, SetShown, Goto, Note
<1>16. ASSUME NEW q \in Reqs, AdminDeleteVideo(q) PROVE Typed'
  BY <1>16 DEF AdminDeleteVideo, Direct, Goto
<1>17. ASSUME NEW q \in Reqs, AdminUpdateComment(q) PROVE Typed'
  BY <1>17 DEF AdminUpdateComment, Direct, SetShown, Goto, Note
<1>18. ASSUME NEW q \in Reqs, DeleteComment(q) PROVE Typed'
  BY <1>18 DEF DeleteComment, Direct, Goto
<1>19. ASSUME NEW q \in Reqs, UpdateUserStatus(q) PROVE Typed'
  BY <1>19 DEF UpdateUserStatus, Direct, Proceed, Goto, Note
<1>20. ASSUME NEW q \in Reqs, ClearRoles(q) PROVE Typed'
  BY <1>20 DEF ClearRoles, Proceed, Goto
<1>21. ASSUME NEW q \in Reqs, GrantRole(q) PROVE Typed'
  BY <1>21 DEF GrantRole, Goto, Note, Errands
<1>22. CASE UNCHANGED vars
  BY <1>22 DEF vars
<1> QED
  BY <1>1, <1>2, <1>3, <1>4, <1>5, <1>6, <1>7, <1>8, <1>9, <1>10,
     <1>11, <1>12, <1>13, <1>14, <1>15, <1>16, <1>17, <1>18, <1>19, <1>20,
     <1>21, <1>22
     DEF Next, CreateReport, ReportVideo, ReportUser, ReportLiveStream, ReportLiveChatMessage,
         Step, ServiceExecuteAction, ReverseAction, UpdateUser

(* applyActionToTarget gives the target a status of its kind; it deletes   *)
(* only by delete_video and remove_comment, and restore_content undeletes  *)
(* whatever can be deleted.                                                *)
LEMMA ApplyKeeps ==
  ASSUME Flags, Target, NEW type, Apply(type), kind' = kind
  PROVE  /\ Target' /\ deleted' \in BOOLEAN /\ others' \in BOOLEAN
         /\ deleted' /\ ~ deleted => type \in {"delete_video", "remove_comment"}
         /\ type = "restore_content" => ~ deleted'
         /\ deleted' /\ deleted => others' = others
<1> USE DEF Flags, Target, Apply, Effect, States, Normal
<1>1. CASE kind = "video"
  BY <1>1
<1>2. CASE kind = "comment"
  BY <1>2
<1>3. CASE kind = "user"
  BY <1>3
<1>4. CASE kind = "live_stream"
  BY <1>4
<1>5. CASE kind = "live_chat_message"
  BY <1>5
<1> QED BY <1>1, <1>2, <1>3, <1>4, <1>5

(* The flags stay flags.                                                   *)
LEMMA FlagsNext == ASSUME Flags, Target, [Next]_vars PROVE Flags'
<1> USE DEF targetVars, reportVars, actVars, reqVars, history, Flags
<1>1. CASE InsertReport
  BY <1>1 DEF InsertReport
<1>2. CASE SubmitAppeal
  BY <1>2 DEF SubmitAppeal
<1>3. ASSUME NEW q \in Reqs, AssignReport(q) PROVE Flags'
  BY <1>3 DEF AssignReport, Goto
<1>4. ASSUME NEW q \in Reqs, UnassignReport(q) PROVE Flags'
  BY <1>4 DEF UnassignReport, Goto
<1>5. ASSUME NEW q \in Reqs, ResolveReport(q) PROVE Flags'
  BY <1>5 DEF ResolveReport, Proceed, Goto, Note
<1>6. ASSUME NEW q \in Reqs, DismissReport(q) PROVE Flags'
  BY <1>6 DEF DismissReport, Goto
<1>7. ASSUME NEW q \in Reqs, ResolveAppeal(q) PROVE Flags'
  BY <1>7 DEF ResolveAppeal, Goto
<1>8. ASSUME NEW q \in Reqs, ExecuteAction(q) PROVE Flags'
  BY <1>8 DEF ExecuteAction, Goto
<1>9. ASSUME NEW q \in Reqs, CreateAction(q) PROVE Flags'
  BY <1>9 DEF CreateAction, Proceed, Goto, Note
<1>10. ASSUME NEW q \in Reqs, ApplyAction(q) PROVE Flags'
  BY <1>10, ApplyKeeps DEF ApplyAction, Proceed, Goto, Note
<1>11. ASSUME NEW q \in Reqs, Audit(q) PROVE Flags'
  BY <1>11 DEF Audit, Goto, Note
<1>12. ASSUME NEW q \in Reqs, ReverseRead(q) PROVE Flags'
  BY <1>12 DEF ReverseRead, Goto
<1>13. ASSUME NEW q \in Reqs, ReverseUpdate(q) PROVE Flags'
  BY <1>13 DEF ReverseUpdate, Proceed, Goto
<1>14. ASSUME NEW q \in Reqs, ReverseRestore(q) PROVE Flags'
  BY <1>14, ApplyKeeps DEF ReverseRestore, Goto, Note
<1>15. ASSUME NEW q \in Reqs, AdminUpdateVideo(q) PROVE Flags'
  BY <1>15 DEF AdminUpdateVideo, Direct, SetShown, Goto, Note
<1>16. ASSUME NEW q \in Reqs, AdminDeleteVideo(q) PROVE Flags'
  BY <1>16 DEF AdminDeleteVideo, Direct, Goto
<1>17. ASSUME NEW q \in Reqs, AdminUpdateComment(q) PROVE Flags'
  BY <1>17 DEF AdminUpdateComment, Direct, SetShown, Goto, Note
<1>18. ASSUME NEW q \in Reqs, DeleteComment(q) PROVE Flags'
  BY <1>18 DEF DeleteComment, Direct, Goto
<1>19. ASSUME NEW q \in Reqs, UpdateUserStatus(q) PROVE Flags'
  BY <1>19 DEF UpdateUserStatus, Direct, Proceed, Goto, Note
<1>20. ASSUME NEW q \in Reqs, ClearRoles(q) PROVE Flags'
  BY <1>20 DEF ClearRoles, Proceed, Goto
<1>21. ASSUME NEW q \in Reqs, GrantRole(q) PROVE Flags'
  BY <1>21 DEF GrantRole, Goto, Note
<1>22. CASE UNCHANGED vars
  BY <1>22 DEF vars
<1> QED
  BY <1>1, <1>2, <1>3, <1>4, <1>5, <1>6, <1>7, <1>8, <1>9, <1>10,
     <1>11, <1>12, <1>13, <1>14, <1>15, <1>16, <1>17, <1>18, <1>19, <1>20,
     <1>21, <1>22
     DEF Next, CreateReport, ReportVideo, ReportUser, ReportLiveStream, ReportLiveChatMessage,
         Step, ServiceExecuteAction, ReverseAction, UpdateUser

(* No statement gives the target a status of another kind.                 *)
LEMMA TargetNext == ASSUME Flags, Target, [Next]_vars PROVE Target'
<1> USE DEF targetVars, reportVars, actVars, reqVars, history, Flags, Target
<1>1. CASE InsertReport
  BY <1>1 DEF InsertReport
<1>2. CASE SubmitAppeal
  BY <1>2 DEF SubmitAppeal
<1>3. ASSUME NEW q \in Reqs, AssignReport(q) PROVE Target'
  BY <1>3 DEF AssignReport, Goto
<1>4. ASSUME NEW q \in Reqs, UnassignReport(q) PROVE Target'
  BY <1>4 DEF UnassignReport, Goto
<1>5. ASSUME NEW q \in Reqs, ResolveReport(q) PROVE Target'
  BY <1>5 DEF ResolveReport, Proceed, Goto, Note
<1>6. ASSUME NEW q \in Reqs, DismissReport(q) PROVE Target'
  BY <1>6 DEF DismissReport, Goto
<1>7. ASSUME NEW q \in Reqs, ResolveAppeal(q) PROVE Target'
  BY <1>7 DEF ResolveAppeal, Goto
<1>8. ASSUME NEW q \in Reqs, ExecuteAction(q) PROVE Target'
  BY <1>8 DEF ExecuteAction, Goto
<1>9. ASSUME NEW q \in Reqs, CreateAction(q) PROVE Target'
  BY <1>9 DEF CreateAction, Proceed, Goto, Note
<1>10. ASSUME NEW q \in Reqs, ApplyAction(q) PROVE Target'
  BY <1>10, ApplyKeeps DEF ApplyAction
<1>11. ASSUME NEW q \in Reqs, Audit(q) PROVE Target'
  BY <1>11 DEF Audit, Goto, Note
<1>12. ASSUME NEW q \in Reqs, ReverseRead(q) PROVE Target'
  BY <1>12 DEF ReverseRead, Goto
<1>13. ASSUME NEW q \in Reqs, ReverseUpdate(q) PROVE Target'
  BY <1>13 DEF ReverseUpdate, Proceed, Goto
<1>14. ASSUME NEW q \in Reqs, ReverseRestore(q) PROVE Target'
  BY <1>14, ApplyKeeps DEF ReverseRestore
<1>15. ASSUME NEW q \in Reqs, AdminUpdateVideo(q) PROVE Target'
  BY <1>15 DEF AdminUpdateVideo, Direct, SetShown, Goto, Note
<1>16. ASSUME NEW q \in Reqs, AdminDeleteVideo(q) PROVE Target'
  BY <1>16 DEF AdminDeleteVideo, Direct, States
<1>17. ASSUME NEW q \in Reqs, AdminUpdateComment(q) PROVE Target'
  BY <1>17 DEF AdminUpdateComment, Direct, SetShown, Goto, Note
<1>18. ASSUME NEW q \in Reqs, DeleteComment(q) PROVE Target'
  BY <1>18 DEF DeleteComment, Direct, Goto
<1>19. ASSUME NEW q \in Reqs, UpdateUserStatus(q) PROVE Target'
  BY <1>19 DEF UpdateUserStatus, Direct, Proceed, Goto, Note
<1>20. ASSUME NEW q \in Reqs, ClearRoles(q) PROVE Target'
  BY <1>20 DEF ClearRoles, Proceed, Goto
<1>21. ASSUME NEW q \in Reqs, GrantRole(q) PROVE Target'
  BY <1>21 DEF GrantRole, Goto, Note
<1>22. CASE UNCHANGED vars
  BY <1>22 DEF vars
<1> QED
  BY <1>1, <1>2, <1>3, <1>4, <1>5, <1>6, <1>7, <1>8, <1>9, <1>10,
     <1>11, <1>12, <1>13, <1>14, <1>15, <1>16, <1>17, <1>18, <1>19, <1>20,
     <1>21, <1>22
     DEF Next, CreateReport, ReportVideo, ReportUser, ReportLiveStream, ReportLiveChatMessage,
         Step, ServiceExecuteAction, ReverseAction, UpdateUser

------------------------------------------------------------------------------
(* A decided report has one decider.                                       *)
Decision ==
  /\ decided # {} => report \in {"resolved", "dismissed"}
  /\ \A p, q \in decided : p = q

(* ResolveReport and DismissReport ask for an open report.                 *)
LEMMA DecisionNext == ASSUME Typed, Decision, [Next]_vars PROVE Decision'
<1> USE DEF targetVars, reportVars, actVars, reqVars, history, Typed, Decision, Executed
<1>1. CASE InsertReport
  BY <1>1 DEF InsertReport
<1>2. CASE SubmitAppeal
  BY <1>2 DEF SubmitAppeal
<1>3. ASSUME NEW q \in Reqs, AssignReport(q) PROVE Decision'
  BY <1>3 DEF AssignReport, Goto
<1>4. ASSUME NEW q \in Reqs, UnassignReport(q) PROVE Decision'
  BY <1>4 DEF UnassignReport, Goto
<1>5. ASSUME NEW q \in Reqs, ResolveReport(q) PROVE Decision'
  BY <1>5 DEF ResolveReport, Proceed, Goto, Note
<1>6. ASSUME NEW q \in Reqs, DismissReport(q) PROVE Decision'
  BY <1>6 DEF DismissReport, Goto
<1>7. ASSUME NEW q \in Reqs, ResolveAppeal(q) PROVE Decision'
  BY <1>7 DEF ResolveAppeal, Goto
<1>8. ASSUME NEW q \in Reqs, ExecuteAction(q) PROVE Decision'
  BY <1>8 DEF ExecuteAction, Goto
<1>9. ASSUME NEW q \in Reqs, CreateAction(q) PROVE Decision'
  BY <1>9 DEF CreateAction, Proceed, Goto, Note
<1>10. ASSUME NEW q \in Reqs, ApplyAction(q) PROVE Decision'
  BY <1>10 DEF ApplyAction, Proceed, Goto, Note
<1>11. ASSUME NEW q \in Reqs, Audit(q) PROVE Decision'
  BY <1>11 DEF Audit, Goto, Note
<1>12. ASSUME NEW q \in Reqs, ReverseRead(q) PROVE Decision'
  BY <1>12 DEF ReverseRead, Goto
<1>13. ASSUME NEW q \in Reqs, ReverseUpdate(q) PROVE Decision'
  BY <1>13 DEF ReverseUpdate, Proceed, Goto
<1>14. ASSUME NEW q \in Reqs, ReverseRestore(q) PROVE Decision'
  BY <1>14 DEF ReverseRestore, Goto, Note
<1>15. ASSUME NEW q \in Reqs, AdminUpdateVideo(q) PROVE Decision'
  BY <1>15 DEF AdminUpdateVideo, Direct, SetShown, Goto, Note
<1>16. ASSUME NEW q \in Reqs, AdminDeleteVideo(q) PROVE Decision'
  BY <1>16 DEF AdminDeleteVideo, Direct, Goto
<1>17. ASSUME NEW q \in Reqs, AdminUpdateComment(q) PROVE Decision'
  BY <1>17 DEF AdminUpdateComment, Direct, SetShown, Goto, Note
<1>18. ASSUME NEW q \in Reqs, DeleteComment(q) PROVE Decision'
  BY <1>18 DEF DeleteComment, Direct, Goto
<1>19. ASSUME NEW q \in Reqs, UpdateUserStatus(q) PROVE Decision'
  BY <1>19 DEF UpdateUserStatus, Direct, Proceed, Goto, Note
<1>20. ASSUME NEW q \in Reqs, ClearRoles(q) PROVE Decision'
  BY <1>20 DEF ClearRoles, Proceed, Goto
<1>21. ASSUME NEW q \in Reqs, GrantRole(q) PROVE Decision'
  BY <1>21 DEF GrantRole, Goto, Note
<1>22. CASE UNCHANGED vars
  BY <1>22 DEF vars
<1> QED
  BY <1>1, <1>2, <1>3, <1>4, <1>5, <1>6, <1>7, <1>8, <1>9, <1>10,
     <1>11, <1>12, <1>13, <1>14, <1>15, <1>16, <1>17, <1>18, <1>19, <1>20,
     <1>21, <1>22
     DEF Next, CreateReport, ReportVideo, ReportUser, ReportLiveStream, ReportLiveChatMessage,
         Step, ServiceExecuteAction, ReverseAction, UpdateUser

------------------------------------------------------------------------------
(* What took effect: an audit entry is written after it, and an action     *)
(* that is reversed before that is known to be early.                      *)
Effects ==
  /\ \A q \in Reqs :
       /\ pc[q] \in {"new", "action", "apply"} => q \notin applied
       /\ pc[q] = "audit" => q \in applied
  /\ \A q \in audited : acts[q] # "none" /\ q \in applied
  /\ reversed \subseteq applied \cup early

(* An action is applied once, by the request that inserted it.             *)
LEMMA EffectsNext == ASSUME Typed, Errands, Effects, [Next]_vars PROVE Effects'
<1> USE DEF targetVars, reportVars, actVars, reqVars, history, Typed, Errands, Effects,
           Executed
<1>1. CASE InsertReport
  BY <1>1 DEF InsertReport
<1>2. CASE SubmitAppeal
  BY <1>2 DEF SubmitAppeal
<1>3. ASSUME NEW q \in Reqs, AssignReport(q) PROVE Effects'
  BY <1>3 DEF AssignReport, Goto
<1>4. ASSUME NEW q \in Reqs, UnassignReport(q) PROVE Effects'
  BY <1>4 DEF UnassignReport, Goto
<1>5. ASSUME NEW q \in Reqs, ResolveReport(q) PROVE Effects'
  BY <1>5 DEF ResolveReport, Proceed, Goto, Note
<1>6. ASSUME NEW q \in Reqs, DismissReport(q) PROVE Effects'
  BY <1>6 DEF DismissReport, Goto
<1>7. ASSUME NEW q \in Reqs, ResolveAppeal(q) PROVE Effects'
  BY <1>7 DEF ResolveAppeal, Goto
<1>8. ASSUME NEW q \in Reqs, ExecuteAction(q) PROVE Effects'
  BY <1>8 DEF ExecuteAction, Goto
<1>9. ASSUME NEW q \in Reqs, CreateAction(q) PROVE Effects'
  BY <1>9 DEF CreateAction, Proceed, Goto, Note
<1>10. ASSUME NEW q \in Reqs, ApplyAction(q) PROVE Effects'
  BY <1>10 DEF ApplyAction, Proceed, Goto, Note
<1>11. ASSUME NEW q \in Reqs, Audit(q) PROVE Effects'
  BY <1>11 DEF Audit, Goto, Note, ActionTypes
<1>12. ASSUME NEW q \in Reqs, ReverseRead(q) PROVE Effects'
  BY <1>12 DEF ReverseRead, Goto
<1>13. ASSUME NEW q \in Reqs, ReverseUpdate(q) PROVE Effects'
  BY <1>13 DEF ReverseUpdate, Proceed, Goto
<1>14. ASSUME NEW q \in Reqs, ReverseRestore(q) PROVE Effects'
  BY <1>14 DEF ReverseRestore, Goto, Note
<1>15. ASSUME NEW q \in Reqs, AdminUpdateVideo(q) PROVE Effects'
  BY <1>15 DEF AdminUpdateVideo, Direct, SetShown, Goto, Note
<1>16. ASSUME NEW q \in Reqs, AdminDeleteVideo(q) PROVE Effects'
  BY <1>16 DEF AdminDeleteVideo, Direct, Goto
<1>17. ASSUME NEW q \in Reqs, AdminUpdateComment(q) PROVE Effects'
  BY <1>17 DEF AdminUpdateComment, Direct, SetShown, Goto, Note
<1>18. ASSUME NEW q \in Reqs, DeleteComment(q) PROVE Effects'
  BY <1>18 DEF DeleteComment, Direct, Goto
<1>19. ASSUME NEW q \in Reqs, UpdateUserStatus(q) PROVE Effects'
  BY <1>19 DEF UpdateUserStatus, Direct, Proceed, Goto, Note
<1>20. ASSUME NEW q \in Reqs, ClearRoles(q) PROVE Effects'
  BY <1>20 DEF ClearRoles, Proceed, Goto
<1>21. ASSUME NEW q \in Reqs, GrantRole(q) PROVE Effects'
  BY <1>21 DEF GrantRole, Goto, Note
<1>22. CASE UNCHANGED vars
  BY <1>22 DEF vars
<1> QED
  BY <1>1, <1>2, <1>3, <1>4, <1>5, <1>6, <1>7, <1>8, <1>9, <1>10,
     <1>11, <1>12, <1>13, <1>14, <1>15, <1>16, <1>17, <1>18, <1>19, <1>20,
     <1>21, <1>22
     DEF Next, CreateReport, ReportVideo, ReportUser, ReportLiveStream, ReportLiveChatMessage,
         Step, ServiceExecuteAction, ReverseAction, UpdateUser

------------------------------------------------------------------------------
(* Between the UPDATE of reversed_at and the restoration one request owns  *)
(* the reversal of a row.                                                  *)
Reversals ==
  /\ \A a \in Reqs : restores[a] <= 1 /\ (a \notin reversed => restores[a] = 0)
  /\ \A q \in Reqs : pc[q] = "restore" => arg[q] \in reversed /\ restores[arg[q]] = 0
  /\ \A p, q \in Reqs : pc[p] = "restore" /\ pc[q] = "restore" /\ arg[p] = arg[q] => p = q

(* The UPDATE asks for reversed_at IS NULL.                                *)
LEMMA ReversalsNext == ASSUME Typed, Errands, Reversals, [Next]_vars PROVE Reversals'
<1> USE DEF targetVars, reportVars, actVars, reqVars, history, Typed, Errands, Reversals,
           Executed
<1>1. CASE InsertReport
  BY <1>1 DEF InsertReport
<1>2. CASE SubmitAppeal
  BY <1>2 DEF SubmitAppeal
<1>3. ASSUME NEW q \in Reqs, AssignReport(q) PROVE Reversals'
  BY <1>3 DEF AssignReport, Goto
<1>4. ASSUME NEW q \in Reqs, UnassignReport(q) PROVE Reversals'
  BY <1>4 DEF UnassignReport, Goto
<1>5. ASSUME NEW q \in Reqs, ResolveReport(q) PROVE Reversals'
  BY <1>5 DEF ResolveReport, Proceed, Goto, Note
<1>6. ASSUME NEW q \in Reqs, DismissReport(q) PROVE Reversals'
  BY <1>6 DEF DismissReport, Goto
<1>7. ASSUME NEW q \in Reqs, ResolveAppeal(q) PROVE Reversals'
  BY <1>7 DEF ResolveAppeal, Goto
<1>8. ASSUME NEW q \in Reqs, ExecuteAction(q) PROVE Reversals'
  BY <1>8 DEF ExecuteAction, Goto
<1>9. ASSUME NEW q \in Reqs, CreateAction(q) PROVE Reversals'
  BY <1>9 DEF CreateAction, Proceed, Goto, Note
<1>10. ASSUME NEW q \in Reqs, ApplyAction(q) PROVE Reversals'
  BY <1>10 DEF ApplyAction, Proceed, Goto, Note
<1>11. ASSUME NEW q \in Reqs, Audit(q) PROVE Reversals'
  BY <1>11 DEF Audit, Goto, Note
<1>12. ASSUME NEW q \in Reqs, ReverseRead(q) PROVE Reversals'
  BY <1>12 DEF ReverseRead, Goto
<1>13. ASSUME NEW q \in Reqs, ReverseUpdate(q) PROVE Reversals'
  BY <1>13 DEF ReverseUpdate, Proceed, Goto
<1>14. ASSUME NEW q \in Reqs, ReverseRestore(q) PROVE Reversals'
  BY <1>14 DEF ReverseRestore, Goto, Note
<1>15. ASSUME NEW q \in Reqs, AdminUpdateVideo(q) PROVE Reversals'
  BY <1>15 DEF AdminUpdateVideo, Direct, SetShown, Goto, Note
<1>16. ASSUME NEW q \in Reqs, AdminDeleteVideo(q) PROVE Reversals'
  BY <1>16 DEF AdminDeleteVideo, Direct, Goto
<1>17. ASSUME NEW q \in Reqs, AdminUpdateComment(q) PROVE Reversals'
  BY <1>17 DEF AdminUpdateComment, Direct, SetShown, Goto, Note
<1>18. ASSUME NEW q \in Reqs, DeleteComment(q) PROVE Reversals'
  BY <1>18 DEF DeleteComment, Direct, Goto
<1>19. ASSUME NEW q \in Reqs, UpdateUserStatus(q) PROVE Reversals'
  BY <1>19 DEF UpdateUserStatus, Direct, Proceed, Goto, Note
<1>20. ASSUME NEW q \in Reqs, ClearRoles(q) PROVE Reversals'
  BY <1>20 DEF ClearRoles, Proceed, Goto
<1>21. ASSUME NEW q \in Reqs, GrantRole(q) PROVE Reversals'
  BY <1>21 DEF GrantRole, Goto, Note
<1>22. CASE UNCHANGED vars
  BY <1>22 DEF vars
<1> QED
  BY <1>1, <1>2, <1>3, <1>4, <1>5, <1>6, <1>7, <1>8, <1>9, <1>10,
     <1>11, <1>12, <1>13, <1>14, <1>15, <1>16, <1>17, <1>18, <1>19, <1>20,
     <1>21, <1>22
     DEF Next, CreateReport, ReportVideo, ReportUser, ReportLiveStream, ReportLiveChatMessage,
         Step, ServiceExecuteAction, ReverseAction, UpdateUser

------------------------------------------------------------------------------
(* Why the target is deleted; Standing are the deleting actions that       *)
(* nobody has reversed since they took effect.                             *)
Standing == {q \in applied : /\ acts[q] \in {"delete_video", "remove_comment"}
                             /\ q \notin reversed \/ q \in early}

Cause == deleted => \/ others \/ failed
                    \/ Standing # {}
                    \/ \E q \in Reqs : pc[q] = "restore"

(* The request that reverses the last standing action restores the target. *)
LEMMA CauseNext == ASSUME Typed, Flags, Target, Errands, Effects, Cause, [Next]_vars PROVE Cause'
<1> USE DEF targetVars, reportVars, actVars, reqVars, history, Typed, Executed
<1>1. CASE InsertReport
  BY <1>1 DEF InsertReport, Cause, Standing
<1>2. CASE SubmitAppeal
  BY <1>2 DEF SubmitAppeal, Cause, Standing
<1>3. ASSUME NEW q \in Reqs, AssignReport(q) PROVE Cause'
  BY <1>3 DEF AssignReport, Goto, Cause, Standing
<1>4. ASSUME NEW q \in Reqs, UnassignReport(q) PROVE Cause'
  BY <1>4 DEF UnassignReport, Goto, Cause, Standing
<1>5. ASSUME NEW q \in Reqs, ResolveReport(q) PROVE Cause'
  BY <1>5 DEF ResolveReport, Proceed, Goto, Note, Cause, Standing
<1>6. ASSUME NEW q \in Reqs, DismissReport(q) PROVE Cause'
  BY <1>6 DEF DismissReport, Goto, Cause, Standing
<1>7. ASSUME NEW q \in Reqs, ResolveAppeal(q) PROVE Cause'
  BY <1>7 DEF ResolveAppeal, Goto, Cause, Standing
<1>8. ASSUME NEW q \in Reqs, ExecuteAction(q) PROVE Cause'
  BY <1>8 DEF ExecuteAction, Goto, Cause, Standing
<1>9. ASSUME NEW q \in Reqs, CreateAction(q) PROVE Cause'
  <2>1. UNCHANGED <<deleted, others, applied, reversed, early>> /\ (failed => failed')
    BY <1>9 DEF CreateAction, Note
  <2>2. \A p \in applied : acts'[p] = acts[p]
    BY <1>9 DEF CreateAction, Effects
  <2>3. Standing \subseteq Standing'
    BY <2>1, <2>2 DEF Standing
  <2>4. \A p \in Reqs : pc[p] = "restore" => pc'[p] = "restore"
    BY <1>9 DEF CreateAction, Proceed, Goto
  <2> QED BY <2>1, <2>3, <2>4 DEF Cause
<1>10. ASSUME NEW q \in Reqs, ApplyAction(q) PROVE Cause'
  <2>1. CASE failed' \/ others' \/ ~ deleted'
    BY <2>1 DEF Cause
  <2>2. CASE ~ failed' /\ ~ others' /\ deleted'
    <3>1. Apply(arg[q]) /\ applied' = applied \cup {q} /\ pc' = [pc EXCEPT ![q] = "audit"]
      BY <1>10, <2>2 DEF ApplyAction, Proceed, Goto, Note
    <3>2. UNCHANGED <<kind, acts, reversed, early>> /\ pc[q] = "apply" /\ ~ failed
      BY <1>10, <2>2 DEF ApplyAction, Note
    <3>3. CASE deleted
      BY <2>2, <3>1, <3>2, <3>3, ApplyKeeps DEF Cause, Standing
    <3>4. CASE ~ deleted
      <4>1. arg[q] \in {"delete_video", "remove_comment"}
        BY <2>2, <3>1, <3>2, <3>4, ApplyKeeps
      <4>2. q \in Standing'
        BY <3>1, <3>2, <4>1 DEF Standing, Errands, Effects
      <4> QED BY <4>2 DEF Cause
    <3> QED BY <3>3, <3>4
  <2> QED BY <2>1, <2>2 DEF Flags
<1>11. ASSUME NEW q \in Reqs, Audit(q) PROVE Cause'
  BY <1>11 DEF Audit, Goto, Note, Cause, Standing
<1>12. ASSUME NEW q \in Reqs, ReverseRead(q) PROVE Cause'
  BY <1>12 DEF ReverseRead, Goto, Cause, Standing
<1>13. ASSUME NEW q \in Reqs, ReverseUpdate(q) PROVE Cause'
  <2>1. CASE failed' \/ others' \/ ~ deleted'
    BY <2>1 DEF Cause
  <2>2. CASE ~ failed' /\ ~ others' /\ deleted'
    <3>1. ~ failed /\ ~ others /\ deleted
      BY <1>13, <2>2 DEF ReverseUpdate
    <3>2. CASE \E p \in Reqs : pc[p] = "restore"
      BY <1>13, <3>2 DEF Cause, ReverseUpdate, Proceed, Goto
    <3>3. CASE Standing # {}
      <4> PICK p \in Standing : TRUE
        BY <3>3
      <4>1. CASE p \in Standing'
        BY <4>1 DEF Cause
      <4>2. CASE p \notin Standing'
        <5>1. p = arg[q] /\ p \in reversed' /\ p \notin reversed /\ acts[p] \in Restorable
          BY <1>13, <4>2 DEF ReverseUpdate, Standing, Restorable
        <5>2. pc' = [pc EXCEPT ![q] = "restore"]
          BY <1>13, <2>2, <5>1 DEF ReverseUpdate, Proceed, Goto
        <5> QED BY <5>2 DEF Cause
      <4> QED BY <4>1, <4>2
    <3> QED BY <3>1, <3>2, <3>3 DEF Cause
  <2> QED BY <2>1, <2>2 DEF Flags
<1>14. ASSUME NEW q \in Reqs, ReverseRestore(q) PROVE Cause'
  <2>1. CASE failed'
    BY <2>1 DEF Cause
  <2>2. CASE ~ failed'
    <3>1. Apply("restore_content") /\ kind' = kind
      BY <1>14, <2>2 DEF ReverseRestore, Note
    <3> QED BY <3>1, ApplyKeeps DEF Cause
  <2> QED BY <2>1, <2>2
<1>15. ASSUME NEW q \in Reqs, AdminUpdateVideo(q) PROVE Cause'
  BY <1>15 DEF AdminUpdateVideo, Direct, SetShown, Goto, Note, Cause, Standing
<1>16. ASSUME NEW q \in Reqs, AdminDeleteVideo(q) PROVE Cause'
  BY <1>16 DEF AdminDeleteVideo, Direct, Goto, Cause, Standing
<1>17. ASSUME NEW q \in Reqs, AdminUpdateComment(q) PROVE Cause'
  BY <1>17 DEF AdminUpdateComment, Direct, SetShown, Goto, Note, Cause, Standing
<1>18. ASSUME NEW q \in Reqs, DeleteComment(q) PROVE Cause'
  BY <1>18 DEF DeleteComment, Direct, Goto, Cause, Standing
<1>19. ASSUME NEW q \in Reqs, UpdateUserStatus(q) PROVE Cause'
  BY <1>19 DEF UpdateUserStatus, Direct, Proceed, Goto, Note, Cause, Standing
<1>20. ASSUME NEW q \in Reqs, ClearRoles(q) PROVE Cause'
  BY <1>20 DEF ClearRoles, Proceed, Goto, Cause, Standing
<1>21. ASSUME NEW q \in Reqs, GrantRole(q) PROVE Cause'
  BY <1>21 DEF GrantRole, Goto, Note, Cause, Standing
<1>22. CASE UNCHANGED vars
  BY <1>22 DEF vars, Cause, Standing
<1> QED
  BY <1>1, <1>2, <1>3, <1>4, <1>5, <1>6, <1>7, <1>8, <1>9, <1>10,
     <1>11, <1>12, <1>13, <1>14, <1>15, <1>16, <1>17, <1>18, <1>19, <1>20,
     <1>21, <1>22
     DEF Next, CreateReport, ReportVideo, ReportUser, ReportLiveStream, ReportLiveChatMessage,
         Step, ServiceExecuteAction, ReverseAction, UpdateUser

------------------------------------------------------------------------------
(* Role changes that did not overlap: the one request between DELETE and   *)
(* INSERT finds the user without roles.                                    *)
Granters == {q \in Reqs : pc[q] = "grant"}

Granting ==
  \/ failed
  \/ Granters = {} /\ \E r \in Roles : roles = {r}
  \/ roles = {} /\ \E q \in Reqs : Granters = {q}

(* A step that neither clears nor grants roles.                            *)
LEMMA GrantersSame ==
  ASSUME Granting, Granters' = Granters, roles' = roles, failed => failed'
  PROVE  Granting'
BY DEF Granting

(* ClearRoles and GrantRole replace one role by another.                   *)
LEMMA GrantingNext == ASSUME Typed, Flags, Errands, Granting, [Next]_vars PROVE Granting'
<1> USE DEF targetVars, reportVars, actVars, reqVars, history, Typed, Executed
<1>1. CASE InsertReport
  BY <1>1, GrantersSame DEF InsertReport, Granters
<1>2. CASE SubmitAppeal
  BY <1>2, GrantersSame DEF SubmitAppeal, Granters
<1>3. ASSUME NEW q \in Reqs, AssignReport(q) PROVE Granting'
  BY <1>3, GrantersSame DEF AssignReport, Goto, Granters
<1>4. ASSUME NEW q \in Reqs, UnassignReport(q) PROVE Granting'
  BY <1>4, GrantersSame DEF UnassignReport, Goto, Granters
<1>5. ASSUME NEW q \in Reqs, ResolveReport(q) PROVE Granting'
  BY <1>5, GrantersSame DEF ResolveReport, Proceed, Goto, Note, Granters
<1>6. ASSUME NEW q \in Reqs, DismissReport(q) PROVE Granting'
  BY <1>6, GrantersSame DEF DismissReport, Goto, Granters
<1>7. ASSUME NEW q \in Reqs, ResolveAppeal(q) PROVE Granting'
  BY <1>7, GrantersSame DEF ResolveAppeal, Goto, Granters
<1>8. ASSUME NEW q \in Reqs, ExecuteAction(q) PROVE Granting'
  BY <1>8, GrantersSame DEF ExecuteAction, Goto, Granters
<1>9. ASSUME NEW q \in Reqs, CreateAction(q) PROVE Granting'
  BY <1>9, GrantersSame DEF CreateAction, Proceed, Goto, Note, Granters
<1>10. ASSUME NEW q \in Reqs, ApplyAction(q) PROVE Granting'
  BY <1>10, GrantersSame DEF ApplyAction, Proceed, Goto, Note, Granters
<1>11. ASSUME NEW q \in Reqs, Audit(q) PROVE Granting'
  BY <1>11, GrantersSame DEF Audit, Goto, Note, Granters
<1>12. ASSUME NEW q \in Reqs, ReverseRead(q) PROVE Granting'
  BY <1>12, GrantersSame DEF ReverseRead, Goto, Granters
<1>13. ASSUME NEW q \in Reqs, ReverseUpdate(q) PROVE Granting'
  BY <1>13, GrantersSame DEF ReverseUpdate, Proceed, Goto, Granters
<1>14. ASSUME NEW q \in Reqs, ReverseRestore(q) PROVE Granting'
  BY <1>14, GrantersSame DEF ReverseRestore, Goto, Note, Granters
<1>15. ASSUME NEW q \in Reqs, AdminUpdateVideo(q) PROVE Granting'
  BY <1>15, GrantersSame DEF AdminUpdateVideo, Direct, SetShown, Goto, Note, Granters
<1>16. ASSUME NEW q \in Reqs, AdminDeleteVideo(q) PROVE Granting'
  BY <1>16, GrantersSame DEF AdminDeleteVideo, Direct, Goto, Granters
<1>17. ASSUME NEW q \in Reqs, AdminUpdateComment(q) PROVE Granting'
  BY <1>17, GrantersSame DEF AdminUpdateComment, Direct, SetShown, Goto, Note, Granters
<1>18. ASSUME NEW q \in Reqs, DeleteComment(q) PROVE Granting'
  BY <1>18, GrantersSame DEF DeleteComment, Direct, Goto, Granters
<1>19. ASSUME NEW q \in Reqs, UpdateUserStatus(q) PROVE Granting'
  BY <1>19, GrantersSame DEF UpdateUserStatus, Direct, Proceed, Goto, Note, Granters
<1>20. ASSUME NEW q \in Reqs, ClearRoles(q) PROVE Granting'
  <2>1. CASE failed'
    BY <2>1 DEF Granting
  <2>2. CASE ~ failed'
    <3>1. roles' = {} /\ Granters = {} /\ pc' = [pc EXCEPT ![q] = "grant"]
      BY <1>20, <2>2 DEF ClearRoles, Proceed, Goto, Granters
    <3>2. Granters' = {q}
      BY <1>20, <3>1 DEF Granters
    <3> QED BY <1>20, <3>1, <3>2 DEF Granting
  <2> QED BY <2>1, <2>2
<1>21. ASSUME NEW q \in Reqs, GrantRole(q) PROVE Granting'
  <2>1. CASE failed'
    BY <2>1 DEF Granting
  <2>2. CASE ~ failed'
    <3>1. ~ failed /\ roles' = roles \cup {arg[q]} /\ pc' = [pc EXCEPT ![q] = "over"]
      BY <1>21, <2>2 DEF GrantRole, Goto, Note
    <3>2. roles = {} /\ Granters = {q}
      BY <1>21, <3>1 DEF Granting, Granters, GrantRole
    <3>3. Granters' = {} /\ roles' = {arg[q]} /\ arg[q] \in Roles
      BY <1>21, <3>1, <3>2 DEF Granters, GrantRole, Errands
    <3> QED BY <3>3 DEF Granting
  <2> QED BY <2>1, <2>2
<1>22. CASE UNCHANGED vars
  BY <1>22, GrantersSame DEF vars, Granters
<1> QED
  BY <1>1, <1>2, <1>3, <1>4, <1>5, <1>6, <1>7, <1>8, <1>9, <1>10,
     <1>11, <1>12, <1>13, <1>14, <1>15, <1>16, <1>17, <1>18, <1>19, <1>20,
     <1>21, <1>22
     DEF Next, CreateReport, ReportVideo, ReportUser, ReportLiveStream, ReportLiveChatMessage,
         Step, ServiceExecuteAction, ReverseAction, UpdateUser

------------------------------------------------------------------------------
Inv ==
  /\ Typed /\ Flags /\ Target /\ Errands
  /\ Decision /\ Effects /\ Reversals
  /\ Cause /\ Granting

LEMMA InvInit == Init => Inv
<1> SUFFICES ASSUME Init PROVE Inv
  OBVIOUS
<1>1. Typed /\ Errands
  BY DEF Init, Typed, Errands, Roles
<1>2. kind \in {"video", "comment", "user", "live_stream", "live_chat_message"}
  BY DEF Init, States
<1>3. shown \in States[kind]
  <2> USE DEF Init, States, Normal
  <2>1. CASE kind = "video"
    BY <2>1
  <2>2. CASE kind = "comment"
    BY <2>2
  <2>3. CASE kind = "user"
    BY <2>3
  <2>4. CASE kind = "live_stream"
    BY <2>4
  <2>5. CASE kind = "live_chat_message"
    BY <2>5
  <2> QED BY <1>2, <2>1, <2>2, <2>3, <2>4, <2>5
<1>4. Flags /\ Target
  BY <1>2, <1>3 DEF Init, Flags, Target
<1>5. Decision /\ Effects /\ Reversals
  BY DEF Init, Decision, Effects, Reversals
<1>6. Cause
  BY DEF Init, Cause
<1>7. Granters = {} /\ roles = {"user"}
  BY DEF Init, Granters
<1>8. Granting
  BY <1>7 DEF Granting, Roles
<1> QED BY <1>1, <1>4, <1>5, <1>6, <1>8 DEF Inv

(* The invariant of every behaviour, from which the theorems follow.       *)
LEMMA InvHolds == Spec => []Inv
<1>1. Inv /\ [Next]_vars => Inv'
  BY TypedNext, FlagsNext, TargetNext, ErrandsNext, DecisionNext, EffectsNext,
     ReversalsNext, CauseNext, GrantingNext DEF Inv
<1> QED BY InvInit, <1>1, PTL DEF Spec

LEMMA InvTypes == Inv => TypeOK
<1> SUFFICES ASSUME Inv PROVE TypeOK
  OBVIOUS
<1>1. kind \in DOMAIN States /\ shown \in States[kind]
  BY DEF Inv, Target, States
<1>2. deleted \in BOOLEAN /\ {others, failed} \subseteq BOOLEAN
  BY DEF Inv, Flags
<1> QED BY <1>1, <1>2 DEF Inv, Typed, Errands, TypeOK

(* A set with no two different members has at most one.                    *)
LEMMA AtMostOne ==
  ASSUME NEW S, \A x, y \in S : x = y
  PROVE  Cardinality(S) <= 1
<1>1. CASE S = {}
  BY <1>1, FS_EmptySet
<1>2. CASE S # {}
  <2> PICK x \in S : TRUE
    BY <1>2
  <2>1. S = {x}
    OBVIOUS
  <2> QED BY <2>1, FS_Singleton
<1> QED BY <1>1, <1>2

------------------------------------------------------------------------------
(* The types; however many moderators decide a report one of them does;    *)
(* the audit log names only actions that took effect; an action reversed   *)
(* by two moderators at once is undone once; and UpdateUser leaves one     *)
(* role, unless two overlapped or a statement failed.                      *)
THEOREM ActionInvHolds == Spec => []ActionInv
<1>1. Inv => OneDecision
  BY AtMostOne DEF Inv, Decision, OneDecision
<1>2. Inv => AuditIsTrue /\ RestoredOnce
  BY DEF Inv, Effects, Reversals, AuditIsTrue, RestoredOnce
<1>3. ASSUME Inv PROVE OneRole
  <2> SUFFICES ASSUME Quiet, ~ failed PROVE Cardinality(roles) = 1
    BY DEF OneRole
  <2>1. Granters = {}
    BY DEF Quiet, Granters
  <2>2. PICK r \in Roles : roles = {r}
    BY <1>3, <2>1 DEF Inv, Granting
  <2> QED BY <2>2, FS_Singleton
<1> QED BY <1>1, <1>2, <1>3, InvTypes, InvHolds, PTL DEF ActionInv

(* A deleted target has a cause: a moderation action that stands or was    *)
(* reversed too early, a deletion by owner or administrator, or a          *)
(* restoration that is under way or failed.                                *)
THEOREM DeletionHasCauseHolds == Spec => []DeletionHasCause
<1>1. Inv => DeletionHasCause
  BY DEF Inv, Cause, Standing, DeletionHasCause
<1> QED BY <1>1, InvHolds, PTL

(* What DecisionIsFinal asks of a step.                                    *)
Final ==
  /\ report \in {"resolved", "dismissed"} => report' = report
  /\ appeal \in {"granted", "denied"} => appeal' = appeal

(* Every UPDATE of a report or an appeal asks for one that is still open.  *)
LEMMA StepIsFinal == ASSUME [Next]_vars PROVE Final
<1> USE DEF targetVars, reportVars, actVars, reqVars, history, Final
<1>1. CASE InsertReport
  BY <1>1 DEF InsertReport
<1>2. CASE SubmitAppeal
  BY <1>2 DEF SubmitAppeal
<1>3. ASSUME NEW q \in Reqs, AssignReport(q) PROVE Final
  BY <1>3 DEF AssignReport
<1>4. ASSUME NEW q \in Reqs, UnassignReport(q) PROVE Final
  BY <1>4 DEF UnassignReport
<1>5. ASSUME NEW q \in Reqs, ResolveReport(q) PROVE Final
  BY <1>5 DEF ResolveReport
<1>6. ASSUME NEW q \in Reqs, DismissReport(q) PROVE Final
  BY <1>6 DEF DismissReport
<1>7. ASSUME NEW q \in Reqs, ResolveAppeal(q) PROVE Final
  BY <1>7 DEF ResolveAppeal
<1>8. ASSUME NEW q \in Reqs, ExecuteAction(q) PROVE Final
  BY <1>8 DEF ExecuteAction
<1>9. ASSUME NEW q \in Reqs, CreateAction(q) PROVE Final
  BY <1>9 DEF CreateAction
<1>10. ASSUME NEW q \in Reqs, ApplyAction(q) PROVE Final
  BY <1>10 DEF ApplyAction
<1>11. ASSUME NEW q \in Reqs, Audit(q) PROVE Final
  BY <1>11 DEF Audit
<1>12. ASSUME NEW q \in Reqs, ReverseRead(q) PROVE Final
  BY <1>12 DEF ReverseRead
<1>13. ASSUME NEW q \in Reqs, ReverseUpdate(q) PROVE Final
  BY <1>13 DEF ReverseUpdate
<1>14. ASSUME NEW q \in Reqs, ReverseRestore(q) PROVE Final
  BY <1>14 DEF ReverseRestore
<1>15. ASSUME NEW q \in Reqs, AdminUpdateVideo(q) PROVE Final
  BY <1>15 DEF AdminUpdateVideo, SetShown
<1>16. ASSUME NEW q \in Reqs, AdminDeleteVideo(q) PROVE Final
  BY <1>16 DEF AdminDeleteVideo
<1>17. ASSUME NEW q \in Reqs, AdminUpdateComment(q) PROVE Final
  BY <1>17 DEF AdminUpdateComment, SetShown
<1>18. ASSUME NEW q \in Reqs, DeleteComment(q) PROVE Final
  BY <1>18 DEF DeleteComment
<1>19. ASSUME NEW q \in Reqs, UpdateUserStatus(q) PROVE Final
  BY <1>19 DEF UpdateUserStatus
<1>20. ASSUME NEW q \in Reqs, ClearRoles(q) PROVE Final
  BY <1>20 DEF ClearRoles
<1>21. ASSUME NEW q \in Reqs, GrantRole(q) PROVE Final
  BY <1>21 DEF GrantRole
<1>22. CASE UNCHANGED vars
  BY <1>22 DEF vars
<1> QED
  BY <1>1, <1>2, <1>3, <1>4, <1>5, <1>6, <1>7, <1>8, <1>9, <1>10,
     <1>11, <1>12, <1>13, <1>14, <1>15, <1>16, <1>17, <1>18, <1>19, <1>20,
     <1>21, <1>22
     DEF Next, CreateReport, ReportVideo, ReportUser, ReportLiveStream, ReportLiveChatMessage,
         Step, ServiceExecuteAction, ReverseAction, UpdateUser

(* A report that was resolved or dismissed, and an appeal that was granted *)
(* or denied, stays so, whatever requests arrive late.                     *)
THEOREM DecisionIsFinalHolds == Spec => DecisionIsFinal
<1>1. [Next]_vars => [Final]_vars
  BY StepIsFinal
<1>2. Spec => [][Final]_vars
  BY <1>1, PTL DEF Spec
<1> QED BY <1>2 DEF DecisionIsFinal, Final
==============================================================================
