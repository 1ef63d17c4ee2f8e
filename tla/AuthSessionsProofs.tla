-------------------------- MODULE AuthSessionsProofs --------------------------
(***************************************************************************)
(* Proofs about AuthSessions, for any set of requests, finite or not, any  *)
(* number of them in flight and every fault. A request takes several       *)
(* statements, so each part of the inductive invariant says what a request *)
(* between two of them may rely on, whatever the others have done since.   *)
(***************************************************************************)
EXTENDS AuthSessions, FiniteSetTheorems, TLAPS

------------------------------------------------------------------------------
(* The types of TypeOK, one conjunct a variable; the flags stand apart,    *)
(* for a prover of their own.                                              *)
Typed ==
  /\ status \in {"active", "suspended"}
  /\ password \in Nat
  /\ row \in [Reqs -> {"none", "live", "revoked", "open", "used"}]
  /\ family \in [Reqs -> Reqs]
  /\ overdue \subseteq Reqs
  /\ given \subseteq {q \in Reqs : row[q] # "none"}
  /\ pc \in [Reqs -> {"new", "user", "role", "session", "burn", "revoke", "rotate",
                      "reset", "change", "mark", "revokeAll", "done"}]
  /\ arg \in [Reqs -> Reqs]
  /\ verified \in [Reqs -> Nat]
  /\ answered \subseteq Reqs /\ raced \subseteq Reqs /\ burned \subseteq Reqs
  /\ straddled \subseteq Reqs /\ reopened \subseteq Reqs
  /\ settled \in Nat
  /\ resets \in [Reqs -> Nat]

Flags == registered \in BOOLEAN /\ role \in BOOLEAN

(* Every statement keeps the types.                                        *)
LEMMA TypedNext == ASSUME Typed, [Next]_vars PROVE Typed'
<1> USE DEF userVars, tokenVars, reqVars, history, Typed, Sessions, Opening, Executed
<1>1. ASSUME NEW q \in Reqs, RegisterRead(q) PROVE Typed'
  BY <1>1 DEF RegisterRead, Arrives, Goto
<1>2. ASSUME NEW q \in Reqs, CreateUser(q) PROVE Typed'
  BY <1>2 DEF CreateUser, Proceed, Goto
<1>3. ASSUME NEW q \in Reqs, AssignDefaultRole(q) PROVE Typed'
  BY <1>3 DEF AssignDefaultRole, Proceed, Goto
<1>4. ASSUME NEW q \in Reqs, LoginRead(q) PROVE Typed'
  BY <1>4 DEF LoginRead, Arrives, Goto
<1>5. ASSUME NEW q \in Reqs, OpenSession(q) PROVE Typed'
  BY <1>5 DEF OpenSession, Insert, Goto
<1>6. ASSUME NEW q \in Reqs, RefreshRead(q) PROVE Typed'
  BY <1>6 DEF RefreshRead, Arrives, Goto
<1>7. ASSUME NEW q \in Reqs, BurnFamily(q) PROVE Typed'
  BY <1>7 DEF BurnFamily, RevokeWhere, Goto
<1>8. ASSUME NEW q \in Reqs, RevokeOld(q) PROVE Typed'
  BY <1>8 DEF RevokeOld, Proceed, Goto
<1>9. ASSUME NEW q \in Reqs, Rotate(q) PROVE Typed'
  BY <1>9 DEF Rotate, Insert, Goto
<1>10. ASSUME NEW q \in Reqs, Logout(q) PROVE Typed'
  BY <1>10 DEF Logout, Arrives, RevokeSessions, RevokeWhere, Goto
<1>11. ASSUME NEW q \in Reqs, RevokeSession(q) PROVE Typed'
  BY <1>11 DEF RevokeSession, Arrives, RevokeWhere, Goto
<1>12. ASSUME NEW q \in Reqs, RequestPasswordReset(q) PROVE Typed'
  BY <1>12 DEF RequestPasswordReset, Arrives, Insert, Goto
<1>13. ASSUME NEW q \in Reqs, ResetRead(q) PROVE Typed'
  BY <1>13 DEF ResetRead, Arrives, Goto
<1>14. ASSUME NEW q \in Reqs, MarkResetTokenUsed(q) PROVE Typed'
  BY <1>14 DEF MarkResetTokenUsed, Proceed, Goto
<1>15. ASSUME NEW q \in Reqs, ChangeRead(q) PROVE Typed'
  BY <1>15 DEF ChangeRead, Arrives, Goto
<1>16. ASSUME NEW q \in Reqs, UpdateUserPassword(q) PROVE Typed'
  BY <1>16 DEF UpdateUserPassword, Proceed, Goto
<1>17. ASSUME NEW q \in Reqs, RevokeAll(q) PROVE Typed'
  BY <1>17 DEF RevokeAll, RevokeSessions, RevokeWhere, Goto
<1>18. CASE SetStatus
  BY <1>18 DEF SetStatus
<1>19. CASE Expire
  BY <1>19 DEF Expire
<1>20. CASE UNCHANGED vars
  BY <1>20 DEF vars
<1> QED
  BY <1>1, <1>2, <1>3, <1>4, <1>5, <1>6, <1>7, <1>8, <1>9, <1>10,
     <1>11, <1>12, <1>13, <1>14, <1>15, <1>16, <1>17, <1>18, <1>19, <1>20
     DEF Next, Step, Register, Login, Refresh, ResetPassword, ChangePassword

(* The users and user_roles rows are inserted and never deleted.           *)
LEMMA FlagsNext == ASSUME Flags, [Next]_vars PROVE Flags'
<1> USE DEF userVars, tokenVars, reqVars, history, Flags
<1>1. ASSUME NEW q \in Reqs, RegisterRead(q) PROVE Flags'
  BY <1>1 DEF RegisterRead, Arrives, Goto
<1>2. ASSUME NEW q \in Reqs, CreateUser(q) PROVE Flags'
  BY <1>2 DEF CreateUser, Proceed, Goto
<1>3. ASSUME NEW q \in Reqs, AssignDefaultRole(q) PROVE Flags'
  BY <1>3 DEF AssignDefaultRole, Proceed, Goto
<1>4. ASSUME NEW q \in Reqs, LoginRead(q) PROVE Flags'
  BY <1>4 DEF LoginRead, Arrives, Goto
<1>5. ASSUME NEW q \in Reqs, OpenSession(q) PROVE Flags'
  BY <1>5 DEF OpenSession, Insert, Goto
<1>6. ASSUME NEW q \in Reqs, RefreshRead(q) PROVE Flags'
  BY <1>6 DEF RefreshRead, Arrives, Goto
<1>7. ASSUME NEW q \in Reqs, BurnFamily(q) PROVE Flags'
  BY <1>7 DEF BurnFamily, RevokeWhere, Goto
<1>8. ASSUME NEW q \in Reqs, RevokeOld(q) PROVE Flags'
  BY <1>8 DEF RevokeOld, Proceed, Goto
<1>9. ASSUME NEW q \in Reqs, Rotate(q) PROVE Flags'
  BY <1>9 DEF Rotate, Insert, Goto
<1>10. ASSUME NEW q \in Reqs, Logout(q) PROVE Flags'
  BY <1>10 DEF Logout, Arrives, RevokeSessions, RevokeWhere, Goto
<1>11. ASSUME NEW q \in Reqs, RevokeSession(q) PROVE Flags'
  BY <1>11 DEF RevokeSession, Arrives, RevokeWhere, Goto
<1>12. ASSUME NEW q \in Reqs, RequestPasswordReset(q) PROVE Flags'
  BY <1>12 DEF RequestPasswordReset, Arrives, Insert, Goto
<1>13. ASSUME NEW q \in Reqs, ResetRead(q) PROVE Flags'
  BY <1>13 DEF ResetRead, Arrives, Goto
<1>14. ASSUME NEW q \in Reqs, MarkResetTokenUsed(q) PROVE Flags'
  BY <1>14 DEF MarkResetTokenUsed, Proceed, Goto
<1>15. ASSUME NEW q \in Reqs, ChangeRead(q) PROVE Flags'
  BY <1>15 DEF ChangeRead, Arrives, Goto
<1>16. ASSUME NEW q \in Reqs, UpdateUserPassword(q) PROVE Flags'
  BY <1>16 DEF UpdateUserPassword, Proceed, Goto
<1>17. ASSUME NEW q \in Reqs, RevokeAll(q) PROVE Flags'
  BY <1>17 DEF RevokeAll, RevokeSessions, RevokeWhere, Goto
<1>18. CASE SetStatus
  BY <1>18 DEF SetStatus
<1>19. CASE Expire
  BY <1>19 DEF Expire
<1>20. CASE UNCHANGED vars
  BY <1>20 DEF vars
<1> QED
  BY <1>1, <1>2, <1>3, <1>4, <1>5, <1>6, <1>7, <1>8, <1>9, <1>10,
     <1>11, <1>12, <1>13, <1>14, <1>15, <1>16, <1>17, <1>18, <1>19, <1>20
     DEF Next, Step, Register, Login, Refresh, ResetPassword, ChangePassword

------------------------------------------------------------------------------
(* Where the rows come from. A request inserts its row with its last       *)
(* statement; a request on its way to a new session carries its own name,  *)
(* one that refreshes carries a refresh token, one that resets a reset     *)
(* token; and the first token of a family was inserted before the others.  *)
Places ==
  \A q \in Reqs :
    /\ row[q] # "none" => pc[q] = "done"
    /\ pc[q] # "done" => family[q] = q
    /\ pc[q] \in {"new", "user", "role", "session"} => arg[q] = q
    /\ pc[q] \in {"burn", "revoke", "rotate"} => row[arg[q]] \in {"live", "revoked"}
    /\ pc[q] \in {"reset", "mark"} => row[arg[q]] \in {"open", "used"}
    /\ family[q] # q => row[family[q]] # "none"

(* No statement of another request changes the kind of a token row.        *)
LEMMA PlacesNext == ASSUME Typed, Places, [Next]_vars PROVE Places'
<1> USE DEF userVars, tokenVars, reqVars, history, Typed, Places, Sessions, Executed
<1>1. ASSUME NEW q \in Reqs, RegisterRead(q) PROVE Places'
  BY <1>1 DEF RegisterRead, Arrives, Goto
<1>2. ASSUME NEW q \in Reqs, CreateUser(q) PROVE Places'
  BY <1>2 DEF CreateUser, Proceed, Goto
<1>3. ASSUME NEW q \in Reqs, AssignDefaultRole(q) PROVE Places'
  BY <1>3 DEF AssignDefaultRole, Proceed, Goto
<1>4. ASSUME NEW q \in Reqs, LoginRead(q) PROVE Places'
  BY <1>4 DEF LoginRead, Arrives, Goto
<1>5. ASSUME NEW q \in Reqs, OpenSession(q) PROVE Places'
  BY <1>5 DEF OpenSession, Insert, Goto
<1>6. ASSUME NEW q \in Reqs, RefreshRead(q) PROVE Places'
  BY <1>6 DEF RefreshRead, Arrives, Goto
<1>7. ASSUME NEW q \in Reqs, BurnFamily(q) PROVE Places'
  BY <1>7 DEF BurnFamily, RevokeWhere, Goto
<1>8. ASSUME NEW q \in Reqs, RevokeOld(q) PROVE Places'
  BY <1>8 DEF RevokeOld, Proceed, Goto
<1>9. ASSUME NEW q \in Reqs, Rotate(q) PROVE Places'
  BY <1>9 DEF Rotate, Insert, Goto
<1>10. ASSUME NEW q \in Reqs, Logout(q) PROVE Places'
  BY <1>10 DEF Logout, Arrives, RevokeSessions, RevokeWhere, Goto
<1>11. ASSUME NEW q \in Reqs, RevokeSession(q) PROVE Places'
  BY <1>11 DEF RevokeSession, Arrives, RevokeWhere, Goto
<1>12. ASSUME NEW q \in Reqs, RequestPasswordReset(q) PROVE Places'
  BY <1>12 DEF RequestPasswordReset, Arrives, Insert, Goto
<1>13. ASSUME NEW q \in Reqs, ResetRead(q) PROVE Places'
  BY <1>13 DEF ResetRead, Arrives, Goto
<1>14. ASSUME NEW q \in Reqs, MarkResetTokenUsed(q) PROVE Places'
  BY <1>14 DEF MarkResetTokenUsed, Proceed, Goto
<1>15. ASSUME NEW q \in Reqs, ChangeRead(q) PROVE Places'
  BY <1>15 DEF ChangeRead, Arrives, Goto
<1>16. ASSUME NEW q \in Reqs, UpdateUserPassword(q) PROVE Places'
  BY <1>16 DEF UpdateUserPassword, Proceed, Goto
<1>17. ASSUME NEW q \in Reqs, RevokeAll(q) PROVE Places'
  BY <1>17 DEF RevokeAll, RevokeSessions, RevokeWhere, Goto
<1>18. CASE SetStatus
  BY <1>18 DEF SetStatus
<1>19. CASE Expire
  BY <1>19 DEF Expire
<1>20. CASE UNCHANGED vars
  BY <1>20 DEF vars
<1> QED
  BY <1>1, <1>2, <1>3, <1>4, <1>5, <1>6, <1>7, <1>8, <1>9, <1>10,
     <1>11, <1>12, <1>13, <1>14, <1>15, <1>16, <1>17, <1>18, <1>19, <1>20
     DEF Next, Step, Register, Login, Refresh, ResetPassword, ChangePassword

------------------------------------------------------------------------------
(* The one registration that got past CreateUser.                          *)
Once ==
  /\ answered # {} => registered
  /\ \A p, q \in answered : p = q

(* The UNIQUE constraint fails the INSERT of every later one.              *)
LEMMA OnceNext == ASSUME Typed, Once, [Next]_vars PROVE Once'
<1> USE DEF userVars, tokenVars, reqVars, history, Typed, Once, Executed, Outcomes
<1>1. ASSUME NEW q \in Reqs, RegisterRead(q) PROVE Once'
  BY <1>1 DEF RegisterRead, Arrives, Goto
<1>2. ASSUME NEW q \in Reqs, CreateUser(q) PROVE Once'
  BY <1>2 DEF CreateUser, Proceed, Goto
<1>3. ASSUME NEW q \in Reqs, AssignDefaultRole(q) PROVE Once'
  BY <1>3 DEF AssignDefaultRole, Proceed, Goto
<1>4. ASSUME NEW q \in Reqs, LoginRead(q) PROVE Once'
  BY <1>4 DEF LoginRead, Arrives, Goto
<1>5. ASSUME NEW q \in Reqs, OpenSession(q) PROVE Once'
  BY <1>5 DEF OpenSession, Insert, Goto
<1>6. ASSUME NEW q \in Reqs, RefreshRead(q) PROVE Once'
  BY <1>6 DEF RefreshRead, Arrives, Goto
<1>7. ASSUME NEW q \in Reqs, BurnFamily(q) PROVE Once'
  BY <1>7 DEF BurnFamily, RevokeWhere, Goto
<1>8. ASSUME NEW q \in Reqs, RevokeOld(q) PROVE Once'
  BY <1>8 DEF RevokeOld, Proceed, Goto
<1>9. ASSUME NEW q \in Reqs, Rotate(q) PROVE Once'
  BY <1>9 DEF Rotate, Insert, Goto
<1>10. ASSUME NEW q \in Reqs, Logout(q) PROVE Once'
  BY <1>10 DEF Logout, Arrives, RevokeSessions, RevokeWhere, Goto
<1>11. ASSUME NEW q \in Reqs, RevokeSession(q) PROVE Once'
  BY <1>11 DEF RevokeSession, Arrives, RevokeWhere, Goto
<1>12. ASSUME NEW q \in Reqs, RequestPasswordReset(q) PROVE Once'
  BY <1>12 DEF RequestPasswordReset, Arrives, Insert, Goto
<1>13. ASSUME NEW q \in Reqs, ResetRead(q) PROVE Once'
  BY <1>13 DEF ResetRead, Arrives, Goto
<1>14. ASSUME NEW q \in Reqs, MarkResetTokenUsed(q) PROVE Once'
  BY <1>14 DEF MarkResetTokenUsed, Proceed, Goto
<1>15. ASSUME NEW q \in Reqs, ChangeRead(q) PROVE Once'
  BY <1>15 DEF ChangeRead, Arrives, Goto
<1>16. ASSUME NEW q \in Reqs, UpdateUserPassword(q) PROVE Once'
  BY <1>16 DEF UpdateUserPassword, Proceed, Goto
<1>17. ASSUME NEW q \in Reqs, RevokeAll(q) PROVE Once'
  BY <1>17 DEF RevokeAll, RevokeSessions, RevokeWhere, Goto
<1>18. CASE SetStatus
  BY <1>18 DEF SetStatus
<1>19. CASE Expire
  BY <1>19 DEF Expire
<1>20. CASE UNCHANGED vars
  BY <1>20 DEF vars
<1> QED
  BY <1>1, <1>2, <1>3, <1>4, <1>5, <1>6, <1>7, <1>8, <1>9, <1>10,
     <1>11, <1>12, <1>13, <1>14, <1>15, <1>16, <1>17, <1>18, <1>19, <1>20
     DEF Next, Step, Register, Login, Refresh, ResetPassword, ChangePassword

------------------------------------------------------------------------------
(* A reset link that no two requests used at once and whose use was        *)
(* marked. While a request is between UpdateUserPassword and the mark, its *)
(* link is spent and still open, but nobody else has read it.              *)
Links ==
  \A t \in Reqs \ reopened :
    /\ resets[t] <= 1
    /\ resets[t] > 0 => row[t] = "used" \/ \E q \in Reqs : pc[q] = "mark" /\ arg[q] = t
    /\ \A q \in Reqs : pc[q] = "reset" /\ arg[q] = t => resets[t] = 0 /\ row[t] = "open"
    /\ \A p, q \in Reqs :
         pc[p] \in {"reset", "mark"} /\ pc[q] \in {"reset", "mark"}
           /\ arg[p] = t /\ arg[q] = t => p = q

(* ResetPassword spends a link once.                                       *)
LEMMA LinksNext == ASSUME Typed, Places, Links, [Next]_vars PROVE Links'
<1> USE DEF userVars, tokenVars, reqVars, history, Typed, Places, Links, Sessions, Executed
<1>1. ASSUME NEW q \in Reqs, RegisterRead(q) PROVE Links'
  BY <1>1 DEF RegisterRead, Arrives, Goto
<1>2. ASSUME NEW q \in Reqs, CreateUser(q) PROVE Links'
  BY <1>2 DEF CreateUser, Proceed, Goto
<1>3. ASSUME NEW q \in Reqs, AssignDefaultRole(q) PROVE Links'
  BY <1>3 DEF AssignDefaultRole, Proceed, Goto
<1>4. ASSUME NEW q \in Reqs, LoginRead(q) PROVE Links'
  BY <1>4 DEF LoginRead, Arrives, Goto
<1>5. ASSUME NEW q \in Reqs, OpenSession(q) PROVE Links'
  BY <1>5 DEF OpenSession, Insert, Goto
<1>6. ASSUME NEW q \in Reqs, RefreshRead(q) PROVE Links'
  BY <1>6 DEF RefreshRead, Arrives, Goto
<1>7. ASSUME NEW q \in Reqs, BurnFamily(q) PROVE Links'
  BY <1>7 DEF BurnFamily, RevokeWhere, Goto
<1>8. ASSUME NEW q \in Reqs, RevokeOld(q) PROVE Links'
  BY <1>8 DEF RevokeOld, Proceed, Goto
<1>9. ASSUME NEW q \in Reqs, Rotate(q) PROVE Links'
  BY <1>9 DEF Rotate, Insert, Goto
<1>10. ASSUME NEW q \in Reqs, Logout(q) PROVE Links'
  BY <1>10 DEF Logout, Arrives, RevokeSessions, RevokeWhere, Goto
<1>11. ASSUME NEW q \in Reqs, RevokeSession(q) PROVE Links'
  BY <1>11 DEF RevokeSession, Arrives, RevokeWhere, Goto
<1>12. ASSUME NEW q \in Reqs, RequestPasswordReset(q) PROVE Links'
  BY <1>12 DEF RequestPasswordReset, Arrives, Insert, Goto
<1>13. ASSUME NEW q \in Reqs, ResetRead(q) PROVE Links'
  BY <1>13 DEF ResetRead, Arrives, Goto
<1>14. ASSUME NEW q \in Reqs, MarkResetTokenUsed(q) PROVE Links'
  BY <1>14 DEF MarkResetTokenUsed, Proceed, Goto
<1>15. ASSUME NEW q \in Reqs, ChangeRead(q) PROVE Links'
  BY <1>15 DEF ChangeRead, Arrives, Goto
<1>16. ASSUME NEW q \in Reqs, UpdateUserPassword(q) PROVE Links'
  BY <1>16 DEF UpdateUserPassword, Proceed, Goto
<1>17. ASSUME NEW q \in Reqs, RevokeAll(q) PROVE Links'
  BY <1>17 DEF RevokeAll, RevokeSessions, RevokeWhere, Goto
<1>18. CASE SetStatus
  BY <1>18 DEF SetStatus
<1>19. CASE Expire
  BY <1>19 DEF Expire
<1>20. CASE UNCHANGED vars
  BY <1>20 DEF vars
<1> QED
  BY <1>1, <1>2, <1>3, <1>4, <1>5, <1>6, <1>7, <1>8, <1>9, <1>10,
     <1>11, <1>12, <1>13, <1>14, <1>15, <1>16, <1>17, <1>18, <1>19, <1>20
     DEF Next, Step, Register, Login, Refresh, ResetPassword, ChangePassword

------------------------------------------------------------------------------
(* A family no two requests rotated at once: it has one live token, at     *)
(* most one request between the lookup and the insert, and while that      *)
(* request runs no live token but the one it is about to revoke.           *)
Rotations ==
  /\ \A t, u \in Reqs : row[t] = "live" /\ row[u] = "live" /\ family[t] = family[u]
       => t = u \/ family[t] \in raced
  /\ \A p, q \in Reqs :
       pc[p] \in {"revoke", "rotate"} /\ pc[q] \in {"revoke", "rotate"}
         /\ family[arg[p]] = family[arg[q]] => p = q \/ family[arg[p]] \in raced
  /\ \A q, t \in Reqs :
       pc[q] \in {"revoke", "rotate"} /\ row[t] = "live" /\ family[t] = family[arg[q]]
         => (pc[q] = "revoke" /\ t = arg[q]) \/ family[t] \in raced

(* RefreshTokens hands one live token on to the next.                      *)
LEMMA RotationsNext == ASSUME Typed, Places, Rotations, [Next]_vars PROVE Rotations'
<1> USE DEF userVars, tokenVars, reqVars, history, Typed, Places, Rotations, Sessions, Executed
<1>1. ASSUME NEW q \in Reqs, RegisterRead(q) PROVE Rotations'
  BY <1>1 DEF RegisterRead, Arrives, Goto
<1>2. ASSUME NEW q \in Reqs, CreateUser(q) PROVE Rotations'
  BY <1>2 DEF CreateUser, Proceed, Goto
<1>3. ASSUME NEW q \in Reqs, AssignDefaultRole(q) PROVE Rotations'
  BY <1>3 DEF AssignDefaultRole, Proceed, Goto
<1>4. ASSUME NEW q \in Reqs, LoginRead(q) PROVE Rotations'
  BY <1>4 DEF LoginRead, Arrives, Goto
<1>5. ASSUME NEW q \in Reqs, OpenSession(q) PROVE Rotations'
  BY <1>5 DEF OpenSession, Insert, Goto
<1>6. ASSUME NEW q \in Reqs, RefreshRead(q) PROVE Rotations'
  BY <1>6 DEF RefreshRead, Arrives, Goto
<1>7. ASSUME NEW q \in Reqs, BurnFamily(q) PROVE Rotations'
  BY <1>7 DEF BurnFamily, RevokeWhere, Goto
<1>8. ASSUME NEW q \in Reqs, RevokeOld(q) PROVE Rotations'
  BY <1>8 DEF RevokeOld, Proceed, Goto
<1>9. ASSUME NEW q \in Reqs, Rotate(q) PROVE Rotations'
  BY <1>9 DEF Rotate, Insert, Goto
<1>10. ASSUME NEW q \in Reqs, Logout(q) PROVE Rotations'
  BY <1>10 DEF Logout, Arrives, RevokeSessions, RevokeWhere, Goto
<1>11. ASSUME NEW q \in Reqs, RevokeSession(q) PROVE Rotations'
  BY <1>11 DEF RevokeSession, Arrives, RevokeWhere, Goto
<1>12. ASSUME NEW q \in Reqs, RequestPasswordReset(q) PROVE Rotations'
  BY <1>12 DEF RequestPasswordReset, Arrives, Insert, Goto
<1>13. ASSUME NEW q \in Reqs, ResetRead(q) PROVE Rotations'
  BY <1>13 DEF ResetRead, Arrives, Goto
<1>14. ASSUME NEW q \in Reqs, MarkResetTokenUsed(q) PROVE Rotations'
  BY <1>14 DEF MarkResetTokenUsed, Proceed, Goto
<1>15. ASSUME NEW q \in Reqs, ChangeRead(q) PROVE Rotations'
  BY <1>15 DEF ChangeRead, Arrives, Goto
<1>16. ASSUME NEW q \in Reqs, UpdateUserPassword(q) PROVE Rotations'
  BY <1>16 DEF UpdateUserPassword, Proceed, Goto
<1>17. ASSUME NEW q \in Reqs, RevokeAll(q) PROVE Rotations'
  BY <1>17 DEF RevokeAll, RevokeSessions, RevokeWhere, Goto
<1>18. CASE SetStatus
  BY <1>18 DEF SetStatus
<1>19. CASE Expire
  BY <1>19 DEF Expire
<1>20. CASE UNCHANGED vars
  BY <1>20 DEF vars
<1> QED
  BY <1>1, <1>2, <1>3, <1>4, <1>5, <1>6, <1>7, <1>8, <1>9, <1>10,
     <1>11, <1>12, <1>13, <1>14, <1>15, <1>16, <1>17, <1>18, <1>19, <1>20
     DEF Next, Step, Register, Login, Refresh, ResetPassword, ChangePassword

------------------------------------------------------------------------------
(* A family revoked for reuse has no live token, and no request that could *)
(* insert one.                                                             *)
Burned ==
  \A f \in burned :
    /\ row[f] # "none"
    /\ \A t \in Reqs : family[t] = f => row[t] # "live"
    /\ \A q \in Reqs : pc[q] \in Inserting => family[arg[q]] # f

(* A request that looks a token of the family up finds it revoked.         *)
LEMMA BurnedNext == ASSUME Typed, Places, Burned, [Next]_vars PROVE Burned'
<1> USE DEF userVars, tokenVars, reqVars, history, Typed, Places, Burned, Sessions, Executed, Opening, Inserting
<1>1. ASSUME NEW q \in Reqs, RegisterRead(q) PROVE Burned'
  BY <1>1 DEF RegisterRead, Arrives, Goto
<1>2. ASSUME NEW q \in Reqs, CreateUser(q) PROVE Burned'
  BY <1>2 DEF CreateUser, Proceed, Goto
<1>3. ASSUME NEW q \in Reqs, AssignDefaultRole(q) PROVE Burned'
  BY <1>3 DEF AssignDefaultRole, Proceed, Goto
<1>4. ASSUME NEW q \in Reqs, LoginRead(q) PROVE Burned'
  BY <1>4 DEF LoginRead, Arrives, Goto
<1>5. ASSUME NEW q \in Reqs, OpenSession(q) PROVE Burned'
  BY <1>5 DEF OpenSession, Insert, Goto
<1>6. ASSUME NEW q \in Reqs, RefreshRead(q) PROVE Burned'
  BY <1>6 DEF RefreshRead, Arrives, Goto
<1>7. ASSUME NEW q \in Reqs, BurnFamily(q) PROVE Burned'
  BY <1>7 DEF BurnFamily, RevokeWhere, Goto
<1>8. ASSUME NEW q \in Reqs, RevokeOld(q) PROVE Burned'
  BY <1>8 DEF RevokeOld, Proceed, Goto
<1>9. ASSUME NEW q \in Reqs, Rotate(q) PROVE Burned'
  BY <1>9 DEF Rotate, Insert, Goto
<1>10. ASSUME NEW q \in Reqs, Logout(q) PROVE Burned'
  BY <1>10 DEF Logout, Arrives, RevokeSessions, RevokeWhere, Goto
<1>11. ASSUME NEW q \in Reqs, RevokeSession(q) PROVE Burned'
  BY <1>11 DEF RevokeSession, Arrives, RevokeWhere, Goto
<1>12. ASSUME NEW q \in Reqs, RequestPasswordReset(q) PROVE Burned'
  BY <1>12 DEF RequestPasswordReset, Arrives, Insert, Goto
<1>13. ASSUME NEW q \in Reqs, ResetRead(q) PROVE Burned'
  BY <1>13 DEF ResetRead, Arrives, Goto
<1>14. ASSUME NEW q \in Reqs, MarkResetTokenUsed(q) PROVE Burned'
  BY <1>14 DEF MarkResetTokenUsed, Proceed, Goto
<1>15. ASSUME NEW q \in Reqs, ChangeRead(q) PROVE Burned'
  BY <1>15 DEF ChangeRead, Arrives, Goto
<1>16. ASSUME NEW q \in Reqs, UpdateUserPassword(q) PROVE Burned'
  BY <1>16 DEF UpdateUserPassword, Proceed, Goto
<1>17. ASSUME NEW q \in Reqs, RevokeAll(q) PROVE Burned'
  BY <1>17 DEF RevokeAll, RevokeSessions, RevokeWhere, Goto
<1>18. CASE SetStatus
  BY <1>18 DEF SetStatus
<1>19. CASE Expire
  BY <1>19 DEF Expire
<1>20. CASE UNCHANGED vars
  BY <1>20 DEF vars
<1> QED
  BY <1>1, <1>2, <1>3, <1>4, <1>5, <1>6, <1>7, <1>8, <1>9, <1>10,
     <1>11, <1>12, <1>13, <1>14, <1>15, <1>16, <1>17, <1>18, <1>19, <1>20
     DEF Next, Step, Register, Login, Refresh, ResetPassword, ChangePassword

------------------------------------------------------------------------------
(* Every live token, and every token about to be inserted, belongs to a    *)
(* session opened with a password no older than the settled one, or to a   *)
(* family that had an insert under way when the sessions were revoked.     *)
Passwords ==
  /\ settled <= password
  /\ \A t \in Reqs : row[t] = "live" => verified[family[t]] >= settled \/ family[t] \in straddled
  /\ \A q \in Reqs : pc[q] \in Inserting
       => verified[family[arg[q]]] >= settled \/ family[arg[q]] \in straddled

(* RevokeAll leaves no live token, and whoever is inserting is straddled.  *)
LEMMA PasswordsNext == ASSUME Typed, Places, Passwords, [Next]_vars PROVE Passwords'
<1> USE DEF userVars, tokenVars, reqVars, history, Typed, Places, Passwords, Sessions, Executed, Opening, Inserting
<1>1. ASSUME NEW q \in Reqs, RegisterRead(q) PROVE Passwords'
  BY <1>1 DEF RegisterRead, Arrives, Goto
<1>2. ASSUME NEW q \in Reqs, CreateUser(q) PROVE Passwords'
  BY <1>2 DEF CreateUser, Proceed, Goto
<1>3. ASSUME NEW q \in Reqs, AssignDefaultRole(q) PROVE Passwords'
  BY <1>3 DEF AssignDefaultRole, Proceed, Goto
<1>4. ASSUME NEW q \in Reqs, LoginRead(q) PROVE Passwords'
  BY <1>4 DEF LoginRead, Arrives, Goto
<1>5. ASSUME NEW q \in Reqs, OpenSession(q) PROVE Passwords'
  BY <1>5 DEF OpenSession, Insert, Goto
<1>6. ASSUME NEW q \in Reqs, RefreshRead(q) PROVE Passwords'
  BY <1>6 DEF RefreshRead, Arrives, Goto
<1>7. ASSUME NEW q \in Reqs, BurnFamily(q) PROVE Passwords'
  BY <1>7 DEF BurnFamily, RevokeWhere, Goto
<1>8. ASSUME NEW q \in Reqs, RevokeOld(q) PROVE Passwords'
  BY <1>8 DEF RevokeOld, Proceed, Goto
<1>9. ASSUME NEW q \in Reqs, Rotate(q) PROVE Passwords'
  BY <1>9 DEF Rotate, Insert, Goto
<1>10. ASSUME NEW q \in Reqs, Logout(q) PROVE Passwords'
  BY <1>10 DEF Logout, Arrives, RevokeSessions, RevokeWhere, Goto
<1>11. ASSUME NEW q \in Reqs, RevokeSession(q) PROVE Passwords'
  BY <1>11 DEF RevokeSession, Arrives, RevokeWhere, Goto
<1>12. ASSUME NEW q \in Reqs, RequestPasswordReset(q) PROVE Passwords'
  BY <1>12 DEF RequestPasswordReset, Arrives, Insert, Goto
<1>13. ASSUME NEW q \in Reqs, ResetRead(q) PROVE Passwords'
  BY <1>13 DEF ResetRead, Arrives, Goto
<1>14. ASSUME NEW q \in Reqs, MarkResetTokenUsed(q) PROVE Passwords'
  BY <1>14 DEF MarkResetTokenUsed, Proceed, Goto
<1>15. ASSUME NEW q \in Reqs, ChangeRead(q) PROVE Passwords'
  BY <1>15 DEF ChangeRead, Arrives, Goto
<1>16. ASSUME NEW q \in Reqs, UpdateUserPassword(q) PROVE Passwords'
  BY <1>16 DEF UpdateUserPassword, Proceed, Goto
<1>17. ASSUME NEW q \in Reqs, RevokeAll(q) PROVE Passwords'
  BY <1>17 DEF RevokeAll, RevokeSessions, RevokeWhere, Goto
<1>18. CASE SetStatus
  BY <1>18 DEF SetStatus
<1>19. CASE Expire
  BY <1>19 DEF Expire
<1>20. CASE UNCHANGED vars
  BY <1>20 DEF vars
<1> QED
  BY <1>1, <1>2, <1>3, <1>4, <1>5, <1>6, <1>7, <1>8, <1>9, <1>10,
     <1>11, <1>12, <1>13, <1>14, <1>15, <1>16, <1>17, <1>18, <1>19, <1>20
     DEF Next, Step, Register, Login, Refresh, ResetPassword, ChangePassword

------------------------------------------------------------------------------
Inv ==
  /\ Typed /\ Flags /\ Places
  /\ Once /\ Links
  /\ Rotations /\ Burned /\ Passwords

LEMMA InvInit == Init => Inv
<1> SUFFICES ASSUME Init PROVE Inv
  OBVIOUS
<1>1. Typed /\ Places
  BY DEF Init, Typed, Places
<1>2. Flags
  BY DEF Init, Flags
<1>3. Once /\ Links
  BY DEF Init, Once, Links
<1>4. Rotations /\ Burned
  BY DEF Init, Rotations, Burned
<1>5. Passwords
  BY DEF Init, Passwords, Inserting
<1> QED BY <1>1, <1>2, <1>3, <1>4, <1>5 DEF Inv

(* The invariant of every behaviour, from which the theorems follow.       *)
LEMMA InvHolds == Spec => []Inv
<1>1. Inv /\ [Next]_vars => Inv'
  BY TypedNext, FlagsNext, PlacesNext, OnceNext, LinksNext, RotationsNext, BurnedNext,
     PasswordsNext DEF Inv
<1> QED BY InvInit, <1>1, PTL DEF Spec

(* A set with no two different members has at most one.                    *)
LEMMA AtMostOne ==
  ASSUME NEW S, \A x, y \in S : x = y
  PROVE  Cardinality(S) <= 1
<1>1. CASE S = {}
  BY <1>1, FS_EmptySet
<1>2. CASE S # {}
  <2> PICK x \in S : TRUE
    BY <1>2
  <2>1. S = {x}
    OBVIOUS
  <2> QED BY <2>1, FS_Singleton
<1> QED BY <1>1, <1>2

------------------------------------------------------------------------------
(* The types; of the registrations that found an address free only one     *)
(* gets past CreateUser; a reset link sets the password once, unless two   *)
(* requests used it at once or marking it as used failed.                  *)
THEOREM AccountInvHolds == Spec => []AccountInv
<1>1. ASSUME Inv PROVE AccountInv
  <2>1. {registered, role} \subseteq BOOLEAN
    BY <1>1 DEF Inv, Flags
  <2>2. UNION {answered, raced, burned, straddled, reopened} \subseteq Reqs
    BY <1>1 DEF Inv, Typed
  <2>3. TypeOK
    BY <1>1, <2>1, <2>2 DEF Inv, Typed, TypeOK
  <2>4. OneRegistration
    BY <1>1, AtMostOne DEF Inv, Once, OneRegistration
  <2>5. ResetLinkOnce
    BY <1>1 DEF Inv, Links, ResetLinkOnce
  <2> QED BY <2>3, <2>4, <2>5 DEF AccountInv
<1> QED BY <1>1, InvHolds, PTL

(* Rotation keeps at most one live refresh token in a family no two        *)
(* requests rotated at once, and a family in which RefreshTokens detected  *)
(* reuse while no rotation of it was under way stays dead.                 *)
THEOREM FamilyInvHolds == Spec => []FamilyInv
<1>1. ASSUME Inv PROVE FamilyInv
  <2>1. ASSUME NEW f \in Reqs \ raced
        PROVE  Cardinality({t \in Live : family[t] = f}) <= 1
    <3>1. \A t, u \in {t \in Live : family[t] = f} : t = u
      BY <1>1, <2>1 DEF Inv, Rotations, Live
    <3> QED BY <3>1, AtMostOne
  <2>2. BurnedStaysDead
    BY <1>1 DEF Inv, Burned, BurnedStaysDead, Live
  <2> QED BY <2>1, <2>2 DEF FamilyInv, OneLivePerFamily
<1> QED BY <1>1, InvHolds, PTL

(* After a password change has revoked the sessions no session opened with *)
(* an earlier password is live, except in a family that was inserting a    *)
(* token at that very moment.                                              *)
THEOREM OldPasswordIsOutHolds == Spec => []OldPasswordIsOut
<1>1. Inv => OldPasswordIsOut
  BY DEF Inv, Passwords, OldPasswordIsOut, Live
<1> QED BY <1>1, InvHolds, PTL
==============================================================================
