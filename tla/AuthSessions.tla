---------------------------- MODULE AuthSessions ----------------------------
(***************************************************************************)
(* One account and its sessions (auth/service.go, auth/repository.go and   *)
(* handlers/auth.go): the users row, the refresh_tokens and                *)
(* password_reset_tokens rows, and the requests that read them in one      *)
(* statement and write them in others. Each member of Reqs is one HTTP     *)
(* request; it inserts at most one token row, which carries its name, and  *)
(* a family of refresh tokens carries the name of its first one.           *)
(*                                                                         *)
(* A statement that fails is "err" (not executed) or "lost" (executed,     *)
(* error returned). A request whose first read fails, or that is refused   *)
(* by it, changes nothing and is left out, as are wrong passwords and      *)
(* unknown tokens. Access tokens are stateless. OAuthLogin answers         *)
(* StatusNotImplemented before it touches any state, and nothing calls     *)
(* OAuthLoginOrRegister or LogoutSession.                                  *)
(***************************************************************************)
EXTENDS Naturals, FiniteSets

CONSTANTS Reqs,         \* requests
          MaxInFlight,  \* bound: requests open at once
          Faults        \* what may go wrong

ASSUME AuthAssumption ==
  /\ MaxInFlight \in Nat \ {0}
  /\ Faults \subseteq {"db", "answer"}

VARIABLES
  registered,  \* the users row exists
  role,        \* its user_roles row exists
  status,      \* users.status; "suspended" stands for "banned" as well
  password,    \* users.password_hash: how often it was set
  row,         \* the token row a request inserted
  family,      \* refresh_tokens.family_id of that row
  overdue,     \* rows whose expires_at has passed
  given,       \* rows whose token reached the client
  pc,          \* the next statement of a request
  arg,         \* the row whose token a request carries
  verified,    \* history: the password that opened a family
  answered,    \* history: registrations that got past CreateUser
  raced,       \* history: families with two rotations of one token at once
  burned,      \* history: families revoked for reuse, no rotation of them under way
  straddled,   \* history: families with an insert under way at the last RevokeAll
  settled,     \* history: the last password whose change revoked the sessions
  resets,      \* history: passwords set with a reset token
  reopened     \* history: reset tokens used twice at once or not marked as used

userVars  == <<registered, role, status, password>>
tokenVars == <<row, family, given>>
reqVars   == <<pc, arg>>
history   == <<verified, answered, raced, burned, straddled, settled, resets, reopened>>
vars == <<userVars, tokenVars, overdue, reqVars, history>>

TypeOK ==
  /\ {registered, role} \subseteq BOOLEAN
  /\ status \in {"active", "suspended"}
  /\ password \in Nat
  /\ row \in [Reqs -> {"none", "live", "revoked", "open", "used"}]
  /\ family \in [Reqs -> Reqs]
  /\ overdue \subseteq Reqs
  /\ given \subseteq {q \in Reqs : row[q] # "none"}
  /\ pc \in [Reqs -> {"new", "user", "role", "session", "burn", "revoke", "rotate",
                      "reset", "change", "mark", "revokeAll", "done"}]
  /\ arg \in [Reqs -> Reqs]
  /\ verified \in [Reqs -> Nat]
  /\ UNION {answered, raced, burned, straddled, reopened} \subseteq Reqs
  /\ settled \in Nat
  /\ resets \in [Reqs -> Nat]

Init ==
  /\ registered = FALSE
  /\ role = FALSE
  /\ status = "active"
  /\ password = 0
  /\ row = [q \in Reqs |-> "none"]
  /\ family = [q \in Reqs |-> q]
  /\ overdue = {}
  /\ given = {}
  /\ pc = [q \in Reqs |-> "new"]
  /\ arg = [q \in Reqs |-> q]
  /\ verified = [q \in Reqs |-> 0]
  /\ answered = {}
  /\ raced = {}
  /\ burned = {}
  /\ straddled = {}
  /\ settled = 0
  /\ resets = [q \in Reqs |-> 0]
  /\ reopened = {}

------------------------------------------------------------------------------
InFlight == {q \in Reqs : pc[q] \notin {"new", "done"}}

Outcomes == {"ok"} \cup (IF "db" \in Faults THEN {"err", "lost"} ELSE {})
Executed(o) == o \in {"ok", "lost"}

Goto(q, label) == pc' = [pc EXCEPT ![q] = label]
Proceed(q, o, label) == Goto(q, IF o = "ok" THEN label ELSE "done")

Arrives(q) ==
  /\ pc[q] = "new"
  /\ Cardinality(InFlight) < MaxInFlight

Sessions == {q \in Reqs : row[q] \in {"live", "revoked"}}

(* Families in which a request is about to insert a live token.            *)
Inserting == {"role", "session", "revoke", "rotate"}
Opening == {family[arg[q]] : q \in {r \in Reqs : pc[r] \in Inserting}}

(* Seeded bug: the token is handed out although its row was not inserted.  *)
InsertUnchecked(q, o, kind) ==
  /\ row' = IF Executed(o) THEN [row EXCEPT ![q] = kind] ELSE row
  /\ given' = given \cup {q}

(* INSERT of a row, and whether its token reaches the client: the answer   *)
(* or the mail may be lost, and Refresh answers 401 if GetMe then fails.   *)
Insert(q, o, kind) ==
  /\ row' = IF Executed(o) THEN [row EXCEPT ![q] = kind] ELSE row
  /\ \/ given' = IF o = "ok" THEN given \cup {q} ELSE given
     \/ "answer" \in Faults /\ given' = given

RevokeWhere(S) == row' = [t \in Reqs |-> IF t \in S /\ row[t] = "live" THEN "revoked" ELSE row[t]]

------------------------------------------------------------------------------
(* Register reads the users row by email.                                  *)
RegisterRead(q) ==
  /\ Arrives(q)
  /\ ~ registered
  /\ Goto(q, "user")
  /\ UNCHANGED <<userVars, tokenVars, overdue, arg, history>>

(* Seeded bug: an INSERT that updates the row on a conflict.               *)
CreateUserUpsert(q) ==
  /\ pc[q] = "user"
  /\ \E o \in Outcomes :
       /\ registered' = (registered \/ Executed(o))
       /\ password' = password + (IF Executed(o) THEN 1 ELSE 0)
       /\ answered' = IF o = "ok" THEN answered \cup {q} ELSE answered
       /\ verified' = [verified EXCEPT ![q] = password']
       /\ Proceed(q, o, "role")
  /\ UNCHANGED <<role, status, tokenVars, overdue, arg, raced, burned, straddled,
                 settled, resets, reopened>>

(* CreateUser; the UNIQUE constraint on email fails a second INSERT.       *)
CreateUser(q) ==
  /\ pc[q] = "user"
  /\ \E o \in IF registered THEN {"err"} ELSE Outcomes :
       /\ registered' = (registered \/ Executed(o))
       /\ password' = password + (IF Executed(o) THEN 1 ELSE 0)
       /\ answered' = IF o = "ok" THEN answered \cup {q} ELSE answered
       /\ verified' = [verified EXCEPT ![q] = password']
       /\ Proceed(q, o, "role")
  /\ UNCHANGED <<role, status, tokenVars, overdue, arg, raced, burned, straddled,
                 settled, resets, reopened>>

(* AssignDefaultRole; if it fails the account stays without the row.       *)
AssignDefaultRole(q) ==
  /\ pc[q] = "role"
  /\ \E o \in Outcomes :
       /\ role' = (role \/ Executed(o))
       /\ Proceed(q, o, "session")
  /\ UNCHANGED <<registered, status, password, tokenVars, overdue, arg, history>>

(* Login reads the row, checks the status and compares the password.       *)
LoginRead(q) ==
  /\ Arrives(q)
  /\ registered
  /\ status = "active"
  /\ verified' = [verified EXCEPT ![q] = password]
  /\ Goto(q, "session")
  /\ UNCHANGED <<userVars, tokenVars, overdue, arg, answered, raced, burned, straddled,
                 settled, resets, reopened>>

(* CreateRefreshToken with a new family, for Login and Register.           *)
OpenSession(q) ==
  /\ pc[q] = "session"
  /\ \E o \in Outcomes : Insert(q, o, "live")
  /\ Goto(q, "done")
  /\ UNCHANGED <<userVars, family, overdue, arg, history>>

------------------------------------------------------------------------------
(* RefreshTokens looks the token up. A revoked token is taken for reused,  *)
(* before its expiry is considered.                                        *)
RefreshRead(q) ==
  /\ Arrives(q)
  /\ \E t \in given \cap Sessions :
       /\ row[t] = "revoked" \/ t \notin overdue
       /\ arg' = [arg EXCEPT ![q] = t]
       /\ Goto(q, IF row[t] = "revoked" THEN "burn" ELSE "revoke")
       /\ raced' = IF \E r \in Reqs : pc[r] \in {"revoke", "rotate"} /\ arg[r] = t
                   THEN raced \cup {family[t]} ELSE raced
  /\ UNCHANGED <<userVars, tokenVars, overdue, verified, answered, burned, straddled,
                 settled, resets, reopened>>

(* Seeded bug: only the token that was presented is revoked.               *)
BurnFamilyTokenOnly(q) ==
  /\ pc[q] = "burn"
  /\ \E o \in Outcomes :
       IF Executed(o)
       THEN /\ RevokeWhere({arg[q]})
            /\ burned' = IF family[arg[q]] \in Opening THEN burned
                         ELSE burned \cup {family[arg[q]]}
       ELSE UNCHANGED <<row, burned>>
  /\ Goto(q, "done")
  /\ UNCHANGED <<userVars, family, given, overdue, arg, verified, answered, raced,
                 straddled, settled, resets, reopened>>

(* RevokeRefreshTokenFamily, whose error is ignored.                       *)
BurnFamily(q) ==
  /\ pc[q] = "burn"
  /\ \E o \in Outcomes :
       IF Executed(o)
       THEN /\ RevokeWhere({t \in Sessions : family[t] = family[arg[q]]})
            /\ burned' = IF family[arg[q]] \in Opening THEN burned
                         ELSE burned \cup {family[arg[q]]}
       ELSE UNCHANGED <<row, burned>>
  /\ Goto(q, "done")
  /\ UNCHANGED <<userVars, family, given, overdue, arg, verified, answered, raced,
                 straddled, settled, resets, reopened>>

(* Seeded bug: the error of RevokeRefreshToken is ignored.                 *)
RevokeOldIgnored(q) ==
  /\ pc[q] = "revoke"
  /\ \E o \in Outcomes :
       row' = IF Executed(o) THEN [row EXCEPT ![arg[q]] = "revoked"] ELSE row
  /\ Goto(q, "rotate")
  /\ UNCHANGED <<userVars, family, given, overdue, arg, history>>

(* RevokeRefreshToken of the presented token.                              *)
RevokeOld(q) ==
  /\ pc[q] = "revoke"
  /\ \E o \in Outcomes :
       /\ row' = IF Executed(o) THEN [row EXCEPT ![arg[q]] = "revoked"] ELSE row
       /\ Proceed(q, o, "rotate")
  /\ UNCHANGED <<userVars, family, given, overdue, arg, history>>

(* CreateRefreshToken in the family of the presented token.                *)
Rotate(q) ==
  /\ pc[q] = "rotate"
  /\ \E o \in Outcomes : Insert(q, o, "live")
  /\ family' = [family EXCEPT ![q] = family[arg[q]]]
  /\ Goto(q, "done")
  /\ UNCHANGED <<userVars, overdue, arg, history>>

------------------------------------------------------------------------------
(* RevokeSession of one session of the user.                               *)
RevokeSession(q) ==
  /\ Arrives(q)
  /\ \E t \in Sessions : RevokeWhere({t})
  /\ Goto(q, "done")
  /\ UNCHANGED <<userVars, family, given, overdue, arg, history>>

(* RevokeAllUserRefreshTokens.                                             *)
RevokeSessions ==
  /\ RevokeWhere(Sessions)
  /\ straddled' = Opening

Logout(q) ==
  /\ Arrives(q)
  /\ registered
  /\ RevokeSessions
  /\ Goto(q, "done")
  /\ UNCHANGED <<userVars, family, given, overdue, arg, verified, answered, raced, burned,
                 settled, resets, reopened>>

(* RequestPasswordReset stores a reset token and mails the link.           *)
RequestPasswordReset(q) ==
  /\ Arrives(q)
  /\ registered
  /\ \E o \in Outcomes : Insert(q, o, "open")
  /\ Goto(q, "done")
  /\ UNCHANGED <<userVars, family, overdue, arg, history>>

(* Seeded bug: the lookup does not ask for used_at IS NULL.                *)
ResetReadUsed(q) ==
  /\ Arrives(q)
  /\ \E t \in given \ overdue :
       /\ row[t] \in {"open", "used"}
       /\ arg' = [arg EXCEPT ![q] = t]
       /\ reopened' = IF \E r \in Reqs : pc[r] \in {"reset", "mark"} /\ arg[r] = t
                      THEN reopened \cup {t} ELSE reopened
  /\ Goto(q, "reset")
  /\ UNCHANGED <<userVars, tokenVars, overdue, verified, answered, raced, burned,
                 straddled, settled, resets>>

(* ResetPassword looks for an unused, unexpired reset token.               *)
ResetRead(q) ==
  /\ Arrives(q)
  /\ \E t \in given \ overdue :
       /\ row[t] = "open"
       /\ arg' = [arg EXCEPT ![q] = t]
       /\ reopened' = IF \E r \in Reqs : pc[r] \in {"reset", "mark"} /\ arg[r] = t
                      THEN reopened \cup {t} ELSE reopened
  /\ Goto(q, "reset")
  /\ UNCHANGED <<userVars, tokenVars, overdue, verified, answered, raced, burned,
                 straddled, settled, resets>>

(* ChangePassword reads the user and compares the current password.        *)
ChangeRead(q) ==
  /\ Arrives(q)
  /\ registered
  /\ Goto(q, "change")
  /\ UNCHANGED <<userVars, tokenVars, overdue, arg, history>>

(* UpdateUserPassword, for ResetPassword and for ChangePassword.           *)
UpdateUserPassword(q) ==
  /\ pc[q] \in {"reset", "change"}
  /\ \E o \in Outcomes :
       /\ password' = password + (IF Executed(o) THEN 1 ELSE 0)
       /\ resets' = IF pc[q] = "reset" /\ Executed(o)
                    THEN [resets EXCEPT ![arg[q]] = @ + 1] ELSE resets
       /\ reopened' = IF pc[q] = "reset" /\ o = "lost"
                      THEN reopened \cup {arg[q]} ELSE reopened
       /\ Proceed(q, o, IF pc[q] = "reset" THEN "mark" ELSE "revokeAll")
  /\ UNCHANGED <<registered, role, status, tokenVars, overdue, arg, verified, answered,
                 raced, burned, straddled, settled>>

(* MarkPasswordResetTokenUsed; if it fails the password is already new and *)
(* the sessions stay.                                                      *)
MarkResetTokenUsed(q) ==
  /\ pc[q] = "mark"
  /\ \E o \in Outcomes :
       /\ row' = IF Executed(o) THEN [row EXCEPT ![arg[q]] = "used"] ELSE row
       /\ reopened' = IF Executed(o) THEN reopened ELSE reopened \cup {arg[q]}
       /\ Proceed(q, o, "revokeAll")
  /\ UNCHANGED <<userVars, family, given, overdue, arg, verified, answered, raced, burned,
                 straddled, settled, resets>>

(* Seeded bug: only the tokens issued at login are revoked.                *)
RevokeAllPartial(q) ==
  /\ pc[q] = "revokeAll"
  /\ \E o \in Outcomes :
       IF Executed(o)
       THEN /\ RevokeWhere({t \in Sessions : family[t] = t})
            /\ straddled' = Opening
            /\ settled' = password
       ELSE UNCHANGED <<row, straddled, settled>>
  /\ Goto(q, "done")
  /\ UNCHANGED <<userVars, family, given, overdue, arg, verified, answered, raced, burned,
                 resets, reopened>>

(* The sessions are revoked after the change; the error is ignored.        *)
RevokeAll(q) ==
  /\ pc[q] = "revokeAll"
  /\ \E o \in Outcomes :
       IF Executed(o)
       THEN RevokeSessions /\ settled' = password
       ELSE UNCHANGED <<row, straddled, settled>>
  /\ Goto(q, "done")
  /\ UNCHANGED <<userVars, family, given, overdue, arg, verified, answered, raced, burned,
                 resets, reopened>>

------------------------------------------------------------------------------
(* An administrator or moderator suspends the account or lifts it.         *)
SetStatus ==
  /\ registered
  /\ status' = IF status = "active" THEN "suspended" ELSE "active"
  /\ UNCHANGED <<registered, role, password, tokenVars, overdue, reqVars, history>>

(* The expiry of a token passes.                                           *)
Expire ==
  /\ \E t \in Reqs \ overdue : row[t] # "none" /\ overdue' = overdue \cup {t}
  /\ UNCHANGED <<userVars, tokenVars, reqVars, history>>

(* The handlers, by their statements. Register ends with OpenSession, and  *)
(* ResetPassword shares UpdateUserPassword and RevokeAll with the change.  *)
Register(q) == RegisterRead(q) \/ CreateUser(q) \/ AssignDefaultRole(q)

Login(q) == LoginRead(q) \/ OpenSession(q)

Refresh(q) == RefreshRead(q) \/ BurnFamily(q) \/ RevokeOld(q) \/ Rotate(q)

ResetPassword(q) == ResetRead(q) \/ MarkResetTokenUsed(q)

ChangePassword(q) == ChangeRead(q) \/ UpdateUserPassword(q) \/ RevokeAll(q)

Step(q) ==
  \/ Register(q) \/ Login(q) \/ Refresh(q) \/ Logout(q) \/ RevokeSession(q)
  \/ RequestPasswordReset(q) \/ ResetPassword(q) \/ ChangePassword(q)

Next == (\E q \in Reqs : Step(q)) \/ SetStatus \/ Expire

Spec == Init /\ [][Next]_vars

------------------------------------------------------------------------------
(* Properties.                                                             *)

Live == {q \in Reqs : row[q] = "live"}

(* Rotation keeps at most one live refresh token in a family, whatever     *)
(* statement of Refresh fails, unless two requests rotated the same token  *)
(* at once: RefreshTokens checks revoked_at and sets it in two statements  *)
(* and its UPDATE does not ask whether the token is still live.            *)
OneLivePerFamily ==
  \A f \in Reqs \ raced : Cardinality({t \in Live : family[t] = f}) <= 1

(* A family in which RefreshTokens detected reuse, while no rotation of it *)
(* was under way, never has a live token again.                            *)
BurnedStaysDead == \A t \in Live : family[t] \notin burned

(* Once a password change has revoked the sessions, no session opened with *)
(* an earlier password is live, except in a family that was inserting a    *)
(* token at that very moment.                                              *)
OldPasswordIsOut ==
  \A t \in Live : verified[family[t]] >= settled \/ family[t] \in straddled

(* A reset link sets the password once, unless two requests used it at     *)
(* once or the UPDATE that marks it as used failed.                        *)
ResetLinkOnce == \A t \in Reqs \ reopened : resets[t] <= 1

(* Two registrations of one address that both found it free cannot both    *)
(* get past CreateUser, and the one that fails leaves the password alone.  *)
OneRegistration == Cardinality(answered) <= 1

(* The types, and what can be used once is used once: the address by       *)
(* Register, a link by ResetPassword.                                      *)
AccountInv == TypeOK /\ OneRegistration /\ ResetLinkOnce

(* What RefreshTokens keeps of a token family.                             *)
FamilyInv == OneLivePerFamily /\ BurnedStaysDead
==============================================================================
