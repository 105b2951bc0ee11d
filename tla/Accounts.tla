-------------------------------- MODULE Accounts --------------------------------
(***************************************************************************)
(* The authentication service around one e-mail address: its user row, the *)
(* roles and the sessions that hang on it, and the requests that change    *)
(* them: register, the three ways to log in, refresh, logout, the two ways *)
(* to change a password, the PATCH of the row, deletion, and the           *)
(* administrator's role changes.                                           *)
(* Every request is a sequence of awaited statements without a             *)
(* transaction, so requests interleave between any two of them.            *)
(*                                                                         *)
(* A session is identified with the request that creates it; Devices are   *)
(* the sessions that exist at the start, oldest first.  Which operation    *)
(* each request is, is drawn from Mixes when a behaviour starts.           *)
(***************************************************************************)
EXTENDS OneTimePassword, SequencesExt

CONSTANTS
    Mixes,        \* the combinations of requests: each a function on Requests
    Devices,      \* a sequence of session ids
    Limit,        \* SESSION_LIMIT_PER_USER
    Starts,       \* the user rows a behaviour can start with, and NoUser
    NoUser,
    MaxFaults     \* bound on failed statements, deaths, and sessions that age

Ops == {"none", "register", "login", "otp_login", "google", "refresh", "logout",
        "logout_others", "send_otp", "verify_otp", "reset", "change", "patch", "delete",
        "assign_role", "update_role"}
Roles == {"USER", "ADMIN"}
DeviceIds == ToSet(Devices)
Sids == Requests \cup DeviceIds
(* The column takes any string. *)
Providers == {"local", "google", "both", "other"}
(* ver counts the passwords of the row; secret: it has one; linked: googleId is set. *)
Users == [id : Nat, ver : Nat, secret : BOOLEAN, linked : BOOLEAN,
          provider : Providers, roles : SUBSET Roles]
(* The provider of the row names the ways to log in that it has. *)
Agrees(u) ==
    /\ u.provider # "other"
    /\ u.provider \in {"google", "both"} <=> u.linked
    /\ u.provider \in {"local", "both"} <=> u.secret

ASSUME AccountsAssumption ==
    /\ Mixes \subseteq [Requests -> Ops]
    /\ Devices \in Seq(DeviceIds) /\ IsInjective(Devices)
    /\ DeviceIds \cap (Requests \cup {Nobody}) = {}
    /\ Limit \in Nat \ {0} /\ Len(Devices) <= Limit
    /\ NoUser \notin Users /\ Starts \subseteq Users \cup {NoUser}
    /\ \A u \in Starts \ {NoUser} : u.id = 1 /\ u.ver = 1 /\ u.roles # {} /\ Agrees(u)
    /\ MaxFaults \in Nat

VARIABLES
    op,        \* op[r]: what r asks for
    user,      \* the user row with its roles, or NoUser
    lastId,    \* the last user id given
    sessions,  \* the set of session rows
    pc,        \* pc[r]: the await that r is at
    mine,      \* mine[r]: r's locals
    faults,
    tokens,    \* history: the sessions ever created, as [id, uid]
    late,      \* history: refreshes that had loaded a session when it was deleted
    rushed,    \* history: logins that overlapped between counting and creating
    spared,    \* history: sessions that a password change could miss
    edited,    \* history: ids of users whose ways to log in a PATCH made disagree
    clashed    \* history: a role change overlapped another, or died half way

userVars == <<user, lastId>>
sessionVars == <<sessions, tokens, late>>
notes == <<rushed, spared, edited, clashed>>
vars == <<otpVars, userVars, sessionVars, notes, op, pc, mine, faults>>

NoLocals == [uid |-> 0, ver |-> 0, made |-> FALSE, sid |-> Nobody, list |-> {},
             up |-> FALSE, role |-> "USER", old |-> {}, todo |-> {}]
(* born stands for createdAt: the n-th session that was created. *)
Session(s, uid, ver, n) == [id |-> s, uid |-> uid, ver |-> ver, age |-> "fresh", born |-> n]
SessionOf(s, l) == Session(s, l.uid, l.ver, Cardinality(tokens) + 1)
SidsOf(rows) == {s.id : s \in rows}
Loaded(uid) == user # NoUser /\ user.id = uid
Creating == {r \in Requests :
                \/ pc[r] \in {"evict", "reload", "create"}
                \/ pc[r] = "add_first_role" /\ op[r] = "register"}

Init ==
    /\ OtpInit
    /\ op \in Mixes
    /\ user \in Starts
    /\ lastId = 1
    /\ sessions \in {{}, {Session(Devices[i], 1, 1, i) : i \in DOMAIN Devices}}
    /\ user = NoUser => sessions = {}
    /\ tokens = {[id |-> d, uid |-> 1] : d \in DeviceIds}
    /\ pc = [r \in Requests |-> IF op[r] = "none" THEN "done" ELSE "new"]
    /\ mine = [r \in Requests |-> NoLocals]
    /\ faults = 0
    /\ late = {} /\ rushed = {} /\ spared = {} /\ edited = {} /\ clashed = FALSE

Arrives(r, o) == pc[r] = "new" /\ op[r] = o
Goto(r, m) == pc' = [pc EXCEPT ![r] = m] /\ UNCHANGED mine
GotoWith(r, m, l) == pc' = [pc EXCEPT ![r] = m] /\ mine' = [mine EXCEPT ![r] = l]
Finish(r) == GotoWith(r, "done", NoLocals)

(* DELETE FROM Sessions for the ids in S. *)
DeleteSessions(S) ==
    /\ sessions' = {s \in sessions : s.id \notin S}
    /\ late' = late \cup {r \in Requests : /\ pc[r] \in {"refresh_user", "refresh_save"}
                                           /\ mine[r].sid \in S \cap SidsOf(sessions)}
    /\ UNCHANGED tokens

-------------------------------------------------------------------------------
(* Registration, and creating the user row *)

RegisterFind(r) ==
    /\ Arrives(r, "register")
    /\ IF user = NoUser THEN Goto(r, "create_user") ELSE Finish(r)
    /\ UNCHANGED <<otpVars, userVars, sessionVars, notes, op, faults>>

(* INSERT: the e-mail address is unique. *)
CreateUser(r) ==
    /\ pc[r] = "create_user"
    /\ \/ /\ user # NoUser
          /\ Finish(r)
          /\ UNCHANGED <<userVars, rushed>>
       \/ /\ user = NoUser
          /\ lastId' = lastId + 1
          /\ user' = [id |-> lastId + 1, ver |-> 1, secret |-> op[r] = "register",
                      linked |-> op[r] = "google", roles |-> {},
                      provider |-> IF op[r] = "google" THEN "google" ELSE "local"]
          /\ GotoWith(r, "add_first_role",
                      [NoLocals EXCEPT !.uid = lastId + 1, !.ver = 1, !.made = op[r] = "google"])
          /\ rushed' = IF op[r] = "google" \/ Creating = {} THEN rushed
                       ELSE rushed \cup Creating \cup {r}
    /\ UNCHANGED <<otpVars, sessionVars, spared, edited, clashed, op, faults>>

(* user.addRole is a statement of its own. *)
AddFirstRole(r) ==
    /\ pc[r] = "add_first_role"
    /\ \/ /\ Loaded(mine[r].uid)
          /\ user' = [user EXCEPT !.roles = @ \cup {"USER"}]
          /\ Goto(r, IF op[r] = "google" THEN "count" ELSE "create")
       \/ ~Loaded(mine[r].uid) /\ Finish(r) /\ UNCHANGED user
    /\ UNCHANGED <<otpVars, lastId, sessionVars, notes, op, faults>>

-------------------------------------------------------------------------------
(* The three logins find the user ... *)

Locals(u) == [NoLocals EXCEPT !.uid = u.id, !.ver = u.ver]

(* Loading the row and comparing the password the client sent. *)
LoginFind(r) ==
    /\ Arrives(r, "login")
    /\ \/ user # NoUser /\ user.secret /\ GotoWith(r, "count", Locals(user))
       \/ Finish(r)
    /\ UNCHANGED <<otpVars, userVars, sessionVars, notes, op, faults>>

GoogleFind(r) ==
    /\ Arrives(r, "google")
    /\ \/ user = NoUser /\ Goto(r, "create_user")
       \/ user # NoUser /\ ~user.linked /\ GotoWith(r, "link", Locals(user))
       \/ user # NoUser /\ user.linked /\ GotoWith(r, "count", Locals(user))
       \/ user # NoUser /\ user.linked /\ Finish(r)  \* another Google account
    /\ UNCHANGED <<otpVars, userVars, sessionVars, notes, op, faults>>

LinkGoogle(r) ==
    /\ pc[r] = "link"
    /\ user' = IF Loaded(mine[r].uid)
               THEN [user EXCEPT !.linked = TRUE, !.provider = "both"] ELSE user
    /\ Goto(r, "count")
    /\ UNCHANGED <<otpVars, lastId, sessionVars, notes, op, faults>>

(* _verifyOtp, for a login and for a password reset. *)
OtpStart(r) ==
    /\ Arrives(r, "otp_login") \/ Arrives(r, "verify_otp")
    /\ \E i \in Ids, right \in BOOLEAN : VerifyGet(r, i, right)
    /\ IF otp' = otp THEN Finish(r) ELSE Goto(r, "otp")
    /\ UNCHANGED <<userVars, sessionVars, notes, op, faults>>

OtpRefused(r) ==
    /\ pc[r] = "otp"
    /\ VerifyCount(r) \/ VerifyDrop(r)
    /\ Finish(r)
    /\ UNCHANGED <<userVars, sessionVars, notes, op, faults>>

OtpFind(r) ==
    /\ pc[r] = "otp" /\ op[r] = "otp_login" /\ otp[r].at = "match"
    /\ \/ user = NoUser /\ VerifyLeave(r) /\ Finish(r)
       \/ user # NoUser /\ GotoWith(r, "otp_spend", Locals(user)) /\ UNCHANGED otpVars
    /\ UNCHANGED <<userVars, sessionVars, notes, op, faults>>

OtpSpend(r) ==
    /\ \/ pc[r] = "otp_spend" /\ Goto(r, "count")
       \/ pc[r] = "otp" /\ op[r] = "verify_otp" /\ Finish(r)
    /\ VerifySpend(r)
    /\ UNCHANGED <<userVars, sessionVars, notes, op, faults>>

(* ... and make room for a session and create it. *)
CreateOrReload(r) == IF mine[r].made THEN "reload" ELSE "create"
Oldest(n, rows) ==
    {S \in SUBSET rows : /\ Cardinality(S) = n
                         /\ \A s \in S, t \in rows \ S : s.born < t.born}

(* Mutant: the limit is compared with a strict inequality. *)
CountSessions_Strict(r) ==
    /\ pc[r] = "count"
    /\ LET rows == {s \in sessions : s.uid = mine[r].uid}
       IN  \/ /\ Cardinality(rows) > Limit
              /\ \E oldest \in Oldest(Cardinality(rows) - Limit + 1, rows) :
                    GotoWith(r, "evict", [mine[r] EXCEPT !.list = oldest])
           \/ Cardinality(rows) <= Limit /\ Goto(r, CreateOrReload(r))
    /\ rushed' = IF Creating = {} THEN rushed ELSE rushed \cup Creating \cup {r}
    /\ UNCHANGED <<otpVars, userVars, sessionVars, spared, edited, clashed, op, faults>>

(* The rows come in the order of createdAt. *)
CountSessions(r) ==
    /\ pc[r] = "count"
    /\ LET rows == {s \in sessions : s.uid = mine[r].uid}
       IN  \/ /\ Cardinality(rows) >= Limit
              /\ \E oldest \in Oldest(Cardinality(rows) - Limit + 1, rows) :
                    GotoWith(r, "evict", [mine[r] EXCEPT !.list = oldest])
           \/ Cardinality(rows) < Limit /\ Goto(r, CreateOrReload(r))
    /\ rushed' = IF Creating = {} THEN rushed ELSE rushed \cup Creating \cup {r}
    /\ UNCHANGED <<otpVars, userVars, sessionVars, spared, edited, clashed, op, faults>>

EvictOne(r) ==
    /\ pc[r] = "evict"
    /\ \E s \in mine[r].list :
          /\ \A t \in mine[r].list : s.born <= t.born
          /\ DeleteSessions({s.id})
          /\ GotoWith(r, IF mine[r].list = {s} THEN CreateOrReload(r) ELSE "evict",
                      [mine[r] EXCEPT !.list = @ \ {s}])
    /\ UNCHANGED <<otpVars, userVars, notes, op, faults>>

(* A user that loginWithGoogle created is fetched again for its roles. *)
ReloadUser(r) ==
    /\ pc[r] = "reload"
    /\ IF Loaded(mine[r].uid) THEN Goto(r, "create") ELSE Finish(r)
    /\ UNCHANGED <<otpVars, userVars, sessionVars, notes, op, faults>>

(* Mutant: the user of the session is not checked. *)
CreateSession_NoKey(r) ==
    /\ pc[r] = "create"
    /\ sessions' = sessions \cup {SessionOf(r, mine[r])}
    /\ tokens' = tokens \cup {[id |-> r, uid |-> mine[r].uid]}
    /\ Finish(r)
    /\ UNCHANGED <<otpVars, userVars, late, notes, op, faults>>

(* The foreign key refuses a session of a user that is gone. *)
CreateSession(r) ==
    /\ pc[r] = "create"
    /\ IF Loaded(mine[r].uid)
       THEN /\ sessions' = sessions \cup {SessionOf(r, mine[r])}
            /\ tokens' = tokens \cup {[id |-> r, uid |-> mine[r].uid]}
       ELSE UNCHANGED <<sessions, tokens>>
    /\ Finish(r)
    /\ UNCHANGED <<otpVars, userVars, late, notes, op, faults>>

-------------------------------------------------------------------------------
(* Refresh and logout.  The client holds the cookie or token of any session *)
(* that was ever created.                                                   *)

RefreshFind(r) ==
    /\ Arrives(r, "refresh")
    /\ \E t \in tokens :
          IF \E s \in sessions : s.id = t.id /\ s.age = "fresh"
          THEN GotoWith(r, "refresh_user", [NoLocals EXCEPT !.uid = t.uid, !.sid = t.id])
          ELSE Finish(r)
    /\ UNCHANGED <<otpVars, userVars, sessionVars, notes, op, faults>>

RefreshUser(r) ==
    /\ pc[r] = "refresh_user"
    /\ IF Loaded(mine[r].uid) THEN Goto(r, "refresh_save") ELSE Finish(r)
    /\ UNCHANGED <<otpVars, userVars, sessionVars, notes, op, faults>>

(* Mutant: an upsert instead of an update. *)
RefreshSave_Upsert(r) ==
    /\ pc[r] = "refresh_save"
    /\ sessions' = {s \in sessions : s.id # mine[r].sid} \cup {SessionOf(mine[r].sid, mine[r])}
    /\ Finish(r)
    /\ UNCHANGED <<otpVars, userVars, tokens, late, notes, op, faults>>

(* UPDATE expiresAt: the rolling expiry, not the absolute one. *)
RefreshSave(r) ==
    /\ pc[r] = "refresh_save"
    /\ sessions' = {IF s.id = mine[r].sid /\ s.age = "rolled"
                    THEN [s EXCEPT !.age = "fresh"] ELSE s : s \in sessions}
    /\ Finish(r)
    /\ UNCHANGED <<otpVars, userVars, tokens, late, notes, op, faults>>

Logout(r) ==
    /\ Arrives(r, "logout")
    /\ \E t \in tokens : DeleteSessions({t.id})
    /\ Finish(r)
    /\ UNCHANGED <<otpVars, userVars, notes, op, faults>>

(* The access token outlives its session, so any one that was issued will do. *)
LogoutOthers(r) ==
    /\ Arrives(r, "logout_others")
    /\ \E t \in tokens :
          DeleteSessions(SidsOf({s \in sessions : s.uid = t.uid /\ s.id # t.id}))
    /\ Finish(r)
    /\ UNCHANGED <<otpVars, userVars, notes, op, faults>>

-------------------------------------------------------------------------------
(* Sending a one-time password *)

SendOtp(r) ==
    /\ \/ Arrives(r, "send_otp") /\ SendStart(r)
       \/ /\ pc[r] = "otp" /\ op[r] = "send_otp"
          /\ \/ SendGet(r) \/ SendClear(r) \/ SendUser(r, user # NoUser) \/ SendPut(r)
             \/ SendPoint(r) \/ SendMail(r) \/ SendUndo(r)
    /\ IF otp'[r].at = "idle" THEN Finish(r) ELSE Goto(r, "otp")
    /\ UNCHANGED <<userVars, sessionVars, notes, op, faults>>

-------------------------------------------------------------------------------
(* Passwords, deletion and roles *)

(* With a reset token; the token names the address. *)
ResetFind(r) ==
    /\ Arrives(r, "reset")
    /\ IF user = NoUser THEN Finish(r)
       ELSE GotoWith(r, "update_password",
                     [NoLocals EXCEPT !.uid = user.id, !.up = user.provider = "google"])
    /\ UNCHANGED <<otpVars, userVars, sessionVars, notes, op, faults>>

(* With the current password, by the holder of an access token. *)
ChangeFind(r) ==
    /\ Arrives(r, "change")
    /\ \E t \in tokens :
          \/ /\ Loaded(t.uid) /\ user.secret
             /\ GotoWith(r, "update_password", [NoLocals EXCEPT !.uid = t.uid])
          \/ Finish(r)
    /\ UNCHANGED <<otpVars, userVars, sessionVars, notes, op, faults>>

\* Those that have checked a password or a code.
LoginsUnderWay == {q \in Requests : mine[q].ver > 0}

UpdatePassword(r) ==
    /\ pc[r] = "update_password"
    /\ IF Loaded(mine[r].uid)
       THEN /\ user' = [user EXCEPT !.ver = @ + 1, !.secret = TRUE,
                                    !.provider = IF mine[r].up THEN "both" ELSE @]
            /\ spared' = spared \cup LoginsUnderWay
       ELSE UNCHANGED <<user, spared>>
    /\ Goto(r, "drop_sessions")
    /\ UNCHANGED <<otpVars, lastId, sessionVars, rushed, edited, clashed, op, faults>>

(* Mutant: the sessions are not deleted. *)
DropSessions_Kept(r) ==
    /\ pc[r] = "drop_sessions"
    /\ Finish(r)
    /\ UNCHANGED <<otpVars, userVars, sessionVars, notes, op, faults>>

DropSessions(r) ==
    /\ pc[r] = "drop_sessions"
    /\ DeleteSessions(SidsOf({s \in sessions : s.uid = mine[r].uid}))
    /\ Finish(r)
    /\ UNCHANGED <<otpVars, userVars, notes, op, faults>>

(* PATCH by the owner or an administrator hands the whole body to the row:  *)
(* a password, a provider and a Google id too.  No session is deleted.      *)
PatchUser(r) ==
    /\ Arrives(r, "patch")
    /\ \/ UNCHANGED <<user, spared, edited>>  \* other fields, or no such user
       \/ /\ user # NoUser
          /\ \E sets, secret, linked \in BOOLEAN, provider \in Providers :
                /\ ~sets => secret = user.secret
                /\ user' = [user EXCEPT !.ver = IF sets THEN @ + 1 ELSE @, !.secret = secret,
                                        !.linked = linked, !.provider = provider]
                /\ spared' = IF sets THEN spared \cup SidsOf(sessions) \cup LoginsUnderWay
                             ELSE spared
          /\ edited' = IF /\ Agrees(user')
                          /\ (user.secret => user'.secret) /\ (user.linked => user'.linked)
                       THEN edited ELSE edited \cup {user.id}
    /\ Finish(r)
    /\ UNCHANGED <<otpVars, lastId, sessionVars, rushed, clashed, op, faults>>

(* By its owner or by an administrator; sessions and roles cascade. *)
DeleteUser(r) ==
    /\ Arrives(r, "delete")
    /\ user' = NoUser
    /\ DeleteSessions(SidsOf(sessions))
    /\ Finish(r)
    /\ UNCHANGED <<otpVars, lastId, notes, op, faults>>

AssignRole(r) ==
    /\ \/ /\ Arrives(r, "assign_role")
          /\ \E role \in Roles :
                IF user = NoUser \/ role \in user.roles THEN Finish(r)
                ELSE GotoWith(r, "assign_load", [NoLocals EXCEPT !.role = role])
          /\ UNCHANGED user
       \/ /\ pc[r] = "assign_load"
          /\ IF user = NoUser THEN Finish(r)
             ELSE GotoWith(r, "assign_add", [mine[r] EXCEPT !.uid = user.id])
          /\ UNCHANGED user
       \/ /\ pc[r] = "assign_add"
          /\ user' = IF Loaded(mine[r].uid)
                     THEN [user EXCEPT !.roles = @ \cup {mine[r].role}] ELSE user
          /\ Finish(r)
    /\ UNCHANGED <<otpVars, lastId, sessionVars, notes, op, faults>>

(* user.setRoles reads the roles; then one statement deletes the obsolete   *)
(* ones and one inserts the new one, concurrently.                          *)
UpdateRoleFind(r) ==
    /\ \/ /\ Arrives(r, "update_role")
          /\ IF user = NoUser THEN Finish(r)
             ELSE \E role \in Roles : GotoWith(r, "role_load", [NoLocals EXCEPT !.role = role])
       \/ /\ pc[r] = "role_load"
          /\ IF user = NoUser THEN Finish(r)
             ELSE GotoWith(r, "role_read", [mine[r] EXCEPT !.uid = user.id])
    /\ UNCHANGED <<otpVars, userVars, sessionVars, notes, op, faults>>

(* Mutant: all the roles that were read are deleted, the wanted one too. *)
RoleRead_DropAll(r) ==
    /\ pc[r] = "role_read"
    /\ LET roles == IF Loaded(mine[r].uid) THEN user.roles ELSE {}
           todo == {a \in {"drop", "add"} : IF a = "drop" THEN roles # {} ELSE mine[r].role \notin roles}
       IN  IF todo = {} THEN Finish(r)
           ELSE GotoWith(r, "role_apply", [mine[r] EXCEPT !.old = roles, !.todo = todo])
    /\ clashed' = (clashed \/ \E q \in Requests : pc[q] = "role_apply")
    /\ UNCHANGED <<otpVars, userVars, sessionVars, rushed, spared, edited, op, faults>>

RoleRead(r) ==
    /\ pc[r] = "role_read"
    /\ LET roles == IF Loaded(mine[r].uid) THEN user.roles ELSE {}
           old == roles \ {mine[r].role}
           todo == {a \in {"drop", "add"} : IF a = "drop" THEN old # {} ELSE mine[r].role \notin roles}
       IN  IF todo = {} THEN Finish(r)
           ELSE GotoWith(r, "role_apply", [mine[r] EXCEPT !.old = old, !.todo = todo])
    /\ clashed' = (clashed \/ \E q \in Requests : pc[q] = "role_apply")
    /\ UNCHANGED <<otpVars, userVars, sessionVars, rushed, spared, edited, op, faults>>

RoleApply(r) ==
    /\ pc[r] = "role_apply"
    /\ \E a \in mine[r].todo :
          /\ user' = IF ~Loaded(mine[r].uid) THEN user
                     ELSE IF a = "drop" THEN [user EXCEPT !.roles = @ \ mine[r].old]
                     ELSE [user EXCEPT !.roles = @ \cup {mine[r].role}]
          /\ IF mine[r].todo = {a} THEN Finish(r)
             ELSE GotoWith(r, "role_apply", [mine[r] EXCEPT !.todo = @ \ {a}])
    /\ UNCHANGED <<otpVars, lastId, sessionVars, notes, op, faults>>

-------------------------------------------------------------------------------
(* The environment *)

Fault ==
    /\ faults < MaxFaults
    /\ faults' = faults + 1

(* A statement, a call or the process fails and the request ends there. *)
Fail(r) ==
    /\ Fault
    /\ pc[r] \notin {"new", "done"}
    /\ IF otp[r].at # "idle" THEN OtpFail(r) ELSE UNCHANGED otpVars
    /\ spared' = IF pc[r] = "drop_sessions" THEN spared \cup SidsOf(sessions) ELSE spared
    /\ clashed' = (clashed \/ pc[r] \in {"add_first_role", "role_apply"})
    /\ Finish(r)
    /\ UNCHANGED <<userVars, sessionVars, rushed, edited, op>>

(* The mail of a one-time password fails; Resend only reports it in its     *)
(* result, which is not looked at.                                          *)
MailFails(r) ==
    /\ Fault
    /\ \/ SendMailFails(r) /\ Goto(r, "otp")
       \/ /\ EndOtp(r, "mail") /\ Finish(r)
          /\ UNCHANGED <<codes, pointer, mailed, guesses, spent, crowd, tangled, revived>>
    /\ UNCHANGED <<userVars, sessionVars, notes, op>>

(* A session passes its rolling expiry, or its absolute one. *)
SessionAges(s) ==
    /\ Fault
    /\ \E age \in {"rolled", "final"} :
          /\ s.age # "final" /\ s.age # age
          /\ sessions' = (sessions \ {s}) \cup {[s EXCEPT !.age = age]}
    /\ UNCHANGED <<otpVars, userVars, tokens, late, notes, op, pc, mine>>

(* The daily job. *)
CleanSessions ==
    /\ \E s \in sessions : s.age # "fresh"
    /\ DeleteSessions(SidsOf({s \in sessions : s.age # "fresh"}))
    /\ UNCHANGED <<otpVars, userVars, notes, op, pc, mine, faults>>

CodeExpires ==
    /\ (\E i \in Ids : Expire(i)) \/ ExpirePointer
    /\ UNCHANGED <<userVars, sessionVars, notes, op, pc, mine, faults>>

Register(r) == RegisterFind(r) \/ CreateUser(r) \/ AddFirstRole(r)
Login(r) ==
    \/ LoginFind(r) \/ GoogleFind(r) \/ LinkGoogle(r)
    \/ CountSessions(r) \/ EvictOne(r) \/ ReloadUser(r) \/ CreateSession(r)
UseOtp(r) == OtpStart(r) \/ OtpRefused(r) \/ OtpFind(r) \/ OtpSpend(r) \/ SendOtp(r)
Refresh(r) == RefreshFind(r) \/ RefreshUser(r) \/ RefreshSave(r)
SetPassword(r) == ResetFind(r) \/ ChangeFind(r) \/ UpdatePassword(r) \/ DropSessions(r)
SetRoles(r) == AssignRole(r) \/ UpdateRoleFind(r) \/ RoleRead(r) \/ RoleApply(r)

Next ==
    \/ \E r \in Requests :
          \/ Register(r) \/ Login(r) \/ UseOtp(r) \/ Refresh(r)
          \/ Logout(r) \/ LogoutOthers(r)
          \/ SetPassword(r) \/ PatchUser(r) \/ DeleteUser(r) \/ SetRoles(r)
          \/ Fail(r) \/ MailFails(r)
    \/ \E s \in sessions : SessionAges(s)
    \/ CleanSessions
    \/ CodeExpires

Spec == Init /\ [][Next]_vars

-------------------------------------------------------------------------------
(* Properties *)

Labels == {"new", "done", "create_user", "add_first_role", "link", "otp", "otp_spend",
           "count", "evict", "reload", "create", "refresh_user", "refresh_save",
           "update_password", "drop_sessions", "assign_load", "assign_add",
           "role_load", "role_read", "role_apply"}

(* Types; every session belongs to the user row, no two have the same id. *)
TypeOK ==
    /\ OtpTypeOK
    /\ op \in [Requests -> Ops] /\ pc \in [Requests -> Labels]
    /\ user \in Users \cup {NoUser} /\ lastId \in Nat
    /\ sessions \subseteq [id : Sids, uid : Nat, ver : Nat, born : Nat,
                           age : {"fresh", "rolled", "final"}]
    /\ \A s \in sessions : Loaded(s.uid) /\ \A t \in sessions : s.id = t.id => s = t
    /\ tokens \subseteq [id : Sids, uid : Nat]
    /\ \A r \in Requests : mine[r].uid \in 0..lastId /\ mine[r].todo \subseteq {"drop", "add"}
    /\ faults \in 0..MaxFaults
    /\ late \subseteq Requests /\ rushed \subseteq Requests
    /\ spared \subseteq Sids /\ edited \subseteq 1..lastId /\ clashed \in BOOLEAN

(* A user has no more sessions than the limit, unless logins overlapped     *)
(* between counting the sessions and creating one; then at most one more    *)
(* for every login that overlapped after the first.                         *)
SessionLimit ==
    \/ Cardinality(sessions) <= Limit
    \/ Cardinality(sessions) < Limit + Cardinality(rushed)

(* A session whose login checked a password (or a code) before the last     *)
(* change or reset of the password is gone once that has ended, unless the  *)
(* login was under way when the password changed, or the deletion failed.   *)
(* A password set by PATCH ends no session: those of that moment are spared.*)
OldPasswordEndsSessions ==
    \A s \in sessions :
        s.ver < user.ver =>
            \/ s.id \in spared
            \/ \E r \in Requests : pc[r] = "drop_sessions" /\ mine[r].uid = user.id

(* The provider says which ways to log in there are, whatever the order in  *)
(* which a Google account is linked and a password is set, unless a PATCH   *)
(* made them disagree or took a way to log in away.                         *)
ProviderAgrees == user # NoUser /\ user.id \notin edited => Agrees(user)

(* A user has a role at all times, except while it is created or its roles  *)
(* are replaced, or after a replacement overlapped another or failed.       *)
KeepsARole ==
    user # NoUser /\ user.roles = {} =>
        \/ clashed
        \/ \E r \in Requests : /\ pc[r] \in {"add_first_role", "role_apply"}
                               /\ mine[r].uid = user.id

(* No order of requests leaves an account without a role, or without a way  *)
(* to log in that its provider names and no PATCH has touched.              *)
AccountStaysUsable == ProviderAgrees /\ KeepsARole

(* A session that was logged out, evicted or cleaned up never comes back,   *)
(* and a refresh is answered for it only when it had loaded it before.      *)
RevokedStaysRevoked ==
    [][\A t \in tokens : t.id \notin SidsOf(sessions) =>
          /\ t.id \notin SidsOf(sessions')
          /\ \A r \in Requests \ late :
                ~ (pc[r] = "refresh_save" /\ mine[r].sid = t.id /\ pc'[r] = "done")]_vars
================================================================================
