---------------------------- MODULE AccountsProofs ----------------------------
(***************************************************************************)
(* Proofs about Accounts, for any number of requests, devices, passwords   *)
(* and faults, any limit of sessions and of attempts, and any combination  *)
(* of requests.  Each property is proved from a part of the state that is  *)
(* inductive with the types and the stages of the requests:                *)
(*   AccountInv   the row, its provider and its roles,                     *)
(*   SessionInv   the session rows, the limit and the old passwords,       *)
(*   CodeInv      the one-time passwords.                                  *)
(***************************************************************************)
EXTENDS Accounts, FiniteSetTheorems, TLAPS

Rows == [id : Sids, uid : Nat, ver : Nat, born : Nat, age : {"fresh", "rolled", "final"}]
LocalRows == [uid : Nat, ver : Nat, made : BOOLEAN, sid : Sids \cup {Nobody}, list : SUBSET Rows,
              up : BOOLEAN, role : Roles, old : SUBSET Roles, todo : SUBSET {"drop", "add"}]
Codes == {NoCode} \cup [tries : 0..MaxAttempts, ttl : BOOLEAN]
OtpSteps == SendSteps \cup VerifySteps \cup {"idle"}

-------------------------------------------------------------------------------
(* The invariants *)

OtpTypes ==
    /\ codes \in [Ids -> Codes]
    /\ pointer \in Ids \cup {Nobody}
    /\ otp \in [Requests -> [at : OtpSteps, id : Ids \cup {Nobody}, seen : 0..MaxAttempts]]
    /\ mailed \subseteq Ids /\ tangled \subseteq Requests /\ revived \subseteq Requests
    /\ guesses \in [Ids -> SUBSET Requests]
    /\ spent \in [Ids -> SUBSET Requests]
    /\ crowd \in [Ids -> SUBSET Requests]

(* Where a request is in _verifyOtp or sendOtp, seen from Redis. *)
OtpStage(r) ==
    /\ otp[r].at \in VerifySteps \cup {"clear"} => otp[r].id \in Ids
    /\ otp[r].at = "count" => otp[r].seen < MaxAttempts
    /\ otp[r].at # "idle" => pc[r] \in {"otp", "otp_spend"}
    /\ otp[r].at \in SendSteps <=> (pc[r] = "otp" /\ op[r] = "send_otp")
    /\ otp[r].at \in VerifySteps => op[r] \in {"otp_login", "verify_otp"}
    /\ pc[r] = "otp_spend" => otp[r].at = "match"

BaseTypes ==
    /\ op \in [Requests -> Ops] /\ pc \in [Requests -> Labels]
    /\ user \in Users \cup {NoUser} /\ lastId \in Nat
    /\ sessions \subseteq Rows /\ IsFiniteSet(sessions)
    /\ tokens \subseteq [id : Sids, uid : Nat] /\ IsFiniteSet(tokens)
    /\ mine \in [Requests -> LocalRows]
    /\ faults \in 0..MaxFaults
    /\ late \subseteq Requests /\ rushed \subseteq Requests
    /\ spared \subseteq Sids /\ clashed \in BOOLEAN

(* Ids of users are given once, and a request knows only those given. *)
KnownUsers ==
    /\ edited \subseteq 1..lastId
    /\ user # NoUser => user.id \in 1..lastId
    /\ \A t \in tokens : t.uid \in 1..lastId
    /\ \A r \in Requests : mine[r].uid \in 0..lastId

(* Sessions hang on the row, have been handed to a client, and the request  *)
(* that created one has ended.                                              *)
KnownSessions ==
    /\ \A s \in sessions : Loaded(s.uid) /\ \A t \in sessions : s.id = t.id => s = t
    /\ \A s \in sessions : [id |-> s.id, uid |-> s.uid] \in tokens
    /\ \A t \in tokens : t.id \in Requests => pc[t.id] = "done"

TypeInv ==
    /\ OtpTypes /\ (\A r \in Requests : OtpStage(r))
    /\ BaseTypes /\ KnownUsers /\ KnownSessions

(* The row, as the requests that are about to change it have read it, unless *)
(* a PATCH has changed it since. *)
RowStage(r) ==
    /\ pc[r] \in {"create_user", "add_first_role"} => op[r] \in {"register", "google"}
    /\ pc[r] = "link" /\ Loaded(mine[r].uid) => user.secret \/ user.id \in edited
    /\ pc[r] = "update_password" /\ Loaded(mine[r].uid) =>
          (IF mine[r].up THEN user.linked ELSE user.secret) \/ user.id \in edited

(* The only replacement of roles that is under way keeps the wanted role. *)
RoleStage(r) ==
    pc[r] = "role_apply" =>
        /\ \A q \in Requests : pc[q] = "role_apply" => q = r
        /\ mine[r].role \notin mine[r].old
        /\ Loaded(mine[r].uid) /\ "add" \notin mine[r].todo => mine[r].role \in user.roles

AccountInv ==
    /\ AccountStaysUsable
    /\ \A r \in Requests : RowStage(r) /\ (~clashed => RoleStage(r))

Held == SidsOf(sessions)
Refreshing(r) == pc[r] \in {"refresh_user", "refresh_save"}
(* The sessions that r leaves when it has deleted the ones on its list. *)
Left(r) == Held \ SidsOf(mine[r].list)

(* A login remembers which password it has checked, and any that was under  *)
(* way when the password changed is spared.                                 *)
LoginSteps == {"add_first_role", "link", "otp_spend", "count", "evict", "reload", "create"}
LoginStage(r) ==
    /\ pc[r] \in LoginSteps <=> mine[r].ver > 0
    /\ pc[r] \in LoginSteps \ {"evict"} => mine[r].list = {}
    /\ pc[r] \in LoginSteps /\ Loaded(mine[r].uid) => mine[r].ver = user.ver \/ r \in spared

(* One who creates a session without having been overlapped is alone; and   *)
(* until one of those that overlapped has ended, each makes enough room.    *)
RoomIsMade ==
    /\ \A r \in rushed : r \in Creating \/ pc[r] = "done"
    /\ \A r \in Creating : r \notin rushed => Creating = {r}
    /\ \A r \in Creating : (rushed \subseteq Creating \/ r \notin rushed) /\ Loaded(mine[r].uid) =>
          Cardinality(Left(r)) < Limit
    /\ \/ Cardinality(Held) <= Limit
       \/ Cardinality(Held) < Limit + Cardinality(rushed \ Creating)

SessionInv ==
    /\ user # NoUser => user.ver > 0
    /\ \A r \in Requests : LoginStage(r) /\ (Refreshing(r) /\ r \notin late => mine[r].sid \in Held)
    /\ RoomIsMade
    /\ OldPasswordEndsSessions

Checking == {r \in Requests : otp[r].at \in VerifySteps}
BeforePut == {"get", "clear", "user", "put"}

(* A code is written by one send, mailed after that and guessed after that, *)
(* and a request sends or guesses once.                                     *)
CodeStage(r) ==
    /\ pc[r] = "new" \/ otp[r].at \in BeforePut => ~Exists(r)
    /\ pc[r] = "new" \/ otp[r].at \in SendSteps => r \notin mailed
    /\ r \in revived => pc[r] = "done"
    /\ r \in tangled => op[r] = "send_otp" /\ pc[r] # "new"
    /\ r \in revived => op[r] \in {"otp_login", "verify_otp"}
    /\ otp[r].at \in VerifySteps => otp[r].id \in mailed
    /\ \A i \in Ids : r \in guesses[i] =>
          pc[r] = "done" \/ (otp[r].at = "count" /\ otp[r].id = i)

(* The guesses of i that were not overlapped and have been counted. *)
Counted(i) == (guesses[i] \ crowd[i]) \ Verifying(i)

CodeHistory(i) ==
    /\ guesses[i] # {} \/ spent[i] # {} => i \in mailed
    /\ Exists(i) => i \in mailed \/ codes[i].ttl
    /\ \A r \in Verifying(i) : r \notin crowd[i] => Verifying(i) = {r}
    /\ spent[i] \ crowd[i] # {} => ~Exists(i) /\ Verifying(i) = {}
    /\ Cardinality(spent[i] \ crowd[i]) <= 1
    /\ Exists(i) => Cardinality(Counted(i)) <= codes[i].tries
    /\ \A r \in Verifying(i) : Cardinality(Counted(i)) <= otp[r].seen
    /\ Cardinality(guesses[i] \ crowd[i]) <= MaxAttempts

(* The pointed code, or the one that is about to be pointed to. *)
Headed == {pointer} \cup {r \in Sending \ tangled : otp[r].at = "point"}
(* The pointed code is alive and may lose its pointer, by the verification  *)
(* of a code that is gone or by an expiry.                                  *)
Hit ==
    /\ pointer \in Live \ tangled
    /\ \/ ~codes[pointer].ttl
       \/ \E r \in Checking : /\ otp[r].at \in {"drop", "match"}
                              /\ otp[r].id # pointer /\ ~Exists(otp[r].id)
Orphans == (Live \ tangled) \ Headed
Loose == Orphans \cup (IF Hit THEN {Nobody} ELSE {})
(* What may still excuse one: a guess that revived, a tangled code that is gone. *)
Dead == {r \in tangled : ~Exists(r) /\ otp[r].at \notin BeforePut}
Excuses == revived \cup Dead

PointerStage(r) ==
    /\ otp[r].at = "clear" => pointer \in tangled \cup {Nobody, otp[r].id}
    /\ otp[r].at \in {"user", "put", "point", "mail", "undo"} =>
          pointer \in tangled \cup {Nobody, r}
    /\ r \in Sending \ tangled => Sending = {r} /\ Checking = {}

CodeInv ==
    /\ \A r \in Requests : CodeStage(r) /\ PointerStage(r)
    /\ \A i \in Ids : CodeHistory(i)
    /\ Cardinality(Loose) <= Cardinality(Excuses)

-------------------------------------------------------------------------------
(* What a step may do to the row, to the sessions and to the requests *)

RowMoves ==
    \/ UNCHANGED userVars
    \/ user' = NoUser /\ sessions' = {} /\ UNCHANGED lastId
    \/ /\ user = NoUser /\ lastId' = lastId + 1
       /\ user' \in Users /\ user'.id = lastId' /\ UNCHANGED sessions
    \/ user # NoUser /\ user' \in Users /\ user'.id = user.id /\ UNCHANGED lastId

(* Another age, but the same rows. *)
Renewed ==
    /\ UNCHANGED tokens
    /\ sessions' \subseteq Rows /\ IsFiniteSet(sessions') /\ SidsOf(sessions') = SidsOf(sessions)
    /\ \A s \in sessions' : \E t \in sessions : s.id = t.id /\ s.uid = t.uid /\ s.ver = t.ver
    /\ \A s, t \in sessions' : s.id = t.id => s = t

Created(r) ==
    /\ pc[r] = "create" /\ pc' = [pc EXCEPT ![r] = "done"] /\ Loaded(mine[r].uid)
    /\ sessions' = sessions \cup {SessionOf(r, mine[r])}
    /\ tokens' = tokens \cup {[id |-> r, uid |-> mine[r].uid]}
    /\ UNCHANGED userVars

SessionMoves ==
    \/ sessions' \subseteq sessions /\ UNCHANGED tokens
    \/ Renewed
    \/ \E r \in Requests : Created(r)

RequestMoves ==
    \/ UNCHANGED <<pc, mine>>
    \/ \E r \in Requests, m \in Labels \ {"new"}, l \in LocalRows :
          /\ GotoWith(r, m, l)
          /\ pc[r] # "done" /\ l.uid \in 0..lastId'

(* What a PATCH does to a row, as the histories remember it. *)
PatchMoves ==
    /\ user # NoUser /\ user' \in Users /\ user'.id = user.id /\ user'.roles = user.roles
    /\ \/ user.id \in edited'
       \/ Agrees(user') /\ (user.secret => user'.secret) /\ (user.linked => user'.linked)
    /\ \/ user'.ver = user.ver
       \/ /\ user'.ver = user.ver + 1
          /\ SidsOf(sessions) \subseteq spared' /\ LoginsUnderWay \subseteq spared'

LEMMA Patched ==
    ASSUME user \in Users \cup {NoUser}, NEW r \in Requests, PatchUser(r)
    PROVE  UNCHANGED user \/ PatchMoves
<1>1. CASE UNCHANGED user
  BY <1>1
<1>2. CASE user' # user
  <2>1. /\ user # NoUser
        /\ \E sets, secret, linked \in BOOLEAN, provider \in Providers :
              /\ user' = [user EXCEPT !.ver = IF sets THEN @ + 1 ELSE @, !.secret = secret,
                                      !.linked = linked, !.provider = provider]
              /\ spared' = IF sets THEN spared \cup SidsOf(sessions) \cup LoginsUnderWay
                           ELSE spared
        /\ edited' = IF /\ Agrees(user')
                        /\ (user.secret => user'.secret) /\ (user.linked => user'.linked)
                     THEN edited ELSE edited \cup {user.id}
    BY <1>2, Zenon DEF PatchUser
  <2>2. PICK sets, secret, linked \in BOOLEAN, provider \in Providers :
           /\ user' = [user EXCEPT !.ver = IF sets THEN @ + 1 ELSE @, !.secret = secret,
                                   !.linked = linked, !.provider = provider]
           /\ spared' = IF sets THEN spared \cup SidsOf(sessions) \cup LoginsUnderWay ELSE spared
    BY <2>1
  <2> DEFINE ver == IF sets THEN user.ver + 1 ELSE user.ver
  <2>3. user \in Users /\ ver \in Nat
    BY <2>1 DEF Users
  <2>4. user' = [user EXCEPT !.ver = ver, !.secret = secret, !.linked = linked,
                             !.provider = provider]
    BY <2>2, <2>3 DEF Users
  <2>5. user' \in Users /\ user'.id = user.id /\ user'.roles = user.roles /\ user'.ver = ver
    <3> HIDE DEF ver
    <3> QED  BY <2>3, <2>4 DEF Users
  <2>6. \/ user.id \in edited'
        \/ Agrees(user') /\ (user.secret => user'.secret) /\ (user.linked => user'.linked)
    BY <2>1
  <2>7. \/ ver = user.ver
        \/ ver = user.ver + 1 /\ SidsOf(sessions) \subseteq spared' /\ LoginsUnderWay \subseteq spared'
    BY <2>2
  <2> HIDE DEF ver
  <2> QED  BY <2>1, <2>5, <2>6, <2>7 DEF PatchMoves
<1> QED  BY <1>1, <1>2

LEMMA RowMovesNext ==
    ASSUME TypeInv, Next
    PROVE  RowMoves
<1> USE DEF TypeInv, BaseTypes
<1>1. ASSUME NEW r \in Requests, CreateUser(r)
      PROVE  RowMoves
  <2>1. CASE UNCHANGED userVars
    BY <2>1 DEF RowMoves
  <2>2. CASE user = NoUser /\ lastId' = lastId + 1
    <3>1. user' = [id |-> lastId + 1, ver |-> 1, secret |-> op[r] = "register",
                   linked |-> op[r] = "google", roles |-> {},
                   provider |-> IF op[r] = "google" THEN "google" ELSE "local"]
      BY <1>1, <2>2 DEF CreateUser, userVars
    <3>2. user' \in Users /\ user'.id = lastId'
      BY <3>1, <2>2 DEF Users, Providers
    <3> QED  BY <3>2, <2>2, <1>1 DEF RowMoves, CreateUser, sessionVars
  <2> QED  BY <2>1, <2>2, <1>1 DEF CreateUser
<1>2. ASSUME NEW r \in Requests, AddFirstRole(r) \/ LinkGoogle(r) \/ UpdatePassword(r)
      PROVE  RowMoves
  <2>1. CASE user' = user
    BY <1>2, <2>1 DEF RowMoves, AddFirstRole, LinkGoogle, UpdatePassword, userVars
  <2>2. CASE Loaded(mine[r].uid)
    <3>1. user \in Users /\ user # NoUser  BY <2>2 DEF Loaded
    <3>2. \/ user' = [user EXCEPT !.roles = @ \cup {"USER"}]
          \/ user' = [user EXCEPT !.linked = TRUE, !.provider = "both"]
          \/ user' = [user EXCEPT !.ver = @ + 1, !.secret = TRUE,
                                  !.provider = IF mine[r].up THEN "both" ELSE @]
      BY <1>2, <2>2, <3>1 DEF AddFirstRole, LinkGoogle, UpdatePassword
    <3>3. user' \in Users /\ user'.id = user.id
      <4>1. CASE user' = [user EXCEPT !.roles = @ \cup {"USER"}]
        BY <3>1, <4>1 DEF Users, Roles
      <4>2. CASE user' = [user EXCEPT !.linked = TRUE, !.provider = "both"]
        BY <3>1, <4>2 DEF Users, Providers
      <4>3. CASE user' = [user EXCEPT !.ver = @ + 1, !.secret = TRUE,
                                      !.provider = IF mine[r].up THEN "both" ELSE @]
        <5> DEFINE p == IF mine[r].up THEN "both" ELSE user.provider
        <5>1. user' = [user EXCEPT !.ver = user.ver + 1, !.secret = TRUE, !.provider = p]
          BY <3>1, <4>3 DEF Users
        <5>2. p \in Providers /\ user.ver + 1 \in Nat
          BY <3>1 DEF Users, Providers
        <5> HIDE DEF p
        <5> QED  BY <3>1, <5>1, <5>2 DEF Users
      <4> QED  BY <3>2, <4>1, <4>2, <4>3
    <3> QED  BY <1>2, <3>1, <3>3 DEF RowMoves, AddFirstRole, LinkGoogle, UpdatePassword
  <2> QED  BY <1>2, <2>1, <2>2 DEF AddFirstRole, LinkGoogle, UpdatePassword
<1>3. ASSUME NEW r \in Requests, AssignRole(r) \/ RoleApply(r)
      PROVE  RowMoves
  <2>1. CASE user' = user
    BY <1>3, <2>1 DEF RowMoves, AssignRole, RoleApply, userVars
  <2>2. CASE user' # user
    <3>1. Loaded(mine[r].uid) /\ UNCHANGED lastId
      BY <1>3, <2>2 DEF AssignRole, RoleApply
    <3>2. user \in Users /\ user # NoUser  BY <3>1 DEF Loaded
    <3>3. \/ user' = [user EXCEPT !.roles = @ \ mine[r].old]
          \/ user' = [user EXCEPT !.roles = @ \cup {mine[r].role}]
      BY <1>3, <2>2 DEF AssignRole, RoleApply
    <3>4. mine[r].role \in Roles
      BY DEF LocalRows
    <3>5. user' \in Users /\ user'.id = user.id
      BY <3>2, <3>3, <3>4 DEF Users
    <3> QED  BY <3>1, <3>2, <3>5 DEF RowMoves
  <2> QED  BY <2>1, <2>2
<1>4. CASE \E r \in Requests : DeleteUser(r)
  BY <1>4 DEF DeleteUser, DeleteSessions, SidsOf, RowMoves
<1>5. CASE UNCHANGED userVars
  BY <1>5 DEF RowMoves
<1>6. ASSUME NEW r \in Requests, PatchUser(r)
      PROVE  RowMoves
  <2>1. UNCHANGED lastId
    BY <1>6 DEF PatchUser
  <2> QED  BY <1>6, <2>1, Patched DEF PatchMoves, RowMoves, userVars
<1>7. QED
  BY <1>1, <1>2, <1>3, <1>4, <1>5, <1>6, ZenonT(60)
  DEF Next, Register, Login, UseOtp, Refresh, SetPassword, SetRoles, RegisterFind, LoginFind,
      GoogleFind, CountSessions, EvictOne, ReloadUser, CreateSession, OtpStart, OtpRefused,
      OtpFind, OtpSpend, SendOtp, RefreshFind, RefreshUser, RefreshSave, Logout, LogoutOthers,
      ResetFind, ChangeFind, DropSessions, UpdateRoleFind, RoleRead, Fail, MailFails,
      SessionAges, CleanSessions, CodeExpires

(* Facts about cardinalities that the proofs below use. *)
LEMMA ImageOf ==
    ASSUME NEW S, IsFiniteSet(S), NEW f
    PROVE  /\ IsFiniteSet({f[x] : x \in S})
           /\ Cardinality({f[x] : x \in S}) <= Cardinality(S)
<1> DEFINE T == {f[x] : x \in S}
           g == [x \in S |-> f[x]]
<1>1. g \in Surjection(S, T)
  BY DEF Surjection
<1> HIDE DEF g, T
<1>2. IsFiniteSet(T) /\ Cardinality(T) <= Cardinality(S)
  BY <1>1, FS_Surjection
<1> QED  BY <1>2 DEF T

LEMMA SessionMovesNext ==
    ASSUME TypeInv, Next
    PROVE  SessionMoves
<1> USE DEF TypeInv, BaseTypes
<1>1. ASSUME NEW S, DeleteSessions(S)
      PROVE  SessionMoves
  BY <1>1 DEF DeleteSessions, SessionMoves
<1>2. CASE UNCHANGED sessionVars
  BY <1>2 DEF sessionVars, SessionMoves
<1>3. ASSUME NEW r \in Requests, CreateSession(r)
      PROVE  SessionMoves
  BY <1>3 DEF CreateSession, SessionMoves, Created, Finish, GotoWith
<1>4. ASSUME NEW r \in Requests, RefreshSave(r)
      PROVE  SessionMoves
  <2> DEFINE F == [s \in sessions |-> IF s.id = mine[r].sid /\ s.age = "rolled"
                                      THEN [s EXCEPT !.age = "fresh"] ELSE s]
  <2>1. \A s \in sessions : F[s] \in Rows /\ F[s].id = s.id /\ F[s].uid = s.uid /\ F[s].ver = s.ver
    BY DEF Rows
  <2>2. sessions' = {F[s] : s \in sessions} /\ UNCHANGED tokens
    BY <1>4 DEF RefreshSave
  <2> HIDE DEF F
  <2>3. IsFiniteSet(sessions')
    BY <2>2, ImageOf
  <2>4. SidsOf(sessions') = SidsOf(sessions)
    BY <2>1, <2>2 DEF SidsOf
  <2>5. \A s, t \in sessions' : s.id = t.id => s = t
    BY <2>1, <2>2 DEF KnownSessions
  <2>6. /\ sessions' \subseteq Rows
        /\ \A s \in sessions' : \E t \in sessions : s.id = t.id /\ s.uid = t.uid /\ s.ver = t.ver
    BY <2>1, <2>2
  <2>7. Renewed
    BY <2>2, <2>3, <2>4, <2>5, <2>6 DEF Renewed
  <2> QED  BY <2>7 DEF SessionMoves
<1>5. ASSUME NEW s \in sessions, SessionAges(s)
      PROVE  SessionMoves
  <2>1. PICK age \in {"rolled", "final"} :
            sessions' = (sessions \ {s}) \cup {[s EXCEPT !.age = age]}
    BY <1>5 DEF SessionAges
  <2> DEFINE n == [s EXCEPT !.age = age]
  <2>2. n \in Rows /\ n.id = s.id /\ n.uid = s.uid /\ n.ver = s.ver
    BY DEF Rows
  <2>3. sessions' = (sessions \ {s}) \cup {n} /\ UNCHANGED tokens
    BY <1>5, <2>1 DEF SessionAges
  <2> HIDE DEF n
  <2>4. IsFiniteSet(sessions')
    BY <2>3, FS_RemoveElement, FS_AddElement
  <2>5. SidsOf(sessions') = SidsOf(sessions)
    BY <2>2, <2>3 DEF SidsOf
  <2>6. \A t, u \in sessions' : t.id = u.id => t = u
    BY <2>2, <2>3 DEF KnownSessions
  <2>7. /\ sessions' \subseteq Rows
        /\ \A t \in sessions' : \E u \in sessions : t.id = u.id /\ t.uid = u.uid /\ t.ver = u.ver
    BY <2>2, <2>3
  <2>8. Renewed
    BY <2>3, <2>4, <2>5, <2>6, <2>7 DEF Renewed
  <2> QED  BY <2>8 DEF SessionMoves
<1>6. QED
  BY <1>1, <1>2, <1>3, <1>4, <1>5, ZenonT(60)
  DEF Next, Register, Login, UseOtp, Refresh, SetPassword, SetRoles, RegisterFind, CreateUser,
      AddFirstRole, LoginFind, GoogleFind, LinkGoogle, CountSessions, EvictOne, ReloadUser,
      OtpStart, OtpRefused, OtpFind, OtpSpend, SendOtp, RefreshFind, RefreshUser, Logout,
      LogoutOthers, ResetFind, ChangeFind, UpdatePassword, DropSessions, PatchUser, DeleteUser, AssignRole,
      UpdateRoleFind, RoleRead, RoleApply, Fail, MailFails, CleanSessions, CodeExpires

LEMMA NoLocalsTyped == NoLocals \in LocalRows /\ NoLocals.uid = 0
BY DEF NoLocals, LocalRows, Roles

LEMMA NewLocals ==
    ASSUME NEW uid \in Nat
    PROVE  /\ [NoLocals EXCEPT !.uid = uid] \in LocalRows
           /\ [NoLocals EXCEPT !.uid = uid].uid = uid
           /\ \A ver \in Nat : /\ [NoLocals EXCEPT !.uid = uid, !.ver = ver] \in LocalRows
                               /\ [NoLocals EXCEPT !.uid = uid, !.ver = ver].uid = uid
           /\ \A made \in BOOLEAN :
                 /\ [NoLocals EXCEPT !.uid = uid, !.ver = 1, !.made = made] \in LocalRows
                 /\ [NoLocals EXCEPT !.uid = uid, !.ver = 1, !.made = made].uid = uid
           /\ \A sid \in Sids : /\ [NoLocals EXCEPT !.uid = uid, !.sid = sid] \in LocalRows
                                /\ [NoLocals EXCEPT !.uid = uid, !.sid = sid].uid = uid
           /\ \A up \in BOOLEAN : /\ [NoLocals EXCEPT !.uid = uid, !.up = up] \in LocalRows
                                  /\ [NoLocals EXCEPT !.uid = uid, !.up = up].uid = uid
<1>1. /\ [NoLocals EXCEPT !.uid = uid] \in LocalRows
      /\ [NoLocals EXCEPT !.uid = uid].uid = uid
  BY NoLocalsTyped DEF LocalRows
<1>2. \A ver \in Nat : /\ [NoLocals EXCEPT !.uid = uid, !.ver = ver] \in LocalRows
                       /\ [NoLocals EXCEPT !.uid = uid, !.ver = ver].uid = uid
  BY <1>1 DEF LocalRows
<1>3. \A made \in BOOLEAN :
         /\ [NoLocals EXCEPT !.uid = uid, !.ver = 1, !.made = made] \in LocalRows
         /\ [NoLocals EXCEPT !.uid = uid, !.ver = 1, !.made = made].uid = uid
  BY <1>2 DEF LocalRows
<1>4. \A sid \in Sids : /\ [NoLocals EXCEPT !.uid = uid, !.sid = sid] \in LocalRows
                        /\ [NoLocals EXCEPT !.uid = uid, !.sid = sid].uid = uid
  BY <1>1 DEF LocalRows
<1>5. \A up \in BOOLEAN : /\ [NoLocals EXCEPT !.uid = uid, !.up = up] \in LocalRows
                          /\ [NoLocals EXCEPT !.uid = uid, !.up = up].uid = uid
  BY <1>1 DEF LocalRows
<1> QED  BY <1>1, <1>2, <1>3, <1>4, <1>5

LEMMA RequestMovesNext ==
    ASSUME TypeInv, Next
    PROVE  RequestMoves
<1> USE DEF TypeInv, BaseTypes
<1> DEFINE Later == Labels \ {"new"}
<1>1. lastId' \in Nat /\ lastId <= lastId'
  BY RowMovesNext DEF RowMoves, userVars
<1>2. ASSUME NEW r \in Requests, pc[r] # "done", NEW m \in Later, NEW l \in LocalRows,
             l.uid \in 0..lastId, GotoWith(r, m, l)
      PROVE  RequestMoves
  BY <1>1, <1>2 DEF RequestMoves
<1>3. ASSUME NEW r \in Requests, pc[r] # "done", NEW m \in Later, Goto(r, m)
      PROVE  RequestMoves
  <2>1. GotoWith(r, m, mine[r])
    BY <1>3 DEF Goto, GotoWith
  <2> QED  BY <2>1, <1>2, <1>3 DEF KnownUsers
<1>4. ASSUME NEW r \in Requests, pc[r] # "done", Finish(r)
      PROVE  RequestMoves
  <2>1. "done" \in Later  BY DEF Labels
  <2> QED  BY <2>1, <1>2, <1>4, NoLocalsTyped DEF Finish, KnownUsers
<1>5. ASSUME NEW r \in Requests,
             RegisterFind(r) \/ AddFirstRole(r) \/ LinkGoogle(r) \/ ReloadUser(r)
             \/ CreateSession(r) \/ OtpStart(r) \/ OtpRefused(r) \/ OtpSpend(r) \/ SendOtp(r)
             \/ RefreshUser(r) \/ RefreshSave(r) \/ Logout(r) \/ LogoutOthers(r)
             \/ UpdatePassword(r) \/ DropSessions(r) \/ PatchUser(r) \/ DeleteUser(r)
             \/ Fail(r)
      PROVE  RequestMoves
  <2>1. pc[r] # "done"
    BY <1>5 DEF Arrives, RegisterFind, AddFirstRole, LinkGoogle, ReloadUser, CreateSession,
                OtpStart, OtpRefused, OtpSpend, SendOtp, RefreshUser, RefreshSave, Logout,
                LogoutOthers, UpdatePassword, DropSessions, PatchUser, DeleteUser, Fail
  <2>2. Finish(r) \/ \E m \in Later : Goto(r, m)
    BY <1>5 DEF Labels, RegisterFind, AddFirstRole, LinkGoogle, ReloadUser, CreateSession,
                OtpStart, OtpRefused, OtpSpend, SendOtp, RefreshUser, RefreshSave, Logout,
                LogoutOthers, UpdatePassword, DropSessions, PatchUser, DeleteUser, Fail
  <2> QED  BY <2>1, <2>2, <1>3, <1>4
<1>6. ASSUME NEW r \in Requests, MailFails(r)
      PROVE  RequestMoves
  <2>1. pc[r] # "done"
    BY <1>6 DEF MailFails, SendMailFails, GoOtp, EndOtp, SendSteps, OtpStage
  <2>2. Finish(r) \/ Goto(r, "otp")
    BY <1>6 DEF MailFails
  <2>3. "otp" \in Later  BY DEF Labels
  <2> QED  BY <2>1, <2>2, <2>3, <1>3, <1>4
<1>7. ASSUME user # NoUser
      PROVE  Locals(user) \in LocalRows /\ Locals(user).uid \in 0..lastId
  <2>1. user.id \in 0..lastId /\ user.ver \in Nat
    BY <1>7 DEF Users, KnownUsers
  <2>2. user.id \in Nat  BY <1>7 DEF Users
  <2> QED  BY <2>1, <2>2, NewLocals, Zenon DEF Locals
<1>8. ASSUME NEW r \in Requests, LoginFind(r) \/ GoogleFind(r) \/ OtpFind(r)
      PROVE  RequestMoves
  <2>1. pc[r] # "done"
    BY <1>8 DEF Arrives, LoginFind, GoogleFind, OtpFind
  <2>2. \/ Finish(r) \/ Goto(r, "create_user")
        \/ user # NoUser /\ \E m \in {"count", "link", "otp_spend"} : GotoWith(r, m, Locals(user))
    BY <1>8 DEF LoginFind, GoogleFind, OtpFind
  <2>3. {"create_user", "count", "link", "otp_spend"} \subseteq Later
    BY DEF Labels
  <2> QED  BY <2>1, <2>2, <2>3, <1>2, <1>3, <1>4, <1>7
<1>9. ASSUME NEW r \in Requests, CountSessions(r) \/ EvictOne(r)
      PROVE  RequestMoves
  <2>1. pc[r] # "done" /\ {"evict", "reload", "create"} \subseteq Later
    BY <1>9 DEF CountSessions, EvictOne, Labels
  <2>2. \/ \E m \in {"reload", "create"} : Goto(r, m)
        \/ \E m \in {"evict", "reload", "create"}, S \in SUBSET Rows :
              GotoWith(r, m, [mine[r] EXCEPT !.list = S])
    <3>1. CASE CountSessions(r)
      <4> DEFINE rows == {s \in sessions : s.uid = mine[r].uid}
      <4>1. \A S \in Oldest(Cardinality(rows) - Limit + 1, rows) : S \in SUBSET Rows
        BY DEF Oldest
      <4> QED  BY <3>1, <4>1 DEF CountSessions, CreateOrReload
    <3>2. CASE EvictOne(r)
      <4>1. \A s : mine[r].list \ {s} \in SUBSET Rows
        BY DEF LocalRows
      <4> QED  BY <3>2, <4>1 DEF EvictOne, CreateOrReload
    <3> QED  BY <1>9, <3>1, <3>2
  <2>3. \A S \in SUBSET Rows : /\ [mine[r] EXCEPT !.list = S] \in LocalRows
                               /\ [mine[r] EXCEPT !.list = S].uid \in 0..lastId
    BY DEF LocalRows, KnownUsers
  <2> QED  BY <2>1, <2>2, <2>3, <1>2, <1>3
<1>10. ASSUME NEW r \in Requests, CreateUser(r)
       PROVE  RequestMoves
  <2> DEFINE l == [NoLocals EXCEPT !.uid = lastId + 1, !.ver = 1, !.made = op[r] = "google"]
  <2>1. pc[r] # "done" /\ "add_first_role" \in Later
    BY <1>10 DEF CreateUser, Labels
  <2>2. l \in LocalRows /\ l.uid = lastId + 1
    <3>1. lastId + 1 \in Nat /\ (op[r] = "google") \in BOOLEAN
      OBVIOUS
    <3> QED  BY <3>1, NewLocals, Zenon
  <2>3. Finish(r) \/ (lastId' = lastId + 1 /\ GotoWith(r, "add_first_role", l))
    BY <1>10 DEF CreateUser
  <2> HIDE DEF l
  <2> QED  BY <2>1, <2>2, <2>3, <1>1, <1>4 DEF RequestMoves
<1>11. ASSUME NEW r \in Requests, RefreshFind(r) \/ ResetFind(r) \/ ChangeFind(r)
       PROVE  RequestMoves
  <2>1. pc[r] # "done" /\ {"refresh_user", "update_password"} \subseteq Later
    BY <1>11 DEF RefreshFind, ResetFind, ChangeFind, Arrives, Labels
  <2>2. \/ Finish(r)
        \/ \E t \in tokens :
              \/ GotoWith(r, "refresh_user", [NoLocals EXCEPT !.uid = t.uid, !.sid = t.id])
              \/ GotoWith(r, "update_password", [NoLocals EXCEPT !.uid = t.uid])
        \/ /\ user # NoUser
           /\ GotoWith(r, "update_password",
                       [NoLocals EXCEPT !.uid = user.id, !.up = user.provider = "google"])
    BY <1>11 DEF RefreshFind, ResetFind, ChangeFind
  <2>3. \A t \in tokens :
           /\ [NoLocals EXCEPT !.uid = t.uid, !.sid = t.id] \in LocalRows
           /\ [NoLocals EXCEPT !.uid = t.uid, !.sid = t.id].uid \in 0..lastId
           /\ [NoLocals EXCEPT !.uid = t.uid] \in LocalRows
           /\ [NoLocals EXCEPT !.uid = t.uid].uid \in 0..lastId
    <3> SUFFICES ASSUME NEW t \in tokens
                 PROVE  /\ [NoLocals EXCEPT !.uid = t.uid, !.sid = t.id] \in LocalRows
                        /\ [NoLocals EXCEPT !.uid = t.uid, !.sid = t.id].uid \in 0..lastId
                        /\ [NoLocals EXCEPT !.uid = t.uid] \in LocalRows
                        /\ [NoLocals EXCEPT !.uid = t.uid].uid \in 0..lastId
      OBVIOUS
    <3>1. t.id \in Sids /\ t.uid \in Nat /\ t.uid \in 0..lastId
      BY DEF KnownUsers
    <3>2. /\ [NoLocals EXCEPT !.uid = t.uid, !.sid = t.id] \in LocalRows
          /\ [NoLocals EXCEPT !.uid = t.uid, !.sid = t.id].uid = t.uid
          /\ [NoLocals EXCEPT !.uid = t.uid] \in LocalRows
          /\ [NoLocals EXCEPT !.uid = t.uid].uid = t.uid
      BY <3>1, NewLocals, Zenon
    <3> QED  BY <3>1, <3>2, Zenon
  <2>4. user # NoUser =>
           LET l == [NoLocals EXCEPT !.uid = user.id, !.up = user.provider = "google"]
           IN  l \in LocalRows /\ l.uid \in 0..lastId
    <3>1. user # NoUser => user.id \in 0..lastId
      BY DEF KnownUsers
    <3>2. user # NoUser => user.id \in Nat
      BY <3>1
    <3>3. (user.provider = "google") \in BOOLEAN
      OBVIOUS
    <3> QED  BY <3>1, <3>2, <3>3, NewLocals, Zenon
  <2> QED  BY <2>1, <2>2, <2>3, <2>4, <1>2, <1>4
<1>12. ASSUME NEW r \in Requests,
              AssignRole(r) \/ UpdateRoleFind(r) \/ RoleRead(r) \/ RoleApply(r)
       PROVE  RequestMoves
  <2>1. /\ pc[r] # "done"
        /\ {"assign_load", "assign_add", "role_load", "role_read", "role_apply"} \subseteq Later
    BY <1>12 DEF AssignRole, UpdateRoleFind, RoleRead, RoleApply, Arrives, Labels
  <2>2. \/ Finish(r)
        \/ \E m \in {"assign_load", "role_load"}, role \in Roles :
              GotoWith(r, m, [NoLocals EXCEPT !.role = role])
        \/ /\ user # NoUser
           /\ \E m \in {"assign_add", "role_read"} : GotoWith(r, m, [mine[r] EXCEPT !.uid = user.id])
        \/ \E old \in SUBSET Roles, todo \in SUBSET {"drop", "add"} :
              GotoWith(r, "role_apply", [mine[r] EXCEPT !.old = old, !.todo = todo])
        \/ \E todo \in SUBSET {"drop", "add"} :
              GotoWith(r, "role_apply", [mine[r] EXCEPT !.todo = todo])
    <3>1. CASE AssignRole(r)  BY <3>1 DEF AssignRole
    <3>2. CASE UpdateRoleFind(r)  BY <3>2 DEF UpdateRoleFind
    <3>3. CASE RoleRead(r)
      <4> DEFINE roles == IF Loaded(mine[r].uid) THEN user.roles ELSE {}
                 old == roles \ {mine[r].role}
                 todo == {a \in {"drop", "add"} : IF a = "drop" THEN old # {} ELSE mine[r].role \notin roles}
      <4>1. old \in SUBSET Roles /\ todo \in SUBSET {"drop", "add"}
        BY DEF Loaded, Users
      <4>2. Finish(r) \/ GotoWith(r, "role_apply", [mine[r] EXCEPT !.old = old, !.todo = todo])
        BY <3>3 DEF RoleRead
      <4> QED  BY <4>1, <4>2
    <3>4. CASE RoleApply(r)
      <4>1. \A a : mine[r].todo \ {a} \in SUBSET {"drop", "add"}
        BY DEF LocalRows
      <4> QED  BY <3>4, <4>1 DEF RoleApply
    <3> QED  BY <1>12, <3>1, <3>2, <3>3, <3>4
  <2>3. \A role \in Roles : /\ [NoLocals EXCEPT !.role = role] \in LocalRows
                            /\ [NoLocals EXCEPT !.role = role].uid \in 0..lastId
    BY NoLocalsTyped DEF LocalRows
  <2>4. user # NoUser => /\ [mine[r] EXCEPT !.uid = user.id] \in LocalRows
                         /\ [mine[r] EXCEPT !.uid = user.id].uid \in 0..lastId
    BY SMTT(30) DEF LocalRows, KnownUsers
  <2>5. \A old \in SUBSET Roles, todo \in SUBSET {"drop", "add"} :
           /\ [mine[r] EXCEPT !.old = old, !.todo = todo] \in LocalRows
           /\ [mine[r] EXCEPT !.old = old, !.todo = todo].uid \in 0..lastId
           /\ [mine[r] EXCEPT !.todo = todo] \in LocalRows
           /\ [mine[r] EXCEPT !.todo = todo].uid \in 0..lastId
    BY DEF LocalRows, KnownUsers
  <2> QED  BY <2>1, <2>2, <2>3, <2>4, <2>5, <1>2, <1>4
<1>13. CASE UNCHANGED <<pc, mine>>
  BY <1>13 DEF RequestMoves
<1>14. QED
  BY <1>5, <1>6, <1>8, <1>9, <1>10, <1>11, <1>12, <1>13
  DEF Next, Register, Login, UseOtp, Refresh, SetPassword, SetRoles,
      SessionAges, CleanSessions, CodeExpires

NotesMove ==
    /\ UNCHANGED op
    /\ UNCHANGED faults \/ Fault
    /\ late \subseteq late' /\ late' \subseteq Requests
    /\ rushed \subseteq rushed' /\ rushed' \subseteq Requests
    /\ spared \subseteq spared' /\ spared' \subseteq Sids
    /\ edited \subseteq edited' /\ edited' \subseteq 1..lastId
    /\ clashed' \in BOOLEAN /\ (clashed => clashed')

LEMMA NotesMoveNext ==
    ASSUME TypeInv, Next
    PROVE  NotesMove
<1> DEFINE Kept == /\ UNCHANGED op
                   /\ UNCHANGED faults \/ Fault
                   /\ late \subseteq late' /\ late' \subseteq Requests
                   /\ rushed \subseteq rushed' /\ rushed' \subseteq Requests
                   /\ spared \subseteq spared' /\ spared' \subseteq Sids
                   /\ edited \subseteq edited' /\ edited' \subseteq 1..lastId
           Clash == UNCHANGED clashed \/ \E r \in Requests : RoleRead(r) \/ Fail(r)
<1>1. /\ late \subseteq Requests /\ rushed \subseteq Requests /\ spared \subseteq Sids
      /\ Creating \subseteq Requests /\ SidsOf(sessions) \subseteq Sids /\ Requests \subseteq Sids
      /\ LoginsUnderWay \subseteq Requests /\ edited \subseteq 1..lastId
      /\ clashed \in BOOLEAN
  BY DEF TypeInv, BaseTypes, KnownUsers, LoginsUnderWay, Creating, SidsOf, Rows, Sids
<1>2. ASSUME NEW r \in Requests, Register(r) PROVE Kept /\ Clash
  BY <1>1, <1>2 DEF Register, RegisterFind, CreateUser, AddFirstRole, sessionVars, notes
<1>3. ASSUME NEW r \in Requests, Login(r) PROVE Kept /\ Clash
  BY <1>1, <1>3 DEF Login, LoginFind, GoogleFind, LinkGoogle, CountSessions, EvictOne, ReloadUser,
                    CreateSession, DeleteSessions, sessionVars, notes
<1>4. ASSUME NEW r \in Requests, UseOtp(r) PROVE Kept /\ Clash
  BY <1>1, <1>4 DEF UseOtp, OtpStart, OtpRefused, OtpFind, OtpSpend, SendOtp, sessionVars, notes
<1>5. ASSUME NEW r \in Requests, Refresh(r) PROVE Kept /\ Clash
  BY <1>1, <1>5 DEF Refresh, RefreshFind, RefreshUser, RefreshSave, sessionVars, notes
<1>6. ASSUME NEW r \in Requests, Logout(r) \/ LogoutOthers(r) \/ DeleteUser(r) PROVE Kept /\ Clash
  BY <1>1, <1>6 DEF Logout, LogoutOthers, DeleteUser, DeleteSessions, sessionVars, notes
<1>7. ASSUME NEW r \in Requests, SetPassword(r) PROVE Kept /\ Clash
  BY <1>1, <1>7 DEF SetPassword, ResetFind, ChangeFind, UpdatePassword, DropSessions, DeleteSessions,
                    sessionVars, notes
<1>8. ASSUME NEW r \in Requests, SetRoles(r) PROVE Kept /\ Clash
  BY <1>1, <1>8 DEF SetRoles, AssignRole, UpdateRoleFind, RoleRead, RoleApply, sessionVars, notes
<1>9. ASSUME NEW r \in Requests, Fail(r) \/ MailFails(r) PROVE Kept /\ Clash
  BY <1>1, <1>9 DEF Fail, MailFails, sessionVars, notes
<1>10. ASSUME (\E s \in sessions : SessionAges(s)) \/ CleanSessions \/ CodeExpires
       PROVE  Kept /\ Clash
  BY <1>1, <1>10 DEF SessionAges, CleanSessions, CodeExpires, DeleteSessions, sessionVars, notes
<1>11. ASSUME NEW r \in Requests, PatchUser(r) PROVE Kept /\ Clash
  <2>1. user # NoUser => user.id \in 1..lastId
    BY DEF TypeInv, KnownUsers
  <2> QED  BY <1>1, <1>11, <2>1 DEF PatchUser, sessionVars
<1> HIDE DEF Kept, Clash
<1>12. Kept /\ Clash
  BY <1>2, <1>3, <1>4, <1>5, <1>6, <1>7, <1>8, <1>9, <1>10, <1>11 DEF Next
<1>13. clashed' \in BOOLEAN /\ (clashed => clashed')
  <2>1. ASSUME NEW r \in Requests, RoleRead(r) PROVE clashed' \in BOOLEAN /\ (clashed => clashed')
    BY <2>1, Zenon DEF RoleRead
  <2>2. ASSUME NEW r \in Requests, Fail(r) PROVE clashed' \in BOOLEAN /\ (clashed => clashed')
    BY <2>2, Zenon DEF Fail
  <2>3. CASE UNCHANGED clashed
    BY <1>1, <2>3
  <2> QED BY <1>12, <2>1, <2>2, <2>3 DEF Clash
<1> QED  BY <1>12, <1>13 DEF NotesMove, Kept

LEMMA BaseTypesNext ==
    ASSUME TypeInv, Next
    PROVE  BaseTypes' /\ KnownUsers' /\ KnownSessions'
<1> USE DEF TypeInv, BaseTypes
<1>1. RowMoves /\ SessionMoves /\ RequestMoves /\ NotesMove
  BY RowMovesNext, SessionMovesNext, RequestMovesNext, NotesMoveNext
<1>2. op' \in [Requests -> Ops]
  BY <1>1 DEF NotesMove
<1>3. pc' \in [Requests -> Labels] /\ mine' \in [Requests -> LocalRows]
  BY <1>1 DEF RequestMoves, GotoWith
<1>4. /\ user' \in Users \cup {NoUser} /\ lastId' \in Nat /\ lastId <= lastId'
      /\ user' # NoUser => user'.id \in 1..lastId'
  BY <1>1 DEF RowMoves, userVars, KnownUsers
<1>5. ASSUME NEW r \in Requests, Created(r)
      PROVE  SessionOf(r, mine[r]) \in Rows /\ [id |-> r, uid |-> mine[r].uid] \in [id : Sids, uid : Nat]
  <2>1. Cardinality(tokens) + 1 \in Nat
    BY FS_CardinalityType
  <2> QED  BY <2>1 DEF SessionOf, Session, Rows, LocalRows, Sids
<1>6. sessions' \subseteq Rows /\ IsFiniteSet(sessions')
  <2>1. CASE sessions' \subseteq sessions  BY <2>1, FS_Subset
  <2>2. CASE Renewed  BY <2>2 DEF Renewed
  <2>3. CASE \E r \in Requests : Created(r)
    <3>1. PICK r \in Requests : Created(r)  BY <2>3
    <3>2. SessionOf(r, mine[r]) \in Rows  BY <3>1, <1>5
    <3> QED  BY <3>1, <3>2, FS_AddElement DEF Created
  <2> QED  BY <1>1, <2>1, <2>2, <2>3 DEF SessionMoves
<1>7. tokens' \subseteq [id : Sids, uid : Nat] /\ IsFiniteSet(tokens')
  <2>1. CASE UNCHANGED tokens  BY <2>1
  <2>2. CASE \E r \in Requests : Created(r)
    <3>1. PICK r \in Requests : Created(r)  BY <2>2
    <3>2. [id |-> r, uid |-> mine[r].uid] \in [id : Sids, uid : Nat]  BY <3>1, <1>5
    <3> QED  BY <3>1, <3>2, FS_AddElement DEF Created
  <2> QED  BY <1>1, <2>1, <2>2 DEF SessionMoves, Renewed
<1>8. \A t \in tokens' : t.uid \in 1..lastId'
  <2>1. CASE UNCHANGED tokens  BY <2>1, <1>4 DEF KnownUsers
  <2>2. CASE \E r \in Requests : Created(r)
    <3>1. PICK r \in Requests : Created(r)  BY <2>2
    <3>2. mine[r].uid \in 1..lastId'
      BY <3>1, <1>4 DEF Created, Loaded, KnownUsers
    <3> QED  BY <3>1, <3>2, <1>4 DEF Created, KnownUsers
  <2> QED  BY <1>1, <2>1, <2>2 DEF SessionMoves, Renewed
<1>9. \A r \in Requests : mine[r].uid \in 0..lastId'
  BY <1>4 DEF KnownUsers
<1>10. \A r \in Requests : mine'[r].uid \in 0..lastId'
  BY <1>1, <1>9 DEF RequestMoves, GotoWith
<1>11. \A t \in tokens' : t.id \in Requests => pc'[t.id] = "done"
  <2>1. CASE UNCHANGED tokens
    BY <2>1, <1>1 DEF RequestMoves, GotoWith, KnownSessions
  <2>2. CASE \E r \in Requests : Created(r)
    BY <2>2 DEF Created, KnownSessions
  <2> QED  BY <1>1, <2>1, <2>2 DEF SessionMoves, Renewed
<1>12. \A s \in sessions' : [id |-> s.id, uid |-> s.uid] \in tokens'
  <2>1. CASE sessions' \subseteq sessions /\ UNCHANGED tokens  BY <2>1 DEF KnownSessions
  <2>2. CASE Renewed
    BY <2>2 DEF Renewed, KnownSessions
  <2>3. CASE \E r \in Requests : Created(r)
    <3>1. PICK r \in Requests : Created(r)  BY <2>3
    <3>2. ASSUME NEW s \in sessions'
          PROVE  s \in sessions \/ (s.id = r /\ s.uid = mine[r].uid)
      BY <3>1 DEF Created, SessionOf, Session
    <3> QED  BY <3>1, <3>2 DEF Created, KnownSessions
  <2> QED  BY <1>1, <2>1, <2>2, <2>3 DEF SessionMoves
<1>13. \A s, t \in sessions' : s.id = t.id => s = t
  <2>1. CASE sessions' \subseteq sessions  BY <2>1 DEF KnownSessions
  <2>2. CASE Renewed  BY <2>2 DEF Renewed
  <2>3. CASE \E r \in Requests : Created(r)
    <3>1. PICK r \in Requests : Created(r)  BY <2>3
    <3>2. \A s \in sessions : s.id # r
      BY <3>1 DEF Created, KnownSessions
    <3> QED  BY <3>1, <3>2 DEF Created, SessionOf, Session, KnownSessions
  <2> QED  BY <1>1, <2>1, <2>2, <2>3 DEF SessionMoves
<1>14. \A s \in sessions' : Loaded(s.uid)'
  <2>1. \A s \in sessions' : user # NoUser /\ user.id = s.uid
    <3>1. CASE sessions' \subseteq sessions  BY <3>1 DEF KnownSessions, Loaded
    <3>2. CASE Renewed  BY <3>2 DEF Renewed, KnownSessions, Loaded
    <3>3. CASE \E r \in Requests : Created(r)
      BY <3>3 DEF Created, SessionOf, Session, KnownSessions, Loaded
    <3> QED  BY <1>1, <3>1, <3>2, <3>3 DEF SessionMoves
  <2>2. CASE sessions' = {}  BY <2>2
  <2>3. CASE sessions' # {}
    <3>1. user' # NoUser /\ user'.id = user.id
      BY <1>1, <2>1, <2>3, AccountsAssumption DEF RowMoves, userVars
    <3> QED  BY <2>1, <3>1 DEF Loaded
  <2> QED  BY <2>2, <2>3
<1>15. faults' \in 0..MaxFaults
  BY <1>1, AccountsAssumption DEF NotesMove, Fault
<1>18. BaseTypes'
  BY <1>15, <1>1, <1>2, <1>3, <1>4, <1>6, <1>7 DEF NotesMove
<1>16. KnownUsers'
  <2>1. edited' \subseteq 1..lastId'
    BY <1>1, <1>4 DEF NotesMove
  <2> QED  BY <1>4, <1>8, <1>10, <2>1 DEF KnownUsers
<1>17. KnownSessions'
  BY <1>11, <1>12, <1>13, <1>14 DEF KnownSessions
<1> QED  BY <1>16, <1>17, <1>18

-------------------------------------------------------------------------------
(* What a step may do to the one-time passwords *)

(* Redis is left alone by a request that is not talking to it, or that has  *)
(* only compared the code.                                                  *)
QuietFor(r) ==
    \/ pc'[r] = pc[r]
    \/ otp[r].at = "idle" /\ pc[r] # "done" /\ pc'[r] \notin {"new", "otp", "otp_spend"}
    \/ otp[r].at = "match" /\ op[r] = "otp_login" /\ pc'[r] = "otp_spend"
Quiet == UNCHANGED otpVars /\ \A r \in Requests : QuietFor(r)

MailIgnored(r) ==
    /\ EndOtp(r, "mail")
    /\ UNCHANGED <<codes, pointer, mailed, guesses, spent, crowd, tangled, revived>>

Sends(r) ==
    /\ op[r] = "send_otp"
    /\ \/ pc[r] = "new" /\ SendStart(r)
       \/ /\ pc[r] = "otp"
          /\ \/ SendGet(r) \/ SendClear(r) \/ SendPut(r) \/ SendPoint(r) \/ SendMail(r)
             \/ SendUndo(r) \/ SendMailFails(r) \/ MailIgnored(r)
             \/ \E known \in BOOLEAN : SendUser(r, known)

Verifies(r) ==
    /\ op[r] \in {"otp_login", "verify_otp"}
    /\ \/ pc[r] = "new" /\ \E i \in Ids, right \in BOOLEAN : Exists(i) /\ VerifyGet(r, i, right)
       \/ /\ pc[r] \in {"otp", "otp_spend"}
          /\ VerifyCount(r) \/ VerifyDrop(r) \/ VerifySpend(r) \/ VerifyLeave(r)

TalksToRedis(r) ==
    /\ pc' = [pc EXCEPT ![r] = pc'[r]]
    /\ IF otp'[r].at = "idle" THEN pc'[r] = "done" \/ (pc'[r] = "count" /\ VerifySpend(r))
       ELSE pc'[r] = "otp"
    /\ Sends(r) \/ Verifies(r) \/ (pc[r] \in {"otp", "otp_spend"} /\ OtpFail(r))

CodeMoves ==
    \/ Quiet
    \/ UNCHANGED pc /\ (ExpirePointer \/ \E i \in Ids : Expire(i))
    \/ \E r \in Requests : TalksToRedis(r)

LEMMA CodeMovesNext ==
    ASSUME TypeInv, Next
    PROVE  CodeMoves
<1> USE DEF TypeInv, BaseTypes
<1>1. ASSUME NEW r \in Requests, UNCHANGED otpVars, pc' = [pc EXCEPT ![r] = pc'[r]],
             pc[r] \notin {"otp", "otp_spend", "done"}, pc'[r] \notin {"new", "otp", "otp_spend"}
      PROVE  CodeMoves
  BY <1>1 DEF CodeMoves, Quiet, QuietFor, OtpStage
<1>2. ASSUME NEW r \in Requests,
             RegisterFind(r) \/ CreateUser(r) \/ AddFirstRole(r) \/ LoginFind(r) \/ GoogleFind(r)
             \/ LinkGoogle(r) \/ CountSessions(r) \/ EvictOne(r) \/ ReloadUser(r) \/ CreateSession(r)
             \/ RefreshFind(r) \/ RefreshUser(r) \/ RefreshSave(r) \/ Logout(r) \/ LogoutOthers(r)
             \/ ResetFind(r) \/ ChangeFind(r) \/ UpdatePassword(r) \/ DropSessions(r)
             \/ PatchUser(r) \/ DeleteUser(r) \/ AssignRole(r)
             \/ UpdateRoleFind(r) \/ RoleRead(r) \/ RoleApply(r)
      PROVE  CodeMoves
  <2>1. UNCHANGED otpVars
    BY <1>2 DEF RegisterFind, CreateUser, AddFirstRole, LoginFind, GoogleFind, LinkGoogle,
      CountSessions, EvictOne, ReloadUser, CreateSession, RefreshFind, RefreshUser, RefreshSave,
      Logout, LogoutOthers, ResetFind, ChangeFind, UpdatePassword, DropSessions, PatchUser, DeleteUser,
      AssignRole, UpdateRoleFind, RoleRead, RoleApply
  <2>2. pc[r] \notin {"otp", "otp_spend", "done"}
    BY <1>2 DEF RegisterFind, CreateUser, AddFirstRole, LoginFind, GoogleFind, LinkGoogle,
      CountSessions, EvictOne, ReloadUser, CreateSession, RefreshFind, RefreshUser, RefreshSave,
      Logout, LogoutOthers, ResetFind, ChangeFind, UpdatePassword, DropSessions, PatchUser, DeleteUser,
      AssignRole, UpdateRoleFind, RoleRead, RoleApply, Arrives
  <2>3. \E m \in Labels \ {"new", "otp", "otp_spend"} : pc' = [pc EXCEPT ![r] = m]
    BY <1>2 DEF RegisterFind, CreateUser, AddFirstRole, LoginFind, GoogleFind, LinkGoogle,
      CountSessions, EvictOne, ReloadUser, CreateSession, RefreshFind, RefreshUser, RefreshSave,
      Logout, LogoutOthers, ResetFind, ChangeFind, UpdatePassword, DropSessions, PatchUser, DeleteUser,
      AssignRole, UpdateRoleFind, RoleRead, RoleApply, Goto, GotoWith, Finish, CreateOrReload, Labels
  <2> QED  BY <2>1, <2>2, <2>3, <1>1
<1>3. ASSUME NEW r \in Requests, OtpStart(r)
      PROVE  CodeMoves
  <2>1. PICK i \in Ids, right \in BOOLEAN : VerifyGet(r, i, right)
    BY <1>3 DEF OtpStart
  <2>2. pc[r] = "new" /\ op[r] \in {"otp_login", "verify_otp"} /\ pc' = [pc EXCEPT ![r] = pc'[r]]
    BY <1>3 DEF OtpStart, Arrives, Finish, Goto, GotoWith
  <2>3. CASE Exists(i)
    <3>1. otp'[r].at # "idle" /\ otp' # otp
      BY <2>1, <2>3 DEF VerifyGet, OtpTypes
    <3>2. pc'[r] = "otp"
      BY <1>3, <3>1 DEF OtpStart, Goto
    <3> QED  BY <2>1, <2>2, <2>3, <3>1, <3>2 DEF CodeMoves, TalksToRedis, Verifies
  <2>4. CASE ~Exists(i)
    <3>1. UNCHANGED otpVars
      BY <2>1, <2>4 DEF VerifyGet, otpVars
    <3>2. pc'[r] = "done"
      BY <1>3, <3>1 DEF OtpStart, Finish, GotoWith, otpVars
    <3> QED  BY <2>2, <3>1, <3>2, <1>1
  <2> QED  BY <2>3, <2>4
<1>4. ASSUME NEW r \in Requests, OtpRefused(r)
      PROVE  CodeMoves
  <2>1. /\ pc[r] = "otp" /\ pc' = [pc EXCEPT ![r] = "done"]
        /\ VerifyCount(r) \/ VerifyDrop(r)
    BY <1>4 DEF OtpRefused, Finish, GotoWith
  <2>2. otp'[r].at = "idle" /\ op[r] \in {"otp_login", "verify_otp"}
    BY <2>1 DEF VerifyCount, VerifyDrop, EndOtp, Idle, OtpTypes, OtpStage, VerifySteps
  <2> QED  BY <2>1, <2>2 DEF CodeMoves, TalksToRedis, Verifies
<1>5. ASSUME NEW r \in Requests, OtpFind(r)
      PROVE  CodeMoves
  <2>1. CASE VerifyLeave(r) /\ Finish(r)
    <3>1. otp'[r].at = "idle"
      BY <2>1 DEF VerifyLeave, EndOtp, Idle, OtpTypes
    <3> QED  BY <1>5, <2>1, <3>1 DEF OtpFind, CodeMoves, TalksToRedis, Verifies, Finish, GotoWith
  <2>2. CASE UNCHANGED otpVars /\ GotoWith(r, "otp_spend", Locals(user))
    BY <1>5, <2>2 DEF OtpFind, CodeMoves, Quiet, QuietFor, GotoWith
  <2> QED  BY <1>5, <2>1, <2>2 DEF OtpFind
<1>6. ASSUME NEW r \in Requests, OtpSpend(r)
      PROVE  CodeMoves
  <2>1. VerifySpend(r) /\ otp'[r].at = "idle" /\ op[r] \in {"otp_login", "verify_otp"}
    BY <1>6 DEF OtpSpend, VerifySpend, EndOtp, Idle, OtpTypes, OtpStage, VerifySteps
  <2>2. \/ pc[r] = "otp_spend" /\ pc' = [pc EXCEPT ![r] = "count"]
        \/ pc[r] = "otp" /\ pc' = [pc EXCEPT ![r] = "done"]
    BY <1>6 DEF OtpSpend, Goto, Finish, GotoWith
  <2> QED  BY <2>1, <2>2 DEF CodeMoves, TalksToRedis, Verifies
<1>7. ASSUME NEW r \in Requests, SendOtp(r)
      PROVE  CodeMoves
  <2>1. op[r] = "send_otp" /\ Sends(r)
    BY <1>7 DEF SendOtp, Sends, Arrives
  <2>2. pc' = [pc EXCEPT ![r] = IF otp'[r].at = "idle" THEN "done" ELSE "otp"]
    BY <1>7 DEF SendOtp, Goto, Finish, GotoWith
  <2> QED  BY <2>1, <2>2 DEF CodeMoves, TalksToRedis
<1>8. ASSUME NEW r \in Requests, Fail(r)
      PROVE  CodeMoves
  <2>1. pc' = [pc EXCEPT ![r] = "done"] /\ pc[r] \notin {"new", "done"}
    BY <1>8 DEF Fail, Finish, GotoWith
  <2>2. CASE otp[r].at # "idle"
    <3>1. OtpFail(r) /\ otp'[r].at = "idle" /\ pc[r] \in {"otp", "otp_spend"}
      BY <1>8, <2>2 DEF Fail, OtpFail, Idle, OtpTypes, OtpStage
    <3> QED  BY <2>1, <3>1 DEF CodeMoves, TalksToRedis
  <2>3. CASE otp[r].at = "idle"
    BY <1>8, <2>1, <2>3 DEF Fail, CodeMoves, Quiet, QuietFor
  <2> QED  BY <2>2, <2>3
<1>9. ASSUME NEW r \in Requests, MailFails(r)
      PROVE  CodeMoves
  <2>1. otp[r].at = "mail"
    BY <1>9 DEF MailFails, SendMailFails, GoOtp, EndOtp
  <2>2. op[r] = "send_otp" /\ pc[r] = "otp"
    BY <2>1 DEF OtpStage, SendSteps
  <2>3. CASE SendMailFails(r) /\ Goto(r, "otp")
    <3>1. otp'[r].at = "undo"
      BY <2>3 DEF SendMailFails, GoOtp, OtpTypes
    <3> QED  BY <2>2, <2>3, <3>1 DEF CodeMoves, TalksToRedis, Sends, Goto
  <2>4. CASE MailIgnored(r) /\ Finish(r)
    <3>1. otp'[r].at = "idle"
      BY <2>4 DEF MailIgnored, EndOtp, Idle, OtpTypes
    <3> QED  BY <2>2, <2>4, <3>1 DEF CodeMoves, TalksToRedis, Sends, Finish, GotoWith
  <2> QED  BY <1>9, <2>3, <2>4 DEF MailFails, MailIgnored
<1>10. CASE UNCHANGED <<otpVars, pc>>
  BY <1>10 DEF CodeMoves, Quiet, QuietFor
<1>11. CASE CodeExpires
  BY <1>11 DEF CodeExpires, CodeMoves
<1>12. QED
  BY <1>2, <1>3, <1>4, <1>5, <1>6, <1>7, <1>8, <1>9, <1>10, <1>11
  DEF Next, Register, Login, UseOtp, Refresh, SetPassword, SetRoles, SessionAges, CleanSessions

OtpLocals == [at : OtpSteps, id : Ids \cup {Nobody}, seen : 0..MaxAttempts]

LEMMA OtpGoes ==
    ASSUME NEW r \in Requests, otp \in [Requests -> OtpLocals], NEW l, NEW m \in OtpSteps,
           GoOtp(r, l, m)
    PROVE  /\ otp' \in [Requests -> OtpLocals]
           /\ otp'[r].at = m /\ otp'[r].id = otp[r].id /\ otp'[r].seen = otp[r].seen
           /\ \A q \in Requests \ {r} : otp'[q] = otp[q]
<1>1. [otp[r] EXCEPT !.at = m] \in OtpLocals
  BY DEF OtpLocals
<1>2. otp' = [otp EXCEPT ![r] = [otp[r] EXCEPT !.at = m]]
  BY DEF GoOtp
<1> QED  BY <1>1, <1>2 DEF OtpLocals

LEMMA OtpEnds ==
    ASSUME NEW r \in Requests, otp \in [Requests -> OtpLocals], NEW l,
           EndOtp(r, l) \/ OtpFail(r)
    PROVE  /\ otp' \in [Requests -> OtpLocals]
           /\ otp'[r] = Idle /\ otp'[r].at = "idle"
           /\ \A q \in Requests \ {r} : otp'[q] = otp[q]
<1>1. Idle \in OtpLocals
  BY OtpAssumption DEF Idle, OtpLocals, OtpSteps
<1>2. otp' = [otp EXCEPT ![r] = Idle]
  BY DEF EndOtp, OtpFail
<1> QED  BY <1>1, <1>2 DEF Idle

LEMMA CodesTyped ==
    ASSUME codes \in [Ids -> Codes]
    PROVE  /\ \A i \in Ids, c \in Codes : [codes EXCEPT ![i] = c] \in [Ids -> Codes]
           /\ NoCode \in Codes /\ [tries |-> 0, ttl |-> TRUE] \in Codes
           /\ \A i \in Ids : Exists(i) => codes[i] \in [tries : 0..MaxAttempts, ttl : BOOLEAN]
BY OtpAssumption DEF Codes, Exists

(* The step of a request that is sending a code, and its types. *)
LEMMA SendsTypes ==
    ASSUME TypeInv, NEW r \in Requests, Sends(r)
    PROVE  /\ OtpTypes'
           /\ \A q \in Requests \ {r} : otp'[q] = otp[q]
           /\ otp'[r].at \in SendSteps \cup {"idle"}
           /\ otp'[r].at = "clear" => otp'[r].id \in Ids
<1> USE DEF TypeInv, OtpTypes
<1>1. otp \in [Requests -> OtpLocals] /\ r \in Ids /\ SendSteps \subseteq OtpSteps
  BY DEF OtpLocals, Ids, OtpSteps
<1>2. otp[r].at = "clear" => otp[r].id \in Ids
  BY DEF OtpStage
<1>3. CASE SendStart(r)
  <2>1. "get" \in SendSteps  BY DEF SendSteps
  <2>2. GoOtp(r, "idle", "get")  BY <1>3 DEF SendStart
  <2>3. tangled' \subseteq Requests
    BY <1>3 DEF SendStart, Sending
  <2>4. UNCHANGED <<codes, pointer, mailed, guesses, spent, crowd, revived>>
    BY <1>3 DEF SendStart
  <2>5. /\ otp' \in [Requests -> OtpLocals]
        /\ otp'[r].at = "get"
        /\ \A q \in Requests \ {r} : otp'[q] = otp[q]
    BY <1>1, <2>1, <2>2, OtpGoes
  <2> QED  BY <2>1, <2>3, <2>4, <2>5 DEF OtpLocals
<1>4. CASE SendGet(r)
  <2> DEFINE m == IF pointer = Nobody THEN "user" ELSE "clear"
  <2>1. m \in SendSteps  BY DEF SendSteps
  <2>2. [otp[r] EXCEPT !.at = m, !.id = pointer] \in OtpLocals
    BY <1>1, <2>1 DEF OtpLocals
  <2>3. otp' = [otp EXCEPT ![r] = [otp[r] EXCEPT !.at = m, !.id = pointer]]
    BY <1>4 DEF SendGet
  <2>4. m = "clear" => pointer \in Ids
    OBVIOUS
  <2>5. UNCHANGED <<codes, pointer, mailed, guesses, spent, crowd, tangled, revived>>
    BY <1>4 DEF SendGet
  <2> HIDE DEF m
  <2>6. [otp[r] EXCEPT !.at = m, !.id = pointer].at = m
    BY <1>1 DEF OtpLocals
  <2>7. [otp[r] EXCEPT !.at = m, !.id = pointer].id = pointer
    BY <1>1 DEF OtpLocals
  <2>8. /\ otp' \in [Requests -> OtpLocals]
        /\ otp'[r].at = m /\ otp'[r].id = pointer
        /\ \A q \in Requests \ {r} : otp'[q] = otp[q]
    BY <1>1, <2>2, <2>3, <2>6, <2>7
  <2> QED  BY <2>1, <2>4, <2>5, <2>8 DEF OtpLocals
<1>5. CASE SendClear(r)
  <2>1. "user" \in SendSteps  BY DEF SendSteps
  <2>2. GoOtp(r, "clear", "user") /\ otp[r].id \in Ids /\ DeleteKeys(otp[r].id)
    BY <1>2, <1>5 DEF SendClear, GoOtp
  <2>3. codes' \in [Ids -> Codes] /\ pointer' = Nobody
    BY <2>2, CodesTyped DEF DeleteKeys
  <2> QED  BY <1>1, <1>5, <2>1, <2>2, <2>3, OtpGoes DEF SendClear, OtpLocals
<1>6. CASE SendUndo(r)
  <2>1. EndOtp(r, "undo") /\ DeleteKeys(r)  BY <1>6 DEF SendUndo
  <2>2. codes' \in [Ids -> Codes] /\ pointer' = Nobody
    BY <1>1, <2>1, CodesTyped DEF DeleteKeys
  <2> QED  BY <1>1, <1>6, <2>1, <2>2, OtpEnds DEF SendUndo, OtpLocals
<1>7. CASE SendPut(r)
  <2>1. "point" \in SendSteps  BY DEF SendSteps
  <2>2. GoOtp(r, "put", "point")  BY <1>7 DEF SendPut
  <2>3. codes' \in [Ids -> Codes]
    BY <1>1, <1>7, CodesTyped DEF SendPut
  <2> QED  BY <1>1, <1>7, <2>1, <2>2, <2>3, OtpGoes DEF SendPut, OtpLocals
<1>8. CASE SendPoint(r) \/ SendMailFails(r)
  <2>1. {"mail", "undo"} \subseteq SendSteps  BY DEF SendSteps
  <2>2. GoOtp(r, "point", "mail") \/ GoOtp(r, "mail", "undo")
    BY <1>8 DEF SendPoint, SendMailFails
  <2>3. /\ otp' \in [Requests -> OtpLocals]
        /\ otp'[r].at \in {"mail", "undo"}
        /\ \A q \in Requests \ {r} : otp'[q] = otp[q]
    BY <1>1, <2>1, <2>2, OtpGoes
  <2> QED  BY <1>1, <1>8, <2>1, <2>3 DEF SendPoint, SendMailFails, OtpLocals
<1>9. CASE SendMail(r) \/ MailIgnored(r)
  <2>1. EndOtp(r, "mail")
    BY <1>9 DEF SendMail, MailIgnored
  <2> QED  BY <1>1, <1>9, <2>1, OtpEnds DEF SendMail, MailIgnored, OtpLocals
<1>10. CASE \E known \in BOOLEAN : SendUser(r, known)
  <2>1. GoOtp(r, "user", "put") \/ EndOtp(r, "user")
    BY <1>10 DEF SendUser
  <2>2. "put" \in SendSteps  BY DEF SendSteps
  <2>3. /\ otp' \in [Requests -> OtpLocals]
        /\ otp'[r].at \in {"put", "idle"}
        /\ \A q \in Requests \ {r} : otp'[q] = otp[q]
    BY <1>1, <2>1, <2>2, OtpGoes, OtpEnds
  <2> QED  BY <1>1, <1>10, <2>2, <2>3 DEF SendUser, OtpLocals
<1> QED  BY <1>3, <1>4, <1>5, <1>6, <1>7, <1>8, <1>9, <1>10 DEF Sends

(* The same for a request that is verifying one. *)
LEMMA VerifiesTypes ==
    ASSUME TypeInv, NEW r \in Requests, Verifies(r) \/ OtpFail(r), pc[r] # "new" \/ Verifies(r)
    PROVE  /\ OtpTypes'
           /\ \A q \in Requests \ {r} : otp'[q] = otp[q]
           /\ otp'[r].at \in VerifySteps \cup {"idle"}
           /\ otp'[r].at # "idle" => otp'[r].id \in Ids
           /\ otp'[r].at = "count" => otp'[r].seen < MaxAttempts
<1> USE DEF TypeInv, OtpTypes
<1>1. otp \in [Requests -> OtpLocals]
  BY DEF OtpLocals
<1>2. ASSUME NEW i \in Ids, NEW right \in BOOLEAN, Exists(i), VerifyGet(r, i, right)
      PROVE  /\ OtpTypes'
             /\ \A q \in Requests \ {r} : otp'[q] = otp[q]
             /\ otp'[r].at \in VerifySteps
             /\ otp'[r].id \in Ids
             /\ otp'[r].at = "count" => otp'[r].seen < MaxAttempts
  <2> DEFINE limit == codes[i].tries >= MaxAttempts
             next == IF limit THEN "drop" ELSE IF right THEN "match" ELSE "count"
             n == [at |-> next, id |-> i, seen |-> codes[i].tries]
  <2>1. codes[i].tries \in 0..MaxAttempts
    BY <1>2, CodesTyped
  <2>2. next \in VerifySteps /\ VerifySteps \subseteq OtpSteps
    BY DEF VerifySteps, OtpSteps
  <2>3. next = "count" => codes[i].tries < MaxAttempts
    BY <2>1, OtpAssumption
  <2>4. otp' = [otp EXCEPT ![r] = n]
    BY <1>2 DEF VerifyGet
  <2>5. guesses' \in [Ids -> SUBSET Requests] /\ crowd' \in [Ids -> SUBSET Requests]
    BY <1>2 DEF VerifyGet, Verifying
  <2>6. tangled' \subseteq Requests
    BY <1>2 DEF VerifyGet, Sending
  <2> HIDE DEF next
  <2> QED  BY <1>1, <1>2, <2>1, <2>2, <2>3, <2>4, <2>5, <2>6 DEF VerifyGet, OtpLocals
<1>3. CASE VerifyCount(r)
  <2> DEFINE i == otp[r].id
             c == [tries |-> otp[r].seen + 1, ttl |-> codes[i].ttl]
  <2>1. EndOtp(r, "count") /\ codes' = [codes EXCEPT ![i] = c]
    BY <1>3 DEF VerifyCount
  <2>2. i \in Ids /\ otp[r].seen < MaxAttempts /\ otp[r].seen \in 0..MaxAttempts
    BY <1>1, <2>1 DEF EndOtp, OtpStage, VerifySteps, OtpLocals
  <2>3. codes[i].ttl \in BOOLEAN
    <3>1. codes[i] \in Codes  BY <2>2
    <3>2. CASE codes[i] = NoCode
      <4>1. NoCode.ttl = FALSE  BY DEF NoCode
      <4> QED  BY <3>2, <4>1
    <3>3. CASE codes[i] \in [tries : 0..MaxAttempts, ttl : BOOLEAN]
      BY <3>3, Zenon
    <3> QED  BY <3>1, <3>2, <3>3 DEF Codes
  <2>4. c \in Codes
    BY <2>2, <2>3, OtpAssumption DEF Codes
  <2>5. revived' \subseteq Requests
    BY <1>3 DEF VerifyCount
  <2>6. UNCHANGED <<pointer, mailed, guesses, spent, crowd, tangled>>
    BY <1>3 DEF VerifyCount
  <2> HIDE DEF c, i
  <2>7. codes' \in [Ids -> Codes]
    BY <2>1, <2>2, <2>4, CodesTyped
  <2> QED  BY <1>1, <2>1, <2>5, <2>6, <2>7, OtpEnds DEF OtpLocals
<1>4. CASE VerifyDrop(r) \/ VerifySpend(r)
  <2>1. EndOtp(r, "drop") \/ EndOtp(r, "match")
    BY <1>4 DEF VerifyDrop, VerifySpend
  <2>2. otp[r].id \in Ids /\ DeleteKeys(otp[r].id)
    BY <1>4, <2>1 DEF VerifyDrop, VerifySpend, EndOtp, OtpStage, VerifySteps
  <2>3. codes' \in [Ids -> Codes] /\ pointer' = Nobody
    BY <2>2, CodesTyped DEF DeleteKeys
  <2>4. spent' \in [Ids -> SUBSET Requests]
    BY <1>4 DEF VerifyDrop, VerifySpend
  <2> QED  BY <1>1, <1>4, <2>1, <2>3, <2>4, OtpEnds DEF VerifyDrop, VerifySpend, OtpLocals
<1>5. CASE VerifyLeave(r)
  BY <1>1, <1>5, OtpEnds DEF VerifyLeave, OtpLocals
<1>6. CASE OtpFail(r)
  <2>1. tangled' \subseteq Requests /\ crowd' \in [Ids -> SUBSET Requests]
    BY <1>6 DEF OtpFail
  <2> QED  BY <1>1, <1>6, <2>1, OtpEnds DEF OtpFail, OtpLocals
<1> QED  BY <1>2, <1>3, <1>4, <1>5, <1>6 DEF Verifies

LEMMA OtpTypesNext ==
    ASSUME TypeInv, Next
    PROVE  OtpTypes' /\ \A r \in Requests : OtpStage(r)'
<1> USE DEF TypeInv, BaseTypes
<1>1. CodeMoves /\ UNCHANGED op
  BY CodeMovesNext, NotesMoveNext DEF NotesMove
<1>2. CASE Quiet
  <2>1. OtpTypes'
    BY <1>2 DEF Quiet, otpVars, OtpTypes
  <2>2. ASSUME NEW r \in Requests
        PROVE  OtpStage(r)'
    BY <1>1, <1>2 DEF Quiet, QuietFor, otpVars, OtpStage, SendSteps, VerifySteps
  <2> QED  BY <2>1, <2>2
<1>3. CASE UNCHANGED pc /\ (ExpirePointer \/ \E i \in Ids : Expire(i))
  <2>1. OtpTypes'
    BY <1>3 DEF ExpirePointer, Expire, OtpTypes, Codes
  <2>2. UNCHANGED otp
    BY <1>3 DEF ExpirePointer, Expire
  <2> QED  BY <1>1, <1>3, <2>1, <2>2 DEF OtpStage
<1>4. ASSUME NEW r \in Requests, TalksToRedis(r)
      PROVE  OtpTypes' /\ \A q \in Requests : OtpStage(q)'
  <2>1. /\ pc' = [pc EXCEPT ![r] = pc'[r]]
        /\ IF otp'[r].at = "idle" THEN pc'[r] \in {"done", "count"} ELSE pc'[r] = "otp"
    BY <1>4 DEF TalksToRedis
  <2>2. OtpTypes' /\ \A q \in Requests \ {r} : otp'[q] = otp[q]
    BY <1>4, SendsTypes, VerifiesTypes DEF TalksToRedis
  <2>3. \A q \in Requests \ {r} : OtpStage(q)'
    BY <1>1, <2>1, <2>2 DEF OtpStage
  <2>4. OtpStage(r)'
    <3>1. CASE Sends(r)
      BY <1>1, <2>1, <3>1, SendsTypes DEF Sends, OtpStage, SendSteps, VerifySteps
    <3>2. CASE Verifies(r)
      BY <1>1, <2>1, <3>2, VerifiesTypes DEF Verifies, OtpStage, SendSteps, VerifySteps
    <3>3. CASE pc[r] \in {"otp", "otp_spend"} /\ OtpFail(r)
      <4>1. otp'[r].at = "idle"
        BY <3>3, OtpEnds DEF OtpTypes, OtpLocals
      <4> QED  BY <1>1, <2>1, <4>1 DEF OtpStage, SendSteps, VerifySteps
    <3> QED  BY <1>4, <3>1, <3>2, <3>3 DEF TalksToRedis
  <2> QED  BY <2>2, <2>3, <2>4
<1> QED  BY <1>1, <1>2, <1>3, <1>4 DEF CodeMoves

-------------------------------------------------------------------------------
(* Types *)

LEMMA DevicesAtStart ==
    /\ DeviceIds \subseteq Sids
    /\ DOMAIN Devices = 1..Len(Devices) /\ Len(Devices) \in Nat /\ Len(Devices) <= Limit
    /\ \A i \in DOMAIN Devices : Devices[i] \in DeviceIds
    /\ \A i, j \in DOMAIN Devices : Devices[i] = Devices[j] => i = j
    /\ \A d \in DeviceIds : \E i \in DOMAIN Devices : d = Devices[i]
<1>1. DOMAIN Devices = 1..Len(Devices) /\ Len(Devices) \in Nat
  BY AccountsAssumption
<1>2. \A i, j \in DOMAIN Devices : Devices[i] = Devices[j] => i = j
  BY AccountsAssumption DEF IsInjective
<1> QED  BY <1>1, <1>2, AccountsAssumption DEF Sids, DeviceIds, ToSet

LEMMA SessionsAtStart ==
    LET D == {Session(Devices[i], 1, 1, i) : i \in DOMAIN Devices}
        T == {[id |-> d, uid |-> 1] : d \in DeviceIds}
    IN  /\ D \subseteq Rows /\ IsFiniteSet(D) /\ Cardinality(D) <= Limit
        /\ T \subseteq [id : Sids, uid : Nat] /\ IsFiniteSet(T)
        /\ \A s \in D : s.uid = 1 /\ s.ver = 1 /\ [id |-> s.id, uid |-> s.uid] \in T
        /\ \A s, t \in D : s.id = t.id => s = t
<1> DEFINE D == {Session(Devices[i], 1, 1, i) : i \in DOMAIN Devices}
           T == {[id |-> d, uid |-> 1] : d \in DeviceIds}
           f == [i \in 1..Len(Devices) |-> Session(Devices[i], 1, 1, i)]
           g == [i \in 1..Len(Devices) |-> [id |-> Devices[i], uid |-> 1]]
<1>1. D = {f[i] : i \in 1..Len(Devices)} /\ T = {g[i] : i \in 1..Len(Devices)}
  BY DevicesAtStart
<1>2. IsFiniteSet(1..Len(Devices)) /\ Cardinality(1..Len(Devices)) = Len(Devices)
  BY DevicesAtStart, FS_Interval
<1>3. /\ IsFiniteSet({f[i] : i \in 1..Len(Devices)})
      /\ Cardinality({f[i] : i \in 1..Len(Devices)}) <= Len(Devices)
      /\ IsFiniteSet({g[i] : i \in 1..Len(Devices)})
  <2> HIDE DEF f, g
  <2> QED  BY <1>2, ImageOf
<1>4. IsFiniteSet(D) /\ Cardinality(D) <= Len(Devices) /\ IsFiniteSet(T)
  <2> HIDE DEF D, T, f, g
  <2> QED  BY <1>1, <1>3
<1>5. Cardinality(D) <= Limit
  <2>1. Cardinality(D) \in Nat /\ Limit \in Nat  BY <1>4, FS_CardinalityType, AccountsAssumption
  <2> HIDE DEF D
  <2> QED  BY <1>4, <2>1, DevicesAtStart
<1>6. D \subseteq Rows
  BY DevicesAtStart DEF Session, Rows
<1>7. T \subseteq [id : Sids, uid : Nat]
  BY DevicesAtStart
<1>8. \A s \in D : s.uid = 1 /\ s.ver = 1 /\ [id |-> s.id, uid |-> s.uid] \in T
  BY DevicesAtStart DEF Session
<1>9. \A s, t \in D : s.id = t.id => s = t
  BY DevicesAtStart DEF Session
<1> QED  BY <1>4, <1>5, <1>6, <1>7, <1>8, <1>9

LEMMA TypeInit == Init => TypeInv
<1> SUFFICES ASSUME Init PROVE TypeInv
  OBVIOUS
<1>1. OtpTypes
  <2>1. Idle \in OtpLocals /\ [tries |-> 0, ttl |-> TRUE] \in Codes /\ NoCode \in Codes /\ Prior \in Ids
    BY OtpAssumption DEF Idle, OtpLocals, OtpSteps, Codes, Ids
  <2> QED  BY <2>1 DEF Init, OtpInit, OtpTypes, OtpLocals
<1>2. \A r \in Requests : pc[r] \in {"new", "done"} /\ otp[r].at = "idle"
  BY DEF Init, OtpInit, Idle
<1>3. \A r \in Requests : OtpStage(r)
  BY <1>2 DEF OtpStage, SendSteps, VerifySteps
<1>4. /\ op \in [Requests -> Ops] /\ pc \in [Requests -> Labels] /\ mine \in [Requests -> LocalRows]
      /\ user \in Users \cup {NoUser} /\ lastId = 1
      /\ user # NoUser => user.id = 1
  BY NoLocalsTyped, AccountsAssumption DEF Init, Labels
<1>5. faults \in 0..MaxFaults /\ late = {} /\ rushed = {} /\ spared = {} /\ edited = {} /\ clashed = FALSE
  BY AccountsAssumption DEF Init
<1>6. /\ sessions \subseteq Rows /\ IsFiniteSet(sessions)
      /\ tokens \subseteq [id : Sids, uid : Nat] /\ IsFiniteSet(tokens)
      /\ \A s \in sessions : s.uid = 1 /\ [id |-> s.id, uid |-> s.uid] \in tokens
      /\ \A s, t \in sessions : s.id = t.id => s = t
  BY SessionsAtStart, FS_EmptySet DEF Init
<1>7. BaseTypes
  BY <1>4, <1>5, <1>6 DEF BaseTypes
<1>8. KnownUsers
  <2>1. (\A t \in tokens : t.uid = 1) /\ \A r \in Requests : mine[r].uid = 0
    BY NoLocalsTyped DEF Init
  <2> QED  BY <1>4, <1>5, <2>1 DEF KnownUsers
<1>9. KnownSessions
  <2>1. \A t \in tokens : t.id \notin Requests
    BY AccountsAssumption DEF Init
  <2>2. sessions # {} => user # NoUser
    BY DEF Init
  <2> QED  BY <1>4, <1>6, <2>1, <2>2 DEF KnownSessions, Loaded
<1> QED  BY <1>1, <1>3, <1>7, <1>8, <1>9 DEF TypeInv

LEMMA TypeStep == TypeInv /\ [Next]_vars => TypeInv'
<1>1. ASSUME TypeInv, Next PROVE TypeInv'
  BY <1>1, BaseTypesNext, OtpTypesNext DEF TypeInv
<1>2. ASSUME TypeInv, UNCHANGED vars PROVE TypeInv'
  BY <1>2 DEF vars, otpVars, userVars, sessionVars, notes, TypeInv, OtpTypes, OtpStage, BaseTypes,
              KnownUsers, KnownSessions, Loaded
<1> QED  BY <1>1, <1>2

LEMMA TypesAlways == Spec => []TypeInv
BY TypeInit, TypeStep, PTL DEF Spec

(* The row, the sessions, the requests and the codes have their types; each *)
(* session hangs on the row, and no two have the same id.                   *)
THEOREM AccountsTypeCorrect == Spec => []TypeOK
<1>1. TypeInv => TypeOK
  <2> SUFFICES ASSUME TypeInv PROVE TypeOK
    OBVIOUS
  <2>1. codes \in [Ids -> [tries : -1..MaxAttempts + 1, ttl : BOOLEAN]]
    <3>1. 0..MaxAttempts \subseteq -1..MaxAttempts + 1 /\ -1 \in -1..MaxAttempts + 1
      BY OtpAssumption
    <3>2. Codes \subseteq [tries : -1..MaxAttempts + 1, ttl : BOOLEAN]
      <4> DEFINE B == -1..MaxAttempts + 1
      <4>1. NoCode \in [tries : B, ttl : BOOLEAN]
        BY <3>1 DEF NoCode
      <4>2. [tries : 0..MaxAttempts, ttl : BOOLEAN] \subseteq [tries : B, ttl : BOOLEAN]
        <5>1. 0..MaxAttempts \subseteq B  BY <3>1
        <5> HIDE DEF B
        <5> QED  BY <5>1
      <4> QED  BY <4>1, <4>2 DEF Codes
    <3> QED  BY <3>2 DEF TypeInv, OtpTypes
  <2>2. OtpTypeOK
    BY <2>1 DEF TypeInv, OtpTypes, OtpSteps, OtpTypeOK
  <2>3. \A r \in Requests : mine[r].uid \in 0..lastId /\ mine[r].todo \subseteq {"drop", "add"}
    BY DEF TypeInv, BaseTypes, LocalRows, KnownUsers
  <2> QED  BY <2>2, <2>3 DEF TypeInv, BaseTypes, KnownUsers, KnownSessions, Rows, TypeOK
<1> QED  BY <1>1, TypesAlways, PTL

-------------------------------------------------------------------------------
(* The row and its roles *)

(* The same row loses a way to log in only by a PATCH, and loses roles only *)
(* when they are replaced; another row has an id that no request has read.  *)
RowKeeps ==
    user' # NoUser =>
        \/ /\ user # NoUser /\ user'.id = user.id
           /\ \/ user.id \in edited'
              \/ (user.secret => user'.secret) /\ (user.linked => user'.linked)
           /\ user.roles \subseteq user'.roles \/ \E r \in Requests : RoleApply(r)
        \/ \E r \in Requests : CreateUser(r) /\ user'.id > lastId /\ mine'[r].uid = user'.id

LEMMA RowKeepsNext ==
    ASSUME TypeInv, Next
    PROVE  RowKeeps
<1> USE DEF TypeInv, BaseTypes
<1>1. CASE UNCHANGED user
  BY <1>1 DEF RowKeeps
<1>2. CASE user' = NoUser
  BY <1>2 DEF RowKeeps
<1>3. ASSUME NEW r \in Requests, CreateUser(r), user' # user
      PROVE  RowKeeps
  <2>1. /\ user'.id = lastId + 1
        /\ GotoWith(r, "add_first_role",
                    [NoLocals EXCEPT !.uid = lastId + 1, !.ver = 1, !.made = op[r] = "google"])
    BY <1>3 DEF CreateUser, userVars
  <2>2. mine'[r].uid = lastId + 1
    BY <2>1 DEF GotoWith, NoLocals
  <2> QED  BY <1>3, <2>1, <2>2 DEF RowKeeps
<1>4. ASSUME NEW r \in Requests, Loaded(mine[r].uid), NEW f \in SUBSET Roles,
             user' = [user EXCEPT !.roles = @ \cup f]
      PROVE  RowKeeps
  BY <1>4 DEF RowKeeps, Loaded, Users
<1>5. ASSUME NEW r \in Requests, AddFirstRole(r) \/ AssignRole(r), user' # user
      PROVE  RowKeeps
  <2>1. Loaded(mine[r].uid) /\ \E role \in Roles : user' = [user EXCEPT !.roles = @ \cup {role}]
    BY <1>5 DEF AddFirstRole, AssignRole, LocalRows, Roles
  <2>2. PICK role \in Roles : user' = [user EXCEPT !.roles = @ \cup {role}]
    BY <2>1
  <2>3. {role} \in SUBSET Roles
    OBVIOUS
  <2> QED  BY <2>1, <2>2, <2>3, <1>4
<1>6. ASSUME NEW r \in Requests, LinkGoogle(r), user' # user
      PROVE  RowKeeps
  <2>1. user # NoUser /\ user \in Users /\ user' = [user EXCEPT !.linked = TRUE, !.provider = "both"]
    BY <1>6 DEF LinkGoogle, Loaded
  <2> QED  BY <2>1 DEF RowKeeps, Users
<1>7. ASSUME NEW r \in Requests, UpdatePassword(r), user' # user
      PROVE  RowKeeps
  <2>1. /\ user # NoUser /\ user \in Users
        /\ user' = [user EXCEPT !.ver = @ + 1, !.secret = TRUE,
                                !.provider = IF mine[r].up THEN "both" ELSE @]
    BY <1>7 DEF UpdatePassword, Loaded
  <2>2. user'.id = user.id /\ user'.secret /\ user'.linked = user.linked /\ user'.roles = user.roles
    BY <2>1 DEF Users
  <2> QED  BY <2>1, <2>2 DEF RowKeeps
<1>8. ASSUME NEW r \in Requests, RoleApply(r), user' # user
      PROVE  RowKeeps
  <2>1. /\ user # NoUser /\ user \in Users
        /\ \/ user' = [user EXCEPT !.roles = @ \ mine[r].old]
           \/ user' = [user EXCEPT !.roles = @ \cup {mine[r].role}]
    BY <1>8 DEF RoleApply, Loaded
  <2>2. user'.id = user.id /\ user'.secret = user.secret /\ user'.linked = user.linked
    BY <2>1 DEF Users
  <2> QED  BY <1>8, <2>1, <2>2 DEF RowKeeps
<1>9. ASSUME NEW r \in Requests, PatchUser(r), user' # user
      PROVE  RowKeeps
  BY <1>9, Patched DEF PatchMoves, RowKeeps
<1>10. QED
  BY <1>1, <1>2, <1>3, <1>5, <1>6, <1>7, <1>8, <1>9, ZenonT(60)
  DEF Next, Register, Login, UseOtp, Refresh, SetPassword, SetRoles, RegisterFind, LoginFind,
      GoogleFind, CountSessions, EvictOne, ReloadUser, CreateSession, OtpStart, OtpRefused,
      OtpFind, OtpSpend, SendOtp, RefreshFind, RefreshUser, RefreshSave, Logout, LogoutOthers,
      ResetFind, ChangeFind, DropSessions, DeleteUser, UpdateRoleFind, RoleRead, Fail, MailFails,
      SessionAges, CleanSessions, CodeExpires, userVars

Unmoved(q) == pc'[q] = pc[q] /\ mine'[q] = mine[q]

RequestNext(r) ==
    \/ Register(r) \/ Login(r) \/ UseOtp(r) \/ Refresh(r)
    \/ Logout(r) \/ LogoutOthers(r)
    \/ SetPassword(r) \/ PatchUser(r) \/ DeleteUser(r) \/ SetRoles(r)
    \/ Fail(r) \/ MailFails(r)

(* A request moves only itself, and the jobs and the clock move none. *)
LEMMA OthersUnmoved ==
    ASSUME TypeInv, Next
    PROVE  \/ \E r \in Requests : RequestNext(r) /\ \A q \in Requests \ {r} : Unmoved(q)
           \/ \A q \in Requests : Unmoved(q)
<1> USE DEF TypeInv, BaseTypes, Unmoved
<1>1. ASSUME NEW r \in Requests, RequestNext(r)
      PROVE  \A q \in Requests \ {r} : Unmoved(q)
  <2>1. \/ \E m, l : GotoWith(r, m, l)
        \/ \E m : Goto(r, m)
    BY <1>1 DEF RequestNext, Register, Login, UseOtp, Refresh, SetPassword, SetRoles,
      RegisterFind, CreateUser, AddFirstRole, LoginFind, GoogleFind, LinkGoogle, CountSessions,
      EvictOne, ReloadUser, CreateSession, OtpStart, OtpRefused, OtpFind, OtpSpend, SendOtp,
      RefreshFind, RefreshUser, RefreshSave, Logout, LogoutOthers, ResetFind, ChangeFind,
      UpdatePassword, DropSessions, PatchUser, DeleteUser, AssignRole, UpdateRoleFind, RoleRead, RoleApply,
      Fail, MailFails, Finish
  <2> QED  BY <2>1 DEF Goto, GotoWith
<1>2. CASE \E r \in Requests : RequestNext(r)
  BY <1>1, <1>2
<1>3. CASE (\E s \in sessions : SessionAges(s)) \/ CleanSessions \/ CodeExpires
  BY <1>3 DEF SessionAges, CleanSessions, CodeExpires
<1> QED  BY <1>2, <1>3 DEF Next, RequestNext

(* Which steps take a request to or from the places that the invariant      *)
(* speaks of.                                                               *)
LEMMA RowPlaces ==
    ASSUME TypeInv, Next, NEW q \in Requests
    PROVE  /\ \/ Unmoved(q)
              \/ pc'[q] \notin {"create_user", "add_first_role", "link", "update_password"}
              \/ RegisterFind(q) \/ CreateUser(q) \/ GoogleFind(q) \/ ResetFind(q) \/ ChangeFind(q)
           /\ \/ Unmoved(q) \/ pc[q] \notin {"add_first_role", "role_apply"}
              \/ AddFirstRole(q) \/ RoleApply(q) \/ (Fail(q) /\ clashed')
           /\ Unmoved(q) \/ pc'[q] # "role_apply" \/ RoleRead(q) \/ RoleApply(q)
<1>1. Unmoved(q) \/ RequestNext(q)
  BY OthersUnmoved
<1> SUFFICES ASSUME RequestNext(q) PROVE
           /\ \/ pc'[q] \notin {"create_user", "add_first_role", "link", "update_password"}
              \/ RegisterFind(q) \/ CreateUser(q) \/ GoogleFind(q) \/ ResetFind(q) \/ ChangeFind(q)
           /\ \/ pc[q] \notin {"add_first_role", "role_apply"}
              \/ AddFirstRole(q) \/ RoleApply(q) \/ (Fail(q) /\ clashed')
           /\ pc'[q] # "role_apply" \/ RoleRead(q) \/ RoleApply(q)
  BY <1>1
<1>2. \/ pc'[q] \notin {"create_user", "add_first_role", "link", "update_password"}
      \/ RegisterFind(q) \/ CreateUser(q) \/ GoogleFind(q) \/ ResetFind(q) \/ ChangeFind(q)
  BY DEF TypeInv, BaseTypes, Goto, GotoWith, Finish, CreateOrReload,
      RequestNext, Register, Login, UseOtp, Refresh, SetPassword, SetRoles,
      AddFirstRole, LoginFind, LinkGoogle, CountSessions,
      EvictOne, ReloadUser, CreateSession, OtpStart, OtpRefused, OtpFind, OtpSpend, SendOtp,
      RefreshFind, RefreshUser, RefreshSave, Logout, LogoutOthers,
      UpdatePassword, DropSessions, PatchUser, DeleteUser, AssignRole, UpdateRoleFind, RoleRead, RoleApply,
      Fail, MailFails
<1>3. \/ pc[q] \notin {"add_first_role", "role_apply"}
      \/ AddFirstRole(q) \/ RoleApply(q) \/ (Fail(q) /\ clashed')
  <2>1. CASE MailFails(q)
    BY <2>1 DEF MailFails, SendMailFails, GoOtp, EndOtp, TypeInv, OtpStage, SendSteps
  <2>2. CASE Fail(q)
    BY <2>2 DEF Fail
  <2> QED
    BY <2>1, <2>2 DEF Arrives, RequestNext, Register, Login, UseOtp, Refresh, SetPassword, SetRoles,
      RegisterFind, CreateUser, LoginFind, GoogleFind, LinkGoogle, CountSessions,
      EvictOne, ReloadUser, CreateSession, OtpStart, OtpRefused, OtpFind, OtpSpend, SendOtp,
      RefreshFind, RefreshUser, RefreshSave, Logout, LogoutOthers, ResetFind, ChangeFind,
      UpdatePassword, DropSessions, PatchUser, DeleteUser, AssignRole, UpdateRoleFind, RoleRead
<1>4. pc'[q] # "role_apply" \/ RoleRead(q) \/ RoleApply(q)
  BY DEF TypeInv, BaseTypes, Goto, GotoWith, Finish, CreateOrReload,
      RequestNext, Register, Login, UseOtp, Refresh, SetPassword, SetRoles,
      RegisterFind, CreateUser, AddFirstRole, LoginFind, GoogleFind, LinkGoogle, CountSessions,
      EvictOne, ReloadUser, CreateSession, OtpStart, OtpRefused, OtpFind, OtpSpend, SendOtp,
      RefreshFind, RefreshUser, RefreshSave, Logout, LogoutOthers, ResetFind, ChangeFind,
      UpdatePassword, DropSessions, PatchUser, DeleteUser, AssignRole, UpdateRoleFind, Fail, MailFails
<1> QED  BY <1>2, <1>3, <1>4

LEMMA RowStageNext ==
    ASSUME TypeInv, AccountInv, Next, NEW q \in Requests
    PROVE  RowStage(q)'
<1> USE DEF TypeInv, BaseTypes
<1>1. UNCHANGED op /\ RowKeeps /\ edited \subseteq edited'
  BY NotesMoveNext, RowKeepsNext DEF NotesMove
<1>2. CASE Unmoved(q)
  <2>1. /\ pc[q] \in {"create_user", "add_first_role"} => op[q] \in {"register", "google"}
        /\ pc[q] = "link" /\ Loaded(mine[q].uid) => user.secret \/ user.id \in edited
        /\ pc[q] = "update_password" /\ Loaded(mine[q].uid) =>
              (IF mine[q].up THEN user.linked ELSE user.secret) \/ user.id \in edited
    BY DEF AccountInv, RowStage
  <2>2. pc'[q] \in {"link", "update_password"} /\ Loaded(mine[q].uid)' =>
           /\ user # NoUser /\ user'.id = user.id
           /\ \/ user.id \in edited'
              \/ (user.secret => user'.secret) /\ (user.linked => user'.linked)
    BY <1>1, <1>2 DEF RowKeeps, Loaded, Unmoved, KnownUsers
  <2> QED  BY <1>1, <1>2, <2>1, <2>2 DEF RowStage, Unmoved, Loaded
<1>3. CASE pc'[q] \notin {"create_user", "add_first_role", "link", "update_password"}
  BY <1>3 DEF RowStage
<1>4. CASE RegisterFind(q)
  BY <1>1, <1>4 DEF RegisterFind, Arrives, RowStage, Goto, Finish, GotoWith
<1>5. CASE CreateUser(q)
  BY <1>1, <1>5 DEF CreateUser, RowStage, GotoWith, Finish, AccountInv
<1>6. CASE GoogleFind(q)
  <2>1. UNCHANGED user /\ op[q] = "google"
    BY <1>6 DEF GoogleFind, Arrives, userVars
  <2>2. CASE user # NoUser /\ ~user.linked /\ GotoWith(q, "link", Locals(user))
    <3>1. user.secret \/ user.id \in edited
      BY <2>2 DEF AccountInv, AccountStaysUsable, ProviderAgrees, Agrees, Users, Providers
    <3> QED  BY <1>1, <2>1, <2>2, <3>1 DEF RowStage, GotoWith
  <2>3. CASE Goto(q, "create_user") \/ GotoWith(q, "count", Locals(user)) \/ Finish(q)
    BY <1>1, <2>1, <2>3 DEF RowStage, Goto, GotoWith, Finish
  <2> QED  BY <1>6, <2>2, <2>3 DEF GoogleFind
<1>7. CASE ResetFind(q) /\ pc'[q] = "update_password"
  <2>1. /\ UNCHANGED user /\ user # NoUser
        /\ mine'[q] = [NoLocals EXCEPT !.uid = user.id, !.up = user.provider = "google"]
    BY <1>7 DEF ResetFind, Finish, GotoWith, userVars
  <2>2. mine'[q].up = (user.provider = "google")
    BY <2>1 DEF NoLocals
  <2>3. (IF user.provider = "google" THEN user.linked ELSE user.secret) \/ user.id \in edited
    BY <2>1 DEF AccountInv, AccountStaysUsable, ProviderAgrees, Agrees, Users, Providers
  <2> QED  BY <1>1, <1>7, <2>1, <2>2, <2>3 DEF RowStage
<1>8. CASE ChangeFind(q) /\ pc'[q] = "update_password"
  <2>1. PICK t \in tokens : user.secret /\ mine'[q] = [NoLocals EXCEPT !.uid = t.uid]
    BY <1>8 DEF ChangeFind, Finish, GotoWith
  <2>2. mine'[q].up = FALSE /\ UNCHANGED user
    BY <1>8, <2>1 DEF NoLocals, ChangeFind, userVars
  <2> QED  BY <1>8, <2>1, <2>2 DEF RowStage
<1>9. CASE (ResetFind(q) \/ ChangeFind(q)) /\ pc'[q] # "update_password"
  BY <1>9 DEF ResetFind, ChangeFind, Finish, GotoWith, RowStage
<1> QED  BY <1>2, <1>3, <1>4, <1>5, <1>6, <1>7, <1>8, <1>9, RowPlaces

LEMMA ProviderNext ==
    ASSUME TypeInv, AccountInv, Next
    PROVE  ProviderAgrees'
<1> USE DEF TypeInv, BaseTypes
<1>1. ProviderAgrees /\ (\A r \in Requests : RowStage(r)) /\ edited \subseteq edited'
  BY NotesMoveNext DEF NotesMove, AccountInv, AccountStaysUsable
<1>2. CASE UNCHANGED user
  BY <1>1, <1>2 DEF ProviderAgrees, Agrees
<1>3. CASE user' = NoUser
  BY <1>3 DEF ProviderAgrees
<1>4. ASSUME NEW r \in Requests, CreateUser(r), user' # user
      PROVE  ProviderAgrees'
  <2>1. /\ op[r] \in {"register", "google"}
        /\ user' = [id |-> lastId + 1, ver |-> 1, secret |-> op[r] = "register",
                    linked |-> op[r] = "google", roles |-> {},
                    provider |-> IF op[r] = "google" THEN "google" ELSE "local"]
    BY <1>1, <1>4 DEF CreateUser, userVars, RowStage
  <2>2. CASE op[r] = "google"
    <3>1. user'.provider = "google" /\ user'.linked = TRUE /\ user'.secret = FALSE
      BY <2>1, <2>2
    <3> QED  BY <3>1 DEF ProviderAgrees, Agrees
  <2>3. CASE op[r] = "register"
    <3>1. user'.provider = "local" /\ user'.linked = FALSE /\ user'.secret = TRUE
      BY <2>1, <2>3
    <3> QED  BY <3>1 DEF ProviderAgrees, Agrees
  <2> QED  BY <2>1, <2>2, <2>3
<1>5. ASSUME NEW r \in Requests, LinkGoogle(r), user' # user
      PROVE  ProviderAgrees'
  <2>1. /\ user # NoUser /\ user \in Users /\ (user.secret \/ user.id \in edited)
        /\ user' = [user EXCEPT !.linked = TRUE, !.provider = "both"]
    BY <1>1, <1>5 DEF LinkGoogle, Loaded, RowStage
  <2>2. /\ user'.provider = "both" /\ user'.linked = TRUE /\ user'.secret = user.secret
        /\ user'.id = user.id
    BY <2>1 DEF Users
  <2> QED  BY <1>1, <2>1, <2>2 DEF ProviderAgrees, Agrees
<1>6. ASSUME NEW r \in Requests, UpdatePassword(r), user' # user
      PROVE  ProviderAgrees'
  <2>1. /\ user # NoUser /\ user \in Users
        /\ (IF mine[r].up THEN user.linked ELSE user.secret) \/ user.id \in edited
        /\ user' = [user EXCEPT !.ver = @ + 1, !.secret = TRUE,
                                !.provider = IF mine[r].up THEN "both" ELSE @]
    BY <1>1, <1>6 DEF UpdatePassword, Loaded, RowStage
  <2>2. /\ user'.provider = IF mine[r].up THEN "both" ELSE user.provider
        /\ user'.linked = user.linked /\ user'.secret = TRUE /\ user'.id = user.id
    BY <2>1 DEF Users
  <2> QED  BY <1>1, <2>1, <2>2 DEF ProviderAgrees, Agrees
<1>7. ASSUME NEW r \in Requests, AddFirstRole(r) \/ AssignRole(r) \/ RoleApply(r), user' # user
      PROVE  ProviderAgrees'
  <2>1. user # NoUser /\ user \in Users /\ \E roles : user' = [user EXCEPT !.roles = roles]
    BY <1>7 DEF AddFirstRole, AssignRole, RoleApply, Loaded
  <2>2. /\ user'.provider = user.provider /\ user'.linked = user.linked
        /\ user'.secret = user.secret /\ user'.id = user.id
    BY <2>1 DEF Users
  <2> QED  BY <1>1, <2>1, <2>2 DEF ProviderAgrees, Agrees
<1>8. ASSUME NEW r \in Requests, PatchUser(r), user' # user
      PROVE  ProviderAgrees'
  BY <1>8, Patched DEF PatchMoves, ProviderAgrees
<1>9. QED
  BY <1>2, <1>3, <1>4, <1>5, <1>6, <1>7, <1>8, ZenonT(60)
  DEF Next, Register, Login, UseOtp, Refresh, SetPassword, SetRoles, RegisterFind, LoginFind,
      GoogleFind, CountSessions, EvictOne, ReloadUser, CreateSession, OtpStart, OtpRefused,
      OtpFind, OtpSpend, SendOtp, RefreshFind, RefreshUser, RefreshSave, Logout, LogoutOthers,
      ResetFind, ChangeFind, DropSessions, DeleteUser, UpdateRoleFind, RoleRead, Fail, MailFails,
      SessionAges, CleanSessions, CodeExpires, userVars

LEMMA RoleApplied ==
    ASSUME TypeInv, NEW r \in Requests, RoleApply(r), RoleStage(r)
    PROVE  /\ user' # NoUser <=> user # NoUser
           /\ user # NoUser => user'.id = user.id
           /\ ~Loaded(mine[r].uid) => UNCHANGED user
           /\ pc'[r] = "done" \/ /\ pc'[r] = "role_apply" /\ mine'[r].uid = mine[r].uid
                                 /\ mine'[r].role = mine[r].role /\ mine'[r].old = mine[r].old
           /\ Loaded(mine[r].uid) /\ (pc'[r] = "done" \/ "add" \notin mine'[r].todo) =>
                 mine[r].role \in user'.roles
<1> USE DEF TypeInv, BaseTypes
<1>1. PICK a \in mine[r].todo :
          /\ user' = IF ~Loaded(mine[r].uid) THEN user
                     ELSE IF a = "drop" THEN [user EXCEPT !.roles = @ \ mine[r].old]
                     ELSE [user EXCEPT !.roles = @ \cup {mine[r].role}]
          /\ IF mine[r].todo = {a} THEN Finish(r)
             ELSE GotoWith(r, "role_apply", [mine[r] EXCEPT !.todo = @ \ {a}])
  BY DEF RoleApply
<1>2. a \in {"drop", "add"} /\ mine[r] \in LocalRows
  BY DEF LocalRows
<1>3. /\ mine[r].role \notin mine[r].old
      /\ Loaded(mine[r].uid) /\ "add" \notin mine[r].todo => mine[r].role \in user.roles
  BY DEF RoleStage, RoleApply
<1>4. CASE ~Loaded(mine[r].uid)
  BY <1>1, <1>2, <1>4 DEF Finish, GotoWith, LocalRows
<1>5. CASE Loaded(mine[r].uid)
  <2>1. user \in Users /\ user # NoUser
    BY <1>5 DEF Loaded
  <2>2. /\ user' \in [id : Nat, ver : Nat, secret : BOOLEAN, linked : BOOLEAN,
                      provider : Providers, roles : SUBSET Roles]
        /\ user'.id = user.id
        /\ user'.roles = IF a = "drop" THEN user.roles \ mine[r].old
                         ELSE user.roles \cup {mine[r].role}
    BY <1>1, <1>2, <1>5, <2>1 DEF Users, LocalRows
  <2>3. user' # NoUser
    BY <2>2, AccountsAssumption DEF Users
  <2>4. CASE mine[r].todo = {a}
    <3>1. pc'[r] = "done"  BY <1>1, <2>4 DEF Finish, GotoWith
    <3>2. a = "drop" => "add" \notin mine[r].todo  BY <2>4
    <3> QED  BY <1>2, <1>3, <1>5, <2>1, <2>2, <2>3, <3>1, <3>2
  <2>5. CASE mine[r].todo # {a}
    <3>1. pc'[r] = "role_apply" /\ mine'[r] = [mine[r] EXCEPT !.todo = @ \ {a}]
      BY <1>1, <2>5 DEF GotoWith
    <3>2. /\ mine'[r].uid = mine[r].uid /\ mine'[r].role = mine[r].role
          /\ mine'[r].old = mine[r].old /\ mine'[r].todo = mine[r].todo \ {a}
      BY <1>2, <3>1 DEF LocalRows
    <3>3. "add" \notin mine'[r].todo => a = "add" \/ "add" \notin mine[r].todo
      BY <3>2
    <3> QED  BY <1>2, <1>3, <1>5, <2>1, <2>2, <2>3, <3>1, <3>2, <3>3
  <2> QED  BY <2>4, <2>5
<1> QED  BY <1>4, <1>5

LEMMA KeepsARoleNext ==
    ASSUME TypeInv, AccountInv, Next
    PROVE  KeepsARole'
<1> USE DEF TypeInv, BaseTypes
<1> SUFFICES ASSUME user' # NoUser, user'.roles = {}, ~clashed'
             PROVE  \E r \in Requests : /\ pc'[r] \in {"add_first_role", "role_apply"}
                                        /\ mine'[r].uid = user'.id
  BY DEF KeepsARole
<1>1. RowKeeps /\ ~clashed /\ KeepsARole /\ \A r \in Requests : RoleStage(r)
  BY RowKeepsNext, NotesMoveNext DEF NotesMove, AccountInv, AccountStaysUsable
<1>2. ASSUME NEW r \in Requests, CreateUser(r), mine'[r].uid = user'.id, user'.id > lastId
      PROVE  pc'[r] = "add_first_role"
  <2>1. mine'[r].uid # 0
    BY <1>2, RowMovesNext DEF RowMoves, userVars, KnownUsers
  <2> QED  BY <1>2, <2>1, NoLocalsTyped DEF CreateUser, Finish, GotoWith
<1>3. CASE \E r \in Requests : RoleApply(r)
  <2>1. PICK r \in Requests : RoleApply(r)  BY <1>3
  <2>2. pc[r] = "role_apply" /\ RoleStage(r)
    BY <1>1, <2>1 DEF RoleApply
  <2>3. CASE Loaded(mine[r].uid)
    <3>1. pc'[r] # "done"
      BY <2>1, <2>2, <2>3, RoleApplied
    <3> QED  BY <2>1, <2>2, <2>3, <3>1, RoleApplied DEF Loaded
  <2>4. CASE ~Loaded(mine[r].uid)
    <3>1. UNCHANGED user  BY <2>1, <2>2, <2>4, RoleApplied
    <3>2. PICK q \in Requests : pc[q] \in {"add_first_role", "role_apply"} /\ mine[q].uid = user.id
      BY <1>1, <3>1 DEF KeepsARole
    <3>3. q # r  BY <2>4, <3>1, <3>2 DEF Loaded
    <3>4. pc'[q] = pc[q] /\ mine'[q] = mine[q]
      BY <2>1, <3>3 DEF RoleApply, Finish, GotoWith
    <3> QED  BY <3>1, <3>2, <3>4
  <2> QED  BY <2>3, <2>4
<1>4. CASE ~ \E r \in Requests : RoleApply(r)
  <2>1. CASE \E r \in Requests : CreateUser(r) /\ user'.id > lastId /\ mine'[r].uid = user'.id
    BY <1>2, <2>1
  <2>2. CASE user # NoUser /\ user'.id = user.id /\ user.roles \subseteq user'.roles
    <3>1. PICK q \in Requests : pc[q] \in {"add_first_role", "role_apply"} /\ mine[q].uid = user.id
      BY <1>1, <2>2 DEF KeepsARole
    <3>2. ~AddFirstRole(q)
      <4>1. SUFFICES ASSUME AddFirstRole(q) PROVE FALSE
        OBVIOUS
      <4>2. Loaded(mine[q].uid) /\ user \in Users  BY <2>2, <3>1 DEF Loaded
      <4>3. user' = [user EXCEPT !.roles = @ \cup {"USER"}]
        BY <4>1, <4>2 DEF AddFirstRole
      <4>4. "USER" \in user'.roles
        BY <4>2, <4>3 DEF Users
      <4> QED  BY <4>4
    <3>3. Unmoved(q)
      BY <1>4, <3>1, <3>2, RowPlaces
    <3> QED  BY <2>2, <3>1, <3>3 DEF Unmoved
  <2> QED  BY <1>1, <1>4, <2>1, <2>2 DEF RowKeeps
<1> QED  BY <1>3, <1>4

LEMMA RoleStageNext ==
    ASSUME TypeInv, AccountInv, Next, ~clashed', NEW r \in Requests
    PROVE  RoleStage(r)'
<1> USE DEF TypeInv, BaseTypes
<1>1. RowKeeps /\ ~clashed /\ \A q \in Requests : RoleStage(q)
  BY RowKeepsNext, NotesMoveNext DEF NotesMove, AccountInv
<1> SUFFICES ASSUME pc'[r] = "role_apply"
             PROVE  /\ \A q \in Requests : pc'[q] = "role_apply" => q = r
                    /\ mine'[r].role \notin mine'[r].old
                    /\ Loaded(mine[r].uid)' /\ "add" \notin mine'[r].todo => mine'[r].role \in user'.roles
  BY DEF RoleStage
<1>2. ASSUME NEW p \in Requests, RoleRead(p)
      PROVE  RoleStage(r)'
  <2>1. (\A q \in Requests : pc[q] # "role_apply") /\ UNCHANGED user
    BY <1>2 DEF RoleRead, userVars
  <2>2. p = r /\ \A q \in Requests \ {r} : pc'[q] = pc[q]
    BY <1>2, <2>1 DEF RoleRead, Finish, GotoWith
  <2> DEFINE roles == IF Loaded(mine[r].uid) THEN user.roles ELSE {}
             old == roles \ {mine[r].role}
             todo == {a \in {"drop", "add"} : IF a = "drop" THEN old # {} ELSE mine[r].role \notin roles}
  <2>3. mine'[r] = [mine[r] EXCEPT !.old = old, !.todo = todo]
    BY <1>2, <2>2 DEF RoleRead, Finish, GotoWith
  <2>4. /\ mine'[r].old = old /\ mine'[r].todo = todo
        /\ mine'[r].role = mine[r].role /\ mine'[r].uid = mine[r].uid
    <3> HIDE DEF old, todo
    <3> QED  BY <2>3 DEF LocalRows
  <2> QED  BY <2>1, <2>2, <2>4 DEF RoleStage, Loaded
<1>3. ASSUME NEW p \in Requests, RoleApply(p)
      PROVE  RoleStage(r)'
  <2>1. pc[p] = "role_apply" /\ RoleStage(p) /\ \A q \in Requests : pc[q] = "role_apply" => q = p
    BY <1>1, <1>3 DEF RoleApply, RoleStage
  <2>2. \A q \in Requests \ {p} : pc'[q] = pc[q]
    BY <1>3 DEF RoleApply, Finish, GotoWith
  <2>3. p = r /\ \A q \in Requests : pc'[q] = "role_apply" => q = r
    BY <2>1, <2>2
  <2>4. /\ mine'[r].uid = mine[r].uid
        /\ mine'[r].role = mine[r].role /\ mine'[r].old = mine[r].old
    BY <1>3, <2>1, <2>3, RoleApplied
  <2>5. mine[r].role \notin mine[r].old
    BY <2>1, <2>3 DEF RoleStage
  <2>6. Loaded(mine[r].uid)' => Loaded(mine[r].uid)
    BY <1>3, <2>1, <2>3, <2>4, RoleApplied DEF Loaded
  <2>7. Loaded(mine[r].uid) /\ "add" \notin mine'[r].todo => mine[r].role \in user'.roles
    BY <1>3, <2>1, <2>3, RoleApplied
  <2> QED  BY <2>3, <2>4, <2>5, <2>6, <2>7 DEF RoleStage
<1>4. CASE ~ \E p \in Requests : RoleRead(p) \/ RoleApply(p)
  <2>1. \A q \in Requests : pc'[q] = "role_apply" => Unmoved(q)
    BY <1>4, RowPlaces
  <2>2. pc[r] = "role_apply" /\ mine'[r] = mine[r]
    BY <2>1 DEF Unmoved
  <2>3. \A q \in Requests : pc'[q] = "role_apply" => q = r
    BY <1>1, <2>1, <2>2 DEF RoleStage, Unmoved
  <2>4. Loaded(mine[r].uid)' => Loaded(mine[r].uid) /\ user.roles \subseteq user'.roles
    BY <1>1, <1>4, <2>2 DEF RowKeeps, Loaded, KnownUsers
  <2> QED  BY <1>1, <2>2, <2>3, <2>4 DEF RoleStage
<1> QED  BY <1>2, <1>3, <1>4 DEF RoleStage

LEMMA AccountInit == Init => AccountInv
<1> SUFFICES ASSUME Init PROVE AccountInv
  OBVIOUS
<1>1. \A r \in Requests : pc[r] \in {"new", "done"}
  BY DEF Init
<1>2. user # NoUser => user.roles # {} /\ Agrees(user)
  BY AccountsAssumption DEF Init
<1> QED  BY <1>1, <1>2 DEF AccountInv, AccountStaysUsable, ProviderAgrees, KeepsARole, RowStage, RoleStage

LEMMA AccountStep == TypeInv /\ AccountInv /\ [Next]_vars => AccountInv'
<1>1. ASSUME TypeInv, AccountInv, Next PROVE AccountInv'
  BY <1>1, RowStageNext, ProviderNext, KeepsARoleNext, RoleStageNext
  DEF AccountInv, AccountStaysUsable
<1>2. ASSUME AccountInv, UNCHANGED vars PROVE AccountInv'
  BY <1>2 DEF vars, userVars, notes, AccountInv, AccountStaysUsable, ProviderAgrees, Agrees,
              KeepsARole, RowStage, RoleStage, Loaded
<1> QED  BY <1>1, <1>2

(* Whatever the order of registrations, Google logins, password changes,    *)
(* deletions and role changes, the provider names the ways to log in that   *)
(* the row has; and a row is without a role only while it is being created, *)
(* while its roles are replaced, or after two replacements overlapped or    *)
(* one died half way.                                                       *)
THEOREM AccountUsable == Spec => []AccountStaysUsable
<1>1. AccountInv => AccountStaysUsable
  BY DEF AccountInv
<1> QED  BY <1>1, AccountInit, AccountStep, TypesAlways, PTL DEF Spec

-------------------------------------------------------------------------------
(* The sessions *)

VerKeeps ==
    user' # NoUser =>
        \/ user # NoUser /\ user'.id = user.id /\ user'.ver = user.ver
        \/ /\ user # NoUser /\ user'.id = user.id /\ user'.ver = user.ver + 1
           /\ \A q \in Requests : mine[q].ver > 0 => q \in spared'
           /\ \/ SidsOf(sessions) \subseteq spared' /\ UNCHANGED sessions
              \/ \E r \in Requests : pc'[r] = "drop_sessions" /\ mine'[r].uid = user.id
        \/ /\ user = NoUser /\ user'.id = lastId + 1 /\ user'.ver = 1
           /\ \E r \in Requests : CreateUser(r) /\ pc'[r] = "add_first_role"

LEMMA VerKeepsNext ==
    ASSUME TypeInv, Next
    PROVE  VerKeeps
<1> USE DEF TypeInv, BaseTypes
<1>1. CASE UNCHANGED user
  BY <1>1 DEF VerKeeps
<1>2. CASE user' = NoUser
  BY <1>2 DEF VerKeeps
<1>3. ASSUME NEW r \in Requests, CreateUser(r), user' # user
      PROVE  VerKeeps
  <2>1. user = NoUser /\ user'.id = lastId + 1 /\ user'.ver = 1 /\ pc'[r] = "add_first_role"
    BY <1>3 DEF CreateUser, userVars, GotoWith
  <2> QED  BY <1>3, <2>1 DEF VerKeeps
<1>4. ASSUME NEW r \in Requests, UpdatePassword(r), user' # user
      PROVE  VerKeeps
  <2>1. /\ user # NoUser /\ user \in Users /\ mine[r].uid = user.id
        /\ user' = [user EXCEPT !.ver = @ + 1, !.secret = TRUE,
                                !.provider = IF mine[r].up THEN "both" ELSE @]
        /\ spared' = spared \cup {q \in Requests : mine[q].ver > 0}
        /\ pc'[r] = "drop_sessions" /\ mine'[r] = mine[r]
    BY <1>4 DEF UpdatePassword, LoginsUnderWay, Loaded, Goto
  <2>2. user'.id = user.id /\ user'.ver = user.ver + 1
    BY <2>1 DEF Users
  <2> QED  BY <2>1, <2>2 DEF VerKeeps
<1>5. ASSUME NEW r \in Requests,
             AddFirstRole(r) \/ LinkGoogle(r) \/ AssignRole(r) \/ RoleApply(r), user' # user
      PROVE  VerKeeps
  <2>1. /\ user # NoUser /\ user \in Users
        /\ \/ \E roles : user' = [user EXCEPT !.roles = roles]
           \/ user' = [user EXCEPT !.linked = TRUE, !.provider = "both"]
    BY <1>5 DEF AddFirstRole, LinkGoogle, AssignRole, RoleApply, Loaded
  <2>2. user'.id = user.id /\ user'.ver = user.ver
    BY <2>1 DEF Users
  <2> QED  BY <2>1, <2>2 DEF VerKeeps
<1>6. ASSUME NEW r \in Requests, PatchUser(r), user' # user
      PROVE  VerKeeps
  <2>1. PatchMoves /\ UNCHANGED sessions
    BY <1>6, Patched DEF PatchUser, sessionVars
  <2> QED  BY <2>1 DEF PatchMoves, LoginsUnderWay, VerKeeps
<1>7. QED
  BY <1>1, <1>2, <1>3, <1>4, <1>5, <1>6, ZenonT(60)
  DEF Next, Register, Login, UseOtp, Refresh, SetPassword, SetRoles, RegisterFind, LoginFind,
      GoogleFind, CountSessions, EvictOne, ReloadUser, CreateSession, OtpStart, OtpRefused,
      OtpFind, OtpSpend, SendOtp, RefreshFind, RefreshUser, RefreshSave, Logout, LogoutOthers,
      ResetFind, ChangeFind, DropSessions, DeleteUser, UpdateRoleFind, RoleRead, Fail, MailFails,
      SessionAges, CleanSessions, CodeExpires, userVars

(* How a request comes to a place in a login, and what it has then read.    *)
LEMMA LoginPlaces ==
    ASSUME TypeInv, SessionInv, Next, NEW q \in Requests
    PROVE  \/ Unmoved(q)
           \/ pc'[q] \notin LoginSteps /\ mine'[q].ver = 0
           \/ /\ pc[q] \in LoginSteps /\ pc'[q] \in LoginSteps
              /\ mine'[q].uid = mine[q].uid /\ mine'[q].ver = mine[q].ver
              /\ pc'[q] # "evict" => mine'[q].list = {}
           \/ /\ pc'[q] \in {"count", "link", "otp_spend"} /\ UNCHANGED user
              /\ user # NoUser /\ mine'[q] = Locals(user)
           \/ /\ pc'[q] = "add_first_role" /\ CreateUser(q)
              /\ mine'[q].uid = lastId + 1 /\ mine'[q].ver = 1 /\ mine'[q].list = {}
<1> USE DEF TypeInv, BaseTypes
<1> SUFFICES ASSUME RequestNext(q), ~Unmoved(q)
             PROVE  \/ pc'[q] \notin LoginSteps /\ mine'[q].ver = 0
                    \/ /\ pc[q] \in LoginSteps /\ pc'[q] \in LoginSteps
                       /\ mine'[q].uid = mine[q].uid /\ mine'[q].ver = mine[q].ver
                       /\ pc'[q] # "evict" => mine'[q].list = {}
                    \/ /\ pc'[q] \in {"count", "link", "otp_spend"} /\ UNCHANGED user
                       /\ user # NoUser /\ mine'[q] = Locals(user)
                    \/ /\ pc'[q] = "add_first_role" /\ CreateUser(q)
                       /\ mine'[q].uid = lastId + 1 /\ mine'[q].ver = 1 /\ mine'[q].list = {}
  BY OthersUnmoved
<1> DEFINE Goal == \/ pc'[q] \notin LoginSteps /\ mine'[q].ver = 0
                   \/ /\ pc[q] \in LoginSteps /\ pc'[q] \in LoginSteps
                      /\ mine'[q].uid = mine[q].uid /\ mine'[q].ver = mine[q].ver
                      /\ pc'[q] # "evict" => mine'[q].list = {}
                   \/ /\ pc'[q] \in {"count", "link", "otp_spend"} /\ UNCHANGED user
                      /\ user # NoUser /\ mine'[q] = Locals(user)
                   \/ /\ pc'[q] = "add_first_role" /\ CreateUser(q)
                      /\ mine'[q].uid = lastId + 1 /\ mine'[q].ver = 1 /\ mine'[q].list = {}
<1>1. /\ mine[q].ver \in Nat
      /\ pc[q] \in LoginSteps <=> mine[q].ver > 0
      /\ pc[q] \in LoginSteps \ {"evict"} => mine[q].list = {}
  BY DEF SessionInv, LoginStage, LocalRows
<1>2. CASE Finish(q)
  BY <1>2 DEF Finish, GotoWith, NoLocals, LoginSteps
<1>3. ASSUME RegisterFind(q) \/ RefreshFind(q) \/ RefreshUser(q) \/ RefreshSave(q) \/ Logout(q)
             \/ LogoutOthers(q) \/ ResetFind(q) \/ ChangeFind(q) \/ UpdatePassword(q)
             \/ DropSessions(q) \/ PatchUser(q) \/ DeleteUser(q) \/ OtpStart(q) \/ OtpRefused(q) \/ SendOtp(q)
             \/ MailFails(q)
      PROVE  Goal
  <2>1. pc[q] \notin LoginSteps
    <3>1. CASE MailFails(q)
      <4>1. otp[q].at = "mail"
        BY <3>1 DEF MailFails, SendMailFails, GoOtp, EndOtp
      <4>2. pc[q] = "otp"
        BY <4>1 DEF OtpStage, SendSteps
      <4> QED  BY <4>2 DEF LoginSteps
    <3>2. CASE ~MailFails(q)
      BY <1>3, <3>2 DEF LoginSteps, Arrives, RegisterFind, RefreshFind, RefreshUser,
        RefreshSave, Logout, LogoutOthers, ResetFind, ChangeFind, UpdatePassword, DropSessions,
        PatchUser, DeleteUser, OtpStart, OtpRefused, SendOtp
    <3> QED  BY <3>1, <3>2
  <2>2. mine[q].ver = 0
    BY <1>1, <2>1
  <2>3. \/ Finish(q)
        \/ \E m \in {"create_user", "refresh_save", "drop_sessions", "otp"} : Goto(q, m)
        \/ \E uid, sid : GotoWith(q, "refresh_user", [NoLocals EXCEPT !.uid = uid, !.sid = sid])
        \/ \E uid : GotoWith(q, "update_password", [NoLocals EXCEPT !.uid = uid])
        \/ \E uid, up : GotoWith(q, "update_password", [NoLocals EXCEPT !.uid = uid, !.up = up])
    BY <1>3 DEF RegisterFind, RefreshFind, RefreshUser,
        RefreshSave, Logout, LogoutOthers, ResetFind, ChangeFind, UpdatePassword, DropSessions,
        PatchUser, DeleteUser, OtpStart, OtpRefused, SendOtp, MailFails
  <2>4. CASE \E m \in {"create_user", "refresh_save", "drop_sessions", "otp"} : Goto(q, m)
    BY <2>2, <2>4 DEF Goto, LoginSteps
  <2>5. ASSUME NEW uid, NEW sid
        PROVE  [NoLocals EXCEPT !.uid = uid, !.sid = sid].ver = 0
    BY DEF NoLocals
  <2>6. ASSUME NEW uid, NEW up
        PROVE  /\ [NoLocals EXCEPT !.uid = uid].ver = 0
               /\ [NoLocals EXCEPT !.uid = uid, !.up = up].ver = 0
    BY DEF NoLocals
  <2>7. CASE \E l : l.ver = 0 /\ \E m \in {"refresh_user", "update_password"} : GotoWith(q, m, l)
    BY <2>7 DEF GotoWith, LoginSteps
  <2> QED  BY <1>2, <2>3, <2>4, <2>5, <2>6, <2>7
<1>4. ASSUME AssignRole(q) \/ UpdateRoleFind(q) \/ RoleRead(q) \/ RoleApply(q)
      PROVE  Goal
  <2>1. pc[q] \notin LoginSteps
    BY <1>4 DEF LoginSteps, Arrives, AssignRole, UpdateRoleFind, RoleRead, RoleApply
  <2>2. mine[q].ver = 0
    BY <1>1, <2>1
  <2>3. /\ \A uid : [mine[q] EXCEPT !.uid = uid].ver = 0
        /\ \A old, todo : [mine[q] EXCEPT !.old = old, !.todo = todo].ver = 0
        /\ \A todo : [mine[q] EXCEPT !.todo = todo].ver = 0
        /\ \A role : [NoLocals EXCEPT !.role = role].ver = 0
    BY <2>2 DEF LocalRows, NoLocals
  <2> DEFINE Places == {"assign_load", "role_load", "assign_add", "role_read", "role_apply"}
  <2>4. Finish(q) \/ \E l : l.ver = 0 /\ \E m \in Places : GotoWith(q, m, l)
    <3>1. CASE AssignRole(q) \/ UpdateRoleFind(q)
      BY <2>3, <3>1 DEF AssignRole, UpdateRoleFind
    <3>2. CASE RoleRead(q)
      BY <2>3, <3>2 DEF RoleRead
    <3>3. CASE RoleApply(q)
      BY <2>3, <3>3 DEF RoleApply
    <3> QED  BY <1>4, <3>1, <3>2, <3>3
  <2>5. CASE \E l : l.ver = 0 /\ \E m \in Places : GotoWith(q, m, l)
    BY <2>5 DEF GotoWith, LoginSteps
  <2> QED  BY <1>2, <2>4, <2>5
<1>5. ASSUME LoginFind(q) \/ GoogleFind(q) \/ OtpFind(q)
      PROVE  Goal
  <2>1. UNCHANGED user /\ mine[q].ver = 0
    BY <1>1, <1>5 DEF LoginFind, GoogleFind, OtpFind, Arrives, userVars, LoginSteps
  <2>2. \/ Finish(q) \/ Goto(q, "create_user")
        \/ user # NoUser /\ \E m \in {"count", "link", "otp_spend"} : GotoWith(q, m, Locals(user))
    BY <1>5 DEF LoginFind, GoogleFind, OtpFind
  <2> QED  BY <1>2, <2>1, <2>2 DEF Goto, GotoWith, LoginSteps
<1>6. ASSUME AddFirstRole(q) \/ LinkGoogle(q) \/ ReloadUser(q) \/ CreateSession(q) \/ OtpSpend(q)
      PROVE  Goal
  <2>1. Finish(q) \/ (pc[q] \in LoginSteps \ {"evict"} /\ \E m \in {"count", "create"} : Goto(q, m))
    BY <1>6 DEF AddFirstRole, LinkGoogle, ReloadUser, CreateSession, OtpSpend, LoginSteps
  <2> QED  BY <1>1, <1>2, <2>1 DEF Goto, LoginSteps
<1>7. ASSUME CountSessions(q)
      PROVE  Goal
  <2>1. pc[q] = "count" /\ pc[q] \in LoginSteps
    BY <1>7 DEF CountSessions, LoginSteps
  <2>2. \/ \E m \in {"reload", "create"} : Goto(q, m)
        \/ \E S : GotoWith(q, "evict", [mine[q] EXCEPT !.list = S])
    BY <1>7 DEF CountSessions, CreateOrReload
  <2>3. CASE \E m \in {"reload", "create"} : Goto(q, m)
    BY <1>1, <2>1, <2>3 DEF Goto, LoginSteps
  <2>4. CASE \E S : GotoWith(q, "evict", [mine[q] EXCEPT !.list = S])
    BY <2>1, <2>4 DEF GotoWith, LoginSteps, LocalRows
  <2> QED  BY <2>2, <2>3, <2>4
<1>8. ASSUME EvictOne(q)
      PROVE  Goal
  <2>1. PICK s \in mine[q].list :
            GotoWith(q, IF mine[q].list = {s} THEN CreateOrReload(q) ELSE "evict",
                     [mine[q] EXCEPT !.list = @ \ {s}])
    BY <1>8 DEF EvictOne
  <2>2. /\ mine'[q].list = mine[q].list \ {s}
        /\ mine'[q].uid = mine[q].uid /\ mine'[q].ver = mine[q].ver
        /\ pc'[q] = IF mine[q].list = {s} THEN CreateOrReload(q) ELSE "evict"
    BY <2>1 DEF GotoWith, LocalRows
  <2>3. pc[q] = "evict"  BY <1>8 DEF EvictOne
  <2> QED  BY <2>2, <2>3 DEF LoginSteps, CreateOrReload
<1>9. ASSUME CreateUser(q)
      PROVE  Goal
  <2>1. CASE GotoWith(q, "add_first_role",
                      [NoLocals EXCEPT !.uid = lastId + 1, !.ver = 1, !.made = op[q] = "google"])
    BY <1>9, <2>1 DEF GotoWith, NoLocals
  <2> QED  BY <1>2, <1>9, <2>1 DEF CreateUser
<1>10. CASE Fail(q)
  BY <1>2, <1>10 DEF Fail
<1> QED
  BY <1>3, <1>4, <1>5, <1>6, <1>7, <1>8, <1>9, <1>10
  DEF RequestNext, Register, Login, UseOtp, Refresh, SetPassword, SetRoles

LEMMA LoginStageNext ==
    ASSUME TypeInv, SessionInv, Next, NEW q \in Requests
    PROVE  LoginStage(q)'
<1> USE DEF TypeInv, BaseTypes
<1>1. VerKeeps /\ spared \subseteq spared'
  BY VerKeepsNext, NotesMoveNext DEF NotesMove
<1>2. /\ mine[q].ver \in Nat /\ LoginStage(q) /\ mine[q].uid \in 0..lastId
      /\ user # NoUser => user.ver > 0
  BY DEF SessionInv, LocalRows, KnownUsers
<1>3. ASSUME Loaded(mine[q].uid)'
      PROVE  Unmoved(q) \/ mine'[q].uid = mine[q].uid =>
               /\ Loaded(mine[q].uid)
               /\ user'.ver = user.ver \/ (mine[q].ver > 0 => q \in spared')
  BY <1>1, <1>2, <1>3 DEF Unmoved, VerKeeps, Loaded
<1>4. CASE Unmoved(q)
  BY <1>1, <1>2, <1>3, <1>4 DEF Unmoved, LoginStage
<1>5. CASE pc'[q] \notin LoginSteps /\ mine'[q].ver = 0
  BY <1>5 DEF LoginStage
<1>6. CASE /\ pc[q] \in LoginSteps /\ pc'[q] \in LoginSteps
           /\ mine'[q].uid = mine[q].uid /\ mine'[q].ver = mine[q].ver
           /\ pc'[q] # "evict" => mine'[q].list = {}
  BY <1>1, <1>2, <1>3, <1>6 DEF LoginStage
<1>7. CASE /\ pc'[q] \in {"count", "link", "otp_spend"} /\ UNCHANGED user
           /\ user # NoUser /\ mine'[q] = Locals(user)
  <2>1. Locals(user).ver = user.ver /\ Locals(user).list = {}
    BY DEF Locals, NoLocals
  <2> QED  BY <1>2, <1>7, <2>1 DEF LoginStage, LoginSteps
<1>8. CASE /\ pc'[q] = "add_first_role" /\ CreateUser(q)
           /\ mine'[q].uid = lastId + 1 /\ mine'[q].ver = 1 /\ mine'[q].list = {}
  <2>1. Loaded(mine[q].uid)' => user'.ver = 1
    BY <1>1, <1>2, <1>8 DEF VerKeeps, Loaded, KnownUsers
  <2> QED  BY <1>8, <2>1 DEF LoginStage, LoginSteps
<1> QED  BY <1>4, <1>5, <1>6, <1>7, <1>8, LoginPlaces

LEMMA SidsAreFew ==
    ASSUME NEW S, IsFiniteSet(S)
    PROVE  IsFiniteSet(SidsOf(S)) /\ Cardinality(SidsOf(S)) <= Cardinality(S)
<1> DEFINE f == [s \in S |-> s.id]
<1>1. SidsOf(S) = {f[s] : s \in S}
  BY DEF SidsOf
<1> HIDE DEF f
<1> QED  BY <1>1, ImageOf

(* A session that goes is known to the refreshes that have loaded it.       *)
LEMMA WhatLeaves ==
    ASSUME TypeInv, Next, NEW q \in Requests, Refreshing(q), mine[q].sid \in Held
    PROVE  mine[q].sid \in Held' \/ q \in late'
<1>1. ASSUME NEW S, DeleteSessions(S)
      PROVE  mine[q].sid \in Held' \/ q \in late'
  BY <1>1 DEF DeleteSessions, Refreshing, Held, SidsOf
<1>2. CASE UNCHANGED sessions
  BY <1>2 DEF Held, SidsOf
<1>3. CASE \E r \in Requests : CreateSession(r)
  BY <1>3 DEF CreateSession, Held, SidsOf
<1>4. ASSUME NEW r \in Requests, RefreshSave(r)
      PROVE  Held \subseteq Held'
  <2>1. ASSUME NEW s \in sessions
        PROVE  \E t \in sessions' : t.id = s.id
    <3> DEFINE t == IF s.id = mine[r].sid /\ s.age = "rolled" THEN [s EXCEPT !.age = "fresh"] ELSE s
    <3>1. t \in sessions'
      BY <1>4 DEF RefreshSave
    <3>2. t.id = s.id
      BY DEF TypeInv, BaseTypes, Rows
    <3> QED  BY <3>1, <3>2
  <2> QED  BY <2>1 DEF Held, SidsOf
<1>5. ASSUME NEW z \in sessions, SessionAges(z)
      PROVE  Held \subseteq Held'
  <2>1. PICK age \in {"rolled", "final"} : sessions' = (sessions \ {z}) \cup {[z EXCEPT !.age = age]}
    BY <1>5 DEF SessionAges
  <2>2. [z EXCEPT !.age = age].id = z.id
    BY DEF TypeInv, BaseTypes, Rows
  <2> QED  BY <2>1, <2>2 DEF Held, SidsOf
<1>6. QED
  BY <1>1, <1>2, <1>3, <1>4, <1>5, ZenonT(60)
  DEF Next, Register, Login, UseOtp, Refresh, SetPassword, SetRoles, RegisterFind, CreateUser,
      AddFirstRole, LoginFind, GoogleFind, LinkGoogle, CountSessions, EvictOne, ReloadUser,
      OtpStart, OtpRefused, OtpFind, OtpSpend, SendOtp, RefreshFind, RefreshUser, Logout,
      LogoutOthers, ResetFind, ChangeFind, UpdatePassword, DropSessions, PatchUser, DeleteUser, AssignRole,
      UpdateRoleFind, RoleRead, RoleApply, Fail, MailFails, CleanSessions, CodeExpires, sessionVars

LEMMA RefreshNext ==
    ASSUME TypeInv, SessionInv, Next, NEW q \in Requests, Refreshing(q)', q \notin late'
    PROVE  mine'[q].sid \in Held'
<1> USE DEF TypeInv, BaseTypes
<1>1. q \notin late /\ (Refreshing(q) => mine[q].sid \in Held)
  BY NotesMoveNext DEF NotesMove, SessionInv
<1>2. CASE Unmoved(q)
  BY <1>1, <1>2, WhatLeaves DEF Unmoved, Refreshing
<1>3. CASE RefreshFind(q)
  <2>1. PICK t \in tokens : \/ /\ \E s \in sessions : s.id = t.id
                               /\ mine' = [mine EXCEPT ![q] = [NoLocals EXCEPT !.uid = t.uid, !.sid = t.id]]
                            \/ pc' = [pc EXCEPT ![q] = "done"]
    BY <1>3 DEF RefreshFind, GotoWith, Finish
  <2>2. \E s \in sessions : s.id = t.id /\ mine'[q].sid = t.id
    BY <2>1 DEF Refreshing, NoLocals
  <2> QED  BY <1>3, <2>2 DEF RefreshFind, sessionVars, Held, SidsOf
<1>4. CASE RefreshUser(q)
  <2>1. pc[q] = "refresh_user" /\ mine' = mine /\ UNCHANGED sessions
    BY <1>4 DEF RefreshUser, Goto, Finish, GotoWith, Refreshing, sessionVars
  <2> QED  BY <1>1, <2>1 DEF Refreshing, Held, SidsOf
<1>5. ASSUME RequestNext(q)
      PROVE  RefreshFind(q) \/ RefreshUser(q)
  BY <1>5 DEF Refreshing, Goto, GotoWith, Finish, CreateOrReload,
      RequestNext, Register, Login, UseOtp, Refresh, SetPassword, SetRoles,
      RegisterFind, CreateUser, AddFirstRole, LoginFind, GoogleFind, LinkGoogle, CountSessions,
      EvictOne, ReloadUser, CreateSession, OtpStart, OtpRefused, OtpFind, OtpSpend, SendOtp,
      RefreshSave, Logout, LogoutOthers, ResetFind, ChangeFind,
      UpdatePassword, DropSessions, PatchUser, DeleteUser, AssignRole, UpdateRoleFind, RoleRead, RoleApply,
      Fail, MailFails
<1> QED  BY <1>2, <1>3, <1>4, <1>5, OthersUnmoved

(* A session of an old password: the change that made it old is about to    *)
(* delete it, unless the login was under way or the deletion died.          *)
LEMMA OldPasswordNext ==
    ASSUME TypeInv, SessionInv, Next
    PROVE  OldPasswordEndsSessions'
<1> USE DEF TypeInv, BaseTypes
<1>1. VerKeeps /\ SessionMoves /\ KnownSessions' /\ spared \subseteq spared'
  BY VerKeepsNext, SessionMovesNext, BaseTypesNext, NotesMoveNext DEF NotesMove
<1> SUFFICES ASSUME NEW s \in sessions', s.ver < user'.ver, s.id \notin spared'
             PROVE  \E r \in Requests : pc'[r] = "drop_sessions" /\ mine'[r].uid = user'.id
  BY DEF OldPasswordEndsSessions
<1>2. user' # NoUser /\ user'.id = s.uid
  BY <1>1 DEF KnownSessions, Loaded
<1>3. CASE \E r \in Requests : Created(r)
  <2>1. PICK r \in Requests : Created(r)
    BY <1>3
  <2>2. CASE s \in sessions
    <3>1. user' = user /\ pc' = [pc EXCEPT ![r] = "done"] /\ pc[r] = "create"
      BY <2>1 DEF Created, userVars
    <3>2. PICK q \in Requests : pc[q] = "drop_sessions" /\ mine[q].uid = user.id
      BY <1>1, <2>2, <3>1 DEF SessionInv, OldPasswordEndsSessions
    <3>3. Unmoved(q)
      BY <3>1, <3>2, OthersUnmoved DEF Unmoved
    <3> QED  BY <3>1, <3>2, <3>3 DEF Unmoved
  <2>3. CASE s = SessionOf(r, mine[r])
    <3>1. s.id = r /\ s.ver = mine[r].ver /\ user' = user
      BY <2>1, <2>3 DEF SessionOf, Session, Created, userVars
    <3>2. mine[r].ver = user.ver
      BY <1>1, <2>1, <3>1 DEF Created, SessionInv, LoginStage, LoginSteps
    <3> QED  BY <1>2, <3>1, <3>2 DEF Users
  <2> QED  BY <2>1, <2>2, <2>3 DEF Created
<1>4. CASE sessions' \subseteq sessions \/ Renewed
  <2>1. PICK t \in sessions : s.id = t.id /\ s.uid = t.uid /\ s.ver = t.ver
    BY <1>4 DEF Renewed
  <2>2. user # NoUser /\ user.id = t.uid
    BY DEF KnownSessions, Loaded
  <2>3. CASE user'.ver = user.ver
    <3>1. PICK q \in Requests : pc[q] = "drop_sessions" /\ mine[q].uid = user.id
      BY <1>1, <2>1, <2>3 DEF SessionInv, OldPasswordEndsSessions
    <3>2. CASE Unmoved(q)
      BY <1>2, <2>1, <2>2, <3>1, <3>2 DEF Unmoved
    <3>3. CASE RequestNext(q)
      <4>1. DropSessions(q) \/ Fail(q)
        <5>1. ~MailFails(q)
          BY <3>1 DEF MailFails, SendMailFails, GoOtp, EndOtp, OtpStage, SendSteps
        <5> QED
          BY <3>1, <3>3, <5>1 DEF Arrives, RequestNext, Register, Login, UseOtp, Refresh,
            SetPassword, SetRoles,
            RegisterFind, CreateUser, AddFirstRole, LoginFind, GoogleFind, LinkGoogle, CountSessions,
            EvictOne, ReloadUser, CreateSession, OtpStart, OtpRefused, OtpFind, OtpSpend, SendOtp,
            RefreshFind, RefreshUser, RefreshSave, Logout, LogoutOthers, ResetFind, ChangeFind,
            UpdatePassword, PatchUser, DeleteUser, AssignRole, UpdateRoleFind, RoleRead, RoleApply
      <4>2. CASE DropSessions(q)
        <5>1. \A u \in sessions : u.uid = mine[q].uid
          BY <3>1 DEF KnownSessions, Loaded
        <5>2. sessions' = {}
          BY <4>2, <5>1 DEF DropSessions, DeleteSessions, SidsOf
        <5> QED  BY <5>2
      <4>3. CASE Fail(q)
        <5>1. SidsOf(sessions) \subseteq spared'
          BY <3>1, <4>3 DEF Fail
        <5> QED  BY <2>1, <5>1 DEF SidsOf
      <4> QED  BY <4>1, <4>2, <4>3
    <3> QED  BY <3>2, <3>3, OthersUnmoved
  <2>4. CASE user'.ver # user.ver
    <3>1. \E r \in Requests : pc'[r] = "drop_sessions" /\ mine'[r].uid = user.id
      BY <1>1, <1>2, <2>1, <2>2, <2>4 DEF VerKeeps, SidsOf
    <3> QED  BY <1>2, <2>1, <2>2, <3>1
  <2> QED  BY <2>3, <2>4
<1> QED  BY <1>1, <1>3, <1>4 DEF SessionMoves

(* How a request enters the part of a login that the limit is about, moves  *)
(* in it and leaves it.                                                     *)
Enters(q) ==
    \/ CountSessions(q)
    \/ CreateUser(q) /\ op[q] = "register" /\ pc'[q] = "add_first_role"

LEMMA CreatingPlaces ==
    ASSUME TypeInv, AccountInv, Next, NEW q \in Requests
    PROVE  \/ Unmoved(q)
           \/ Enters(q)
           \/ q \notin Creating' /\ (q \in Creating => pc'[q] = "done")
           \/ /\ q \in Creating \cap Creating' /\ mine'[q].uid = mine[q].uid
              /\ mine'[q].list = mine[q].list \/ EvictOne(q)
<1> USE DEF TypeInv, BaseTypes
<1> DEFINE Goal == \/ Enters(q)
                   \/ q \notin Creating' /\ (q \in Creating => pc'[q] = "done")
                   \/ /\ q \in Creating \cap Creating' /\ mine'[q].uid = mine[q].uid
                      /\ mine'[q].list = mine[q].list \/ EvictOne(q)
<1>1. Unmoved(q) \/ RequestNext(q)
  BY OthersUnmoved
<1>2. UNCHANGED op
  BY NotesMoveNext DEF NotesMove
<1>3. ASSUME Finish(q)
      PROVE  Goal
  BY <1>3 DEF Finish, GotoWith, Creating
<1>4. ASSUME RegisterFind(q) \/ RefreshFind(q) \/ RefreshUser(q) \/ RefreshSave(q) \/ Logout(q)
             \/ LogoutOthers(q) \/ ResetFind(q) \/ ChangeFind(q) \/ UpdatePassword(q)
             \/ DropSessions(q) \/ PatchUser(q) \/ DeleteUser(q) \/ OtpStart(q) \/ OtpRefused(q) \/ SendOtp(q)
             \/ AssignRole(q) \/ UpdateRoleFind(q) \/ RoleRead(q) \/ RoleApply(q)
             \/ LoginFind(q) \/ GoogleFind(q) \/ LinkGoogle(q) \/ OtpFind(q) \/ OtpSpend(q)
      PROVE  q \notin Creating /\ q \notin Creating'
  <2>1. q \notin Creating
    BY <1>4 DEF Creating, Arrives, RegisterFind, RefreshFind, RefreshUser, RefreshSave, Logout,
      LogoutOthers, ResetFind, ChangeFind, UpdatePassword, DropSessions, PatchUser, DeleteUser, OtpStart,
      OtpRefused, SendOtp, AssignRole, UpdateRoleFind, RoleRead, RoleApply, LoginFind, GoogleFind,
      LinkGoogle, OtpFind, OtpSpend
  <2>2. pc'[q] \notin {"evict", "reload", "create", "add_first_role"}
    BY <1>4 DEF Goto, GotoWith, Finish, RegisterFind, RefreshFind, RefreshUser, RefreshSave, Logout,
      LogoutOthers, ResetFind, ChangeFind, UpdatePassword, DropSessions, PatchUser, DeleteUser, OtpStart,
      OtpRefused, SendOtp, AssignRole, UpdateRoleFind, RoleRead, RoleApply, LoginFind, GoogleFind,
      LinkGoogle, OtpFind, OtpSpend
  <2> QED  BY <2>1, <2>2 DEF Creating
<1>5. ASSUME MailFails(q)
      PROVE  q \notin Creating /\ q \notin Creating'
  <2>1. otp[q].at = "mail"
    BY <1>5 DEF MailFails, SendMailFails, GoOtp, EndOtp
  <2>2. pc[q] = "otp"
    BY <2>1 DEF OtpStage, SendSteps
  <2>3. pc'[q] \in {"otp", "done"}
    BY <1>5 DEF MailFails, Goto, Finish, GotoWith
  <2> QED  BY <2>2, <2>3 DEF Creating
<1>6. ASSUME AddFirstRole(q)
      PROVE  Goal
  <2>1. pc[q] = "add_first_role" /\ op[q] \in {"register", "google"}
    BY <1>6 DEF AddFirstRole, AccountInv, RowStage
  <2>2. CASE Goto(q, "create") /\ op[q] = "register"
    BY <1>2, <2>1, <2>2 DEF Goto, Creating
  <2>3. CASE Goto(q, "count") /\ op[q] = "google"
    BY <1>2, <2>1, <2>3 DEF Goto, Creating
  <2> QED  BY <1>3, <1>6, <2>1, <2>2, <2>3 DEF AddFirstRole
<1>7. ASSUME CreateUser(q)
      PROVE  Goal
  <2>1. pc[q] = "create_user" /\ op[q] \in {"register", "google"}
    BY <1>7 DEF CreateUser, AccountInv, RowStage
  <2>2. CASE pc'[q] = "add_first_role"
    BY <1>2, <1>7, <2>1, <2>2 DEF Enters, Creating
  <2> QED  BY <1>3, <1>7, <2>1, <2>2 DEF CreateUser, GotoWith
<1>8. ASSUME EvictOne(q)
      PROVE  Goal
  <2>1. PICK s \in mine[q].list :
            GotoWith(q, IF mine[q].list = {s} THEN CreateOrReload(q) ELSE "evict",
                     [mine[q] EXCEPT !.list = @ \ {s}])
    BY <1>8 DEF EvictOne
  <2>2. mine'[q].uid = mine[q].uid
    BY <2>1 DEF GotoWith, LocalRows
  <2>3. pc[q] = "evict" /\ pc'[q] \in {"evict", "reload", "create"}
    BY <1>8, <2>1 DEF EvictOne, GotoWith, CreateOrReload
  <2> QED  BY <1>8, <2>2, <2>3 DEF Creating
<1>9. ASSUME ReloadUser(q) \/ CreateSession(q) \/ Fail(q)
      PROVE  Goal
  <2>1. Finish(q) \/ (pc[q] = "reload" /\ Goto(q, "create"))
    BY <1>9 DEF ReloadUser, CreateSession, Fail
  <2> QED  BY <1>3, <2>1 DEF Goto, Creating
<1>10. CASE CountSessions(q)
  BY <1>10 DEF Enters
<1> QED
  BY <1>1, <1>4, <1>5, <1>6, <1>7, <1>8, <1>9, <1>10
  DEF RequestNext, Register, Login, UseOtp, Refresh, SetPassword, SetRoles

(* A login that enters is the only one to move, and notes the others.       *)
LEMMA EntersAlone ==
    ASSUME TypeInv, SessionInv, Next, NEW r \in Requests, Enters(r)
    PROVE  /\ \A q \in Requests \ {r} : Unmoved(q)
           /\ UNCHANGED sessions
           /\ r \notin Creating /\ Creating' = Creating \cup {r} /\ r \notin rushed
           /\ rushed' = IF Creating = {} THEN rushed ELSE rushed \cup Creating \cup {r}
<1> USE DEF TypeInv, BaseTypes
<1>1. pc[r] \in {"count", "create_user"} /\ UNCHANGED <<op, sessions>>
  BY DEF Enters, CountSessions, CreateUser, sessionVars
<1>2. pc'[r] \in {"evict", "reload", "create"} \/ (pc'[r] = "add_first_role" /\ op[r] = "register")
  BY DEF Enters, CountSessions, CreateOrReload, Goto, GotoWith
<1>3. \A q \in Requests \ {r} : Unmoved(q)
  BY DEF Enters, CountSessions, CreateUser, Goto, GotoWith, Finish, Unmoved
<1>4. r \notin Creating /\ Creating' = Creating \cup {r}
  BY <1>1, <1>2, <1>3 DEF Creating, Unmoved
<1>5. r \notin rushed
  BY <1>1, <1>4 DEF SessionInv, RoomIsMade
<1>6. rushed' = IF Creating = {} THEN rushed ELSE rushed \cup Creating \cup {r}
  BY <1>1 DEF Enters, CountSessions, CreateUser, Finish, GotoWith
<1> QED  BY <1>1, <1>3, <1>4, <1>5, <1>6

(* What has been counted is what there is, and enough of it is on the list. *)
LEMMA CountedEnough ==
    ASSUME TypeInv, SessionInv, Next, NEW r \in Requests, Enters(r), Loaded(mine[r].uid)'
    PROVE  Cardinality(Left(r)') < Limit
<1> USE DEF TypeInv, BaseTypes
<1>0. Limit \in Nat \ {0} /\ UNCHANGED sessions
  BY AccountsAssumption, EntersAlone
<1>1. CASE CreateUser(r) /\ pc'[r] = "add_first_role"
  <2>1. user = NoUser
    BY <1>1 DEF CreateUser, Finish, GotoWith
  <2>2. sessions = {}
    BY <2>1 DEF KnownSessions, Loaded
  <2>3. Left(r)' = {}
    BY <1>0, <2>2 DEF Left, Held, SidsOf
  <2> QED  BY <1>0, <2>3, FS_EmptySet
<1>2. CASE CountSessions(r)
  <2>1. mine'[r].uid = mine[r].uid /\ UNCHANGED user
    BY <1>2 DEF CountSessions, Goto, GotoWith, LocalRows, userVars
  <2>2. {s \in sessions : s.uid = mine[r].uid} = sessions
    BY <2>1 DEF KnownSessions, Loaded
  <2>3. Cardinality(sessions) \in Nat
    BY FS_CardinalityType
  <2>4. CASE /\ Cardinality(sessions) >= Limit
             /\ \E oldest \in Oldest(Cardinality(sessions) - Limit + 1, sessions) :
                   GotoWith(r, "evict", [mine[r] EXCEPT !.list = oldest])
    <3>1. PICK oldest \in Oldest(Cardinality(sessions) - Limit + 1, sessions) :
              GotoWith(r, "evict", [mine[r] EXCEPT !.list = oldest])
      BY <2>4
    <3>2. /\ oldest \in SUBSET sessions
          /\ Cardinality(oldest) = Cardinality(sessions) - Limit + 1
      BY <3>1 DEF Oldest
    <3>3. mine'[r].list = oldest
      BY <3>1 DEF GotoWith, LocalRows
    <3>4. IsFiniteSet(sessions \ oldest) /\ Cardinality(sessions \ oldest) = Limit - 1
      <4>1. sessions \cap oldest = oldest
        BY <3>2
      <4>2. /\ IsFiniteSet(sessions \ oldest)
            /\ Cardinality(sessions \ oldest) = Cardinality(sessions) - Cardinality(sessions \cap oldest)
        BY FS_Difference
      <4>3. Cardinality(sessions \cap oldest) = Cardinality(sessions) - Limit + 1
        BY <3>2, <4>1
      <4>4. Cardinality(sessions \ oldest) = Cardinality(sessions) - (Cardinality(sessions) - Limit + 1)
        BY <4>2, <4>3
      <4> QED  BY ONLY AccountsAssumption, <2>3, <4>2, <4>4
    <3>5. Left(r)' \subseteq SidsOf(sessions \ oldest)
      BY <1>0, <3>3 DEF Left, Held, SidsOf
    <3>6. /\ IsFiniteSet(SidsOf(sessions \ oldest))
          /\ Cardinality(SidsOf(sessions \ oldest)) <= Limit - 1
      BY <3>4, SidsAreFew
    <3>7. /\ Cardinality(Left(r)') <= Cardinality(SidsOf(sessions \ oldest))
          /\ IsFiniteSet(Left(r)')
      BY <3>5, <3>6, FS_Subset
    <3> QED  BY <1>0, <3>6, <3>7, FS_CardinalityType
  <2>5. CASE Cardinality(sessions) < Limit
    <3>1. IsFiniteSet(SidsOf(sessions)) /\ Cardinality(SidsOf(sessions)) <= Cardinality(sessions)
      BY SidsAreFew
    <3>2. Left(r)' \subseteq SidsOf(sessions)
      BY <1>0 DEF Left, Held, SidsOf
    <3>3. IsFiniteSet(Left(r)') /\ Cardinality(Left(r)') <= Cardinality(SidsOf(sessions))
      BY <3>1, <3>2, FS_Subset
    <3> QED  BY <1>0, <2>3, <2>5, <3>1, <3>3, FS_CardinalityType
  <2> QED  BY <1>2, <2>2, <2>4, <2>5 DEF CountSessions
<1> QED  BY <1>1, <1>2 DEF Enters

(* A step in which no login enters: the sessions that are left after an     *)
(* eviction shrink, or one login, which had made room, creates its own.     *)
Shrinks ==
    /\ Held' \subseteq Held
    /\ \A q \in Creating' : Left(q)' \subseteq Left(q)

LEMMA NoneEnters ==
    ASSUME TypeInv, AccountInv, SessionInv, Next, \A r \in Requests : ~Enters(r)
    PROVE  /\ UNCHANGED rushed
           /\ \A q \in Requests : q \in Creating' => q \in Creating /\ mine'[q].uid = mine[q].uid
           /\ \A q \in Requests : q \in Creating \ Creating' \/ pc[q] = "done" => pc'[q] = "done"
           /\ Shrinks \/ \E r \in Requests : Created(r)
<1> USE DEF TypeInv, BaseTypes
<1>0. UNCHANGED op
  BY NotesMoveNext DEF NotesMove
<1>1. UNCHANGED rushed
  <2>1. ASSUME NEW r \in Requests, CreateUser(r)
        PROVE  UNCHANGED rushed
    <3>1. pc[r] = "create_user"
      BY <2>1 DEF CreateUser
    <3>2. op[r] \in {"register", "google"}
      BY <3>1 DEF AccountInv, RowStage
    <3> QED  BY <2>1, <3>1, <3>2 DEF Enters, CreateUser, GotoWith
  <2>2. \A r \in Requests : ~CountSessions(r)
    BY DEF Enters
  <2> QED
    BY <2>1, <2>2, ZenonT(60) DEF Next, Register, Login, UseOtp, Refresh, SetPassword, SetRoles, RegisterFind,
      AddFirstRole, LoginFind, GoogleFind, LinkGoogle, EvictOne, ReloadUser, CreateSession,
      OtpStart, OtpRefused, OtpFind, OtpSpend, SendOtp, RefreshFind, RefreshUser, RefreshSave,
      Logout, LogoutOthers, ResetFind, ChangeFind, UpdatePassword, DropSessions, PatchUser, DeleteUser,
      AssignRole, UpdateRoleFind, RoleRead, RoleApply, Fail, MailFails, SessionAges,
      CleanSessions, CodeExpires, notes
<1>2. \A q \in Requests : pc[q] = "done" => pc'[q] = "done"
  BY RequestMovesNext DEF RequestMoves, GotoWith
<1>3. ASSUME NEW q \in Requests
      PROVE  /\ q \in Creating' => q \in Creating /\ mine'[q].uid = mine[q].uid
             /\ q \in Creating' => mine'[q].list = mine[q].list \/ EvictOne(q)
             /\ q \in Creating \ Creating' => pc'[q] = "done"
  <2>1. CASE Unmoved(q)
    BY <1>0, <2>1 DEF Unmoved, Creating
  <2>2. CASE ~Unmoved(q)
    BY <2>2, CreatingPlaces
  <2> QED  BY <2>1, <2>2
<1>4. CASE Held' \subseteq Held
  <2>1. ASSUME NEW q \in Creating'
        PROVE  Left(q)' \subseteq Left(q)
    <3>1. q \in Requests
      BY DEF Creating
    <3>2. CASE mine'[q].list = mine[q].list
      BY <1>4, <3>2 DEF Left
    <3>3. CASE EvictOne(q)
      <4>1. PICK s \in mine[q].list :
                /\ DeleteSessions({s.id})
                /\ GotoWith(q, IF mine[q].list = {s} THEN CreateOrReload(q) ELSE "evict",
                            [mine[q] EXCEPT !.list = @ \ {s}])
        BY <3>3 DEF EvictOne
      <4>2. mine'[q].list = mine[q].list \ {s}
        BY <3>1, <4>1 DEF GotoWith, LocalRows
      <4>3. s.id \notin Held'
        BY <4>1 DEF DeleteSessions, Held, SidsOf
      <4> QED  BY <1>4, <4>2, <4>3 DEF Left, SidsOf
    <3> QED  BY <1>3, <3>1, <3>2, <3>3
  <2> QED  BY <1>1, <1>2, <1>3, <1>4, <2>1 DEF Shrinks
<1>5. CASE \E r \in Requests : Created(r)
  BY <1>1, <1>2, <1>3, <1>5
<1>6. CASE sessions' \subseteq sessions \/ Renewed
  BY <1>4, <1>6 DEF Held, SidsOf, Renewed
<1> QED  BY <1>5, <1>6, SessionMovesNext DEF SessionMoves

LEMMA RoomNext ==
    ASSUME TypeInv, AccountInv, SessionInv, Next
    PROVE  RoomIsMade'
<1> USE DEF TypeInv, BaseTypes
<1>1. /\ Limit \in Nat \ {0}
      /\ IsFiniteSet(Held) /\ IsFiniteSet(Held')
      /\ IsFiniteSet(rushed) /\ IsFiniteSet(rushed')
      /\ Cardinality(Held) \in Nat /\ Cardinality(Held') \in Nat
      /\ rushed \subseteq rushed' /\ rushed' \subseteq Requests
  <2>1. IsFiniteSet(sessions')
    BY BaseTypesNext
  <2>2. IsFiniteSet(Held) /\ IsFiniteSet(Held')
    BY <2>1, SidsAreFew DEF Held
  <2>3. rushed \subseteq rushed' /\ rushed' \subseteq Requests
    BY NotesMoveNext DEF NotesMove
  <2>4. IsFiniteSet(rushed) /\ IsFiniteSet(rushed')
    BY <2>3, OtpAssumption, FS_Subset
  <2> QED  BY <2>2, <2>3, <2>4, AccountsAssumption, FS_CardinalityType
<1>2. /\ \A r \in rushed : r \in Creating \/ pc[r] = "done"
      /\ \A r \in Creating : r \notin rushed => Creating = {r}
      /\ \A r \in Creating : (rushed \subseteq Creating \/ r \notin rushed) /\ Loaded(mine[r].uid) =>
            Cardinality(Left(r)) < Limit
      /\ \/ Cardinality(Held) <= Limit
         \/ Cardinality(Held) < Limit + Cardinality(rushed \ Creating)
  BY DEF SessionInv, RoomIsMade
<1>3. /\ Creating \subseteq Requests /\ Creating' \subseteq Requests
      /\ IsFiniteSet(rushed \ Creating) /\ Cardinality(rushed \ Creating) \in Nat
      /\ IsFiniteSet((rushed \ Creating)') /\ Cardinality((rushed \ Creating)') \in Nat
  BY <1>1, FS_Difference, FS_CardinalityType DEF Creating
<1>4. CASE \E r \in Requests : Enters(r)
  <2>1. PICK r \in Requests : Enters(r)
    BY <1>4
  <2>2. /\ \A q \in Requests \ {r} : Unmoved(q)
        /\ Held' = Held
        /\ r \notin Creating /\ Creating' = Creating \cup {r} /\ r \notin rushed
        /\ rushed' = IF Creating = {} THEN rushed ELSE rushed \cup Creating \cup {r}
    BY <2>1, EntersAlone DEF Held
  <2>3. \A q \in rushed' : q \in Creating' \/ pc'[q] = "done"
    BY <1>2, <1>3, <1>1, <2>2 DEF Unmoved
  <2>4. \A q \in Creating' : q \notin rushed' => Creating' = {q}
    BY <1>2, <2>2
  <2>5. ASSUME NEW q \in Creating', rushed' \subseteq Creating' \/ q \notin rushed', Loaded(mine[q].uid)'
        PROVE  Cardinality(Left(q)') < Limit
    <3>1. CASE q = r
      BY <2>1, <2>5, <3>1, CountedEnough
    <3>2. CASE q # r
      <4>1. q \in Creating /\ rushed \subseteq Creating
        BY <2>2, <2>5, <3>2
      <4>2. Unmoved(q)
        BY <1>3, <2>2, <3>2
      <4>3. Left(q)' = Left(q) /\ Loaded(mine[q].uid)
        <5>1. mine[q].uid \in 0..lastId /\ mine'[q].uid = mine[q].uid
          BY <1>3, <4>2 DEF KnownUsers, Unmoved
        <5>2. Loaded(mine[q].uid)
          BY <2>5, <5>1, VerKeepsNext DEF VerKeeps, Loaded
        <5> QED  BY <2>2, <4>2, <5>2 DEF Left, Unmoved
      <4> QED  BY <1>2, <4>1, <4>3
    <3> QED  BY <3>1, <3>2
  <2>6. \/ Cardinality(Held') <= Limit
        \/ Cardinality(Held') < Limit + Cardinality((rushed \ Creating)')
    <3>1. rushed \ Creating \subseteq (rushed \ Creating)'
      BY <1>1, <2>2
    <3>2. Cardinality(rushed \ Creating) <= Cardinality((rushed \ Creating)')
      BY <1>3, <3>1, FS_Subset
    <3> QED  BY <1>1, <1>2, <1>3, <2>2, <3>2
  <2> QED  BY <2>3, <2>4, <2>5, <2>6 DEF RoomIsMade
<1>5. CASE \A r \in Requests : ~Enters(r)
  <2>1. /\ UNCHANGED rushed
        /\ \A q \in Requests : q \in Creating' => q \in Creating /\ mine'[q].uid = mine[q].uid
        /\ \A q \in Requests : q \in Creating \ Creating' \/ pc[q] = "done" => pc'[q] = "done"
        /\ Shrinks \/ \E r \in Requests : Created(r)
    BY <1>5, NoneEnters
  <2>2. \A q \in rushed' : q \in Creating' \/ pc'[q] = "done"
    BY <1>1, <1>2, <2>1
  <2>3. \A q \in Creating' : q \notin rushed' => Creating' = {q}
    BY <1>2, <1>3, <2>1
  <2>4. ASSUME NEW q \in Creating', Loaded(mine[q].uid)'
        PROVE  Loaded(mine[q].uid)
    <3>1. mine[q].uid \in 0..lastId /\ mine'[q].uid = mine[q].uid
      BY <1>3, <2>1 DEF KnownUsers
    <3> QED  BY <2>4, <3>1, VerKeepsNext DEF VerKeeps, Loaded
  <2>5. CASE Shrinks
    <3>1. ASSUME NEW q \in Creating', rushed' \subseteq Creating' \/ q \notin rushed', Loaded(mine[q].uid)'
          PROVE  Cardinality(Left(q)') < Limit
      <4>1. q \in Creating /\ (rushed \subseteq Creating \/ q \notin rushed)
        BY <1>3, <2>1, <3>1
      <4>2. Cardinality(Left(q)) < Limit
        BY <1>2, <2>4, <3>1, <4>1
      <4>3. IsFiniteSet(Left(q)) /\ Left(q)' \subseteq Left(q)
        BY <1>1, <2>5, FS_Difference DEF Left, Shrinks
      <4>4. /\ Cardinality(Left(q)') <= Cardinality(Left(q))
            /\ Cardinality(Left(q)') \in Nat /\ Cardinality(Left(q)) \in Nat
        BY <4>3, FS_Subset, FS_CardinalityType
      <4> QED  BY <1>1, <4>2, <4>4
    <3>2. Cardinality(Held') <= Cardinality(Held)
      BY <1>1, <2>5, FS_Subset DEF Shrinks
    <3>3. rushed \ Creating \subseteq (rushed \ Creating)'
      BY <1>3, <2>1
    <3>4. Cardinality(rushed \ Creating) <= Cardinality((rushed \ Creating)')
      BY <1>3, <3>3, FS_Subset
    <3>5. \/ Cardinality(Held') <= Limit
          \/ Cardinality(Held') < Limit + Cardinality((rushed \ Creating)')
      BY <1>1, <1>2, <1>3, <3>2, <3>4
    <3> QED  BY <2>2, <2>3, <3>1, <3>5 DEF RoomIsMade
  <2>6. ASSUME NEW r \in Requests, Created(r)
        PROVE  RoomIsMade'
    <3>1. /\ r \in Creating /\ r \notin Creating' /\ Loaded(mine[r].uid)
          /\ Held' = Held \cup {r}
      <4>1. pc[r] = "create" /\ pc'[r] = "done" /\ Loaded(mine[r].uid)
        BY <2>6 DEF Created
      <4>2. r \in Creating /\ r \notin Creating'
        BY <4>1 DEF Creating
      <4>3. SessionOf(r, mine[r]).id = r
        BY DEF SessionOf, Session
      <4> QED  BY <2>6, <4>1, <4>2, <4>3 DEF Created, Held, SidsOf
    <3>2. ASSUME NEW q \in Creating', rushed' \subseteq Creating' \/ q \notin rushed'
          PROVE  FALSE
      <4>1. q \in Creating /\ q # r
        BY <1>3, <2>1, <3>1
      <4>2. q \in rushed /\ r \in rushed
        BY <1>2, <3>1, <4>1
      <4> QED  BY <2>1, <3>1, <3>2, <4>2
    <3>3. Cardinality(Held') <= Cardinality(Held) + 1
      <4>1. Cardinality(Held \cup {r}) \in {Cardinality(Held), Cardinality(Held) + 1}
        BY <1>1, FS_AddElement
      <4> QED  BY <1>1, <3>1, <4>1
    <3>4. CASE rushed \subseteq Creating \/ r \notin rushed
      <4>1. Cardinality(Left(r)) < Limit
        BY <1>2, <3>1, <3>4
      <4>2. Left(r) = Held
        BY <2>6 DEF Created, SessionInv, LoginStage, LoginSteps, Left, SidsOf
      <4>3. Cardinality(Held') <= Limit
        BY <1>1, <3>3, <4>1, <4>2
      <4> QED  BY <2>2, <2>3, <3>2, <4>3 DEF RoomIsMade
    <3>5. CASE r \in rushed /\ \E q \in rushed : q \notin Creating
      <4>1. (rushed \ Creating) \cup {r} \subseteq (rushed \ Creating)'
        BY <1>1, <2>1, <3>1, <3>5
      <4>2. /\ IsFiniteSet((rushed \ Creating) \cup {r})
            /\ Cardinality((rushed \ Creating) \cup {r}) = Cardinality(rushed \ Creating) + 1
        BY <1>3, <3>1, FS_AddElement
      <4>3. Cardinality(rushed \ Creating) + 1 <= Cardinality((rushed \ Creating)')
        BY <1>3, <4>1, <4>2, FS_Subset
      <4>4. Cardinality(rushed \ Creating) > 0
        BY <1>3, <3>5, FS_EmptySet
      <4>5. Cardinality(Held') < Limit + Cardinality((rushed \ Creating)')
        BY <1>1, <1>2, <1>3, <3>3, <4>3, <4>4
      <4> QED  BY <2>2, <2>3, <3>2, <4>5 DEF RoomIsMade
    <3> QED  BY <3>4, <3>5
  <2> QED  BY <2>1, <2>5, <2>6
<1> QED  BY <1>4, <1>5

LEMMA SessionInit == Init => SessionInv
<1> SUFFICES ASSUME Init PROVE SessionInv
  OBVIOUS
<1>1. /\ \A r \in Requests : pc[r] \in {"new", "done"} /\ mine[r].ver = 0
      /\ Creating = {} /\ rushed = {}
  BY DEF Init, NoLocals, Creating
<1>2. user # NoUser => user.ver = 1
  BY AccountsAssumption DEF Init
<1>3. \A r \in Requests : LoginStage(r) /\ ~Refreshing(r)
  BY <1>1 DEF LoginStage, LoginSteps, Refreshing
<1>4. Cardinality(Held) <= Limit
  <2>1. IsFiniteSet(sessions) /\ Cardinality(sessions) <= Limit
    <3>1. sessions = {} \/ sessions = {Session(Devices[i], 1, 1, i) : i \in DOMAIN Devices}
      BY DEF Init
    <3>2. CASE sessions = {}
      BY <3>2, FS_EmptySet, AccountsAssumption
    <3> QED  BY <3>1, <3>2, SessionsAtStart
  <2>2. IsFiniteSet(Held) /\ Cardinality(Held) <= Cardinality(sessions)
    BY <2>1, SidsAreFew DEF Held
  <2> QED  BY <2>1, <2>2, FS_CardinalityType, AccountsAssumption
<1>5. RoomIsMade
  BY <1>1, <1>4 DEF RoomIsMade
<1>6. OldPasswordEndsSessions
  <2>1. \A s \in sessions : user # NoUser /\ s.ver = 1
    BY DEF Init, Session
  <2> QED  BY <1>2, <2>1 DEF OldPasswordEndsSessions
<1> QED  BY <1>2, <1>3, <1>5, <1>6 DEF SessionInv

LEMMA SessionStep == TypeInv /\ AccountInv /\ SessionInv /\ [Next]_vars => SessionInv'
<1>1. ASSUME TypeInv, AccountInv, SessionInv, Next PROVE SessionInv'
  <2>1. user' # NoUser => user'.ver > 0
    BY <1>1, VerKeepsNext DEF VerKeeps, SessionInv, TypeInv, BaseTypes, Users
  <2> QED  BY <1>1, <2>1, LoginStageNext, RefreshNext, RoomNext, OldPasswordNext DEF SessionInv
<1>2. ASSUME SessionInv, UNCHANGED vars PROVE SessionInv'
  BY <1>2 DEF vars, userVars, sessionVars, notes, SessionInv, LoginStage, Refreshing, RoomIsMade,
              OldPasswordEndsSessions, Creating, Held, Left, SidsOf, Loaded
<1> QED  BY <1>1, <1>2

LEMMA SessionAlways == Spec => [](TypeInv /\ SessionInv)
BY AccountInit, AccountStep, SessionInit, SessionStep, TypesAlways, PTL DEF Spec

(* However many logins run at once, a user has no more sessions than the    *)
(* limit and one for each login that overlapped another between counting    *)
(* the sessions and creating its own, less one: each deletes as many of the *)
(* oldest as leave room for the session that it is about to create.         *)
THEOREM SessionsLimited == Spec => []SessionLimit
<1>1. ASSUME TypeInv, SessionInv PROVE SessionLimit
  <2> USE <1>1 DEF TypeInv, BaseTypes
  <2>1. IsFiniteSet(Held) /\ Cardinality(Held) <= Cardinality(sessions)
    BY SidsAreFew DEF Held
  <2>2. Cardinality(sessions) <= Cardinality(Held)
    <3> DEFINE f == [i \in Held |-> CHOOSE s \in sessions : s.id = i]
    <3>1. \A s \in sessions : s.id \in Held /\ f[s.id] = s
      BY DEF Held, SidsOf, KnownSessions
    <3>2. \A i \in Held : f[i] \in sessions
      BY DEF Held, SidsOf
    <3>3. f \in Surjection(Held, sessions)
      BY <3>1, <3>2 DEF Surjection
    <3> HIDE DEF f
    <3> QED  BY <2>1, <3>3, FS_Surjection
  <2>3. IsFiniteSet(rushed) /\ Cardinality(rushed \ Creating) <= Cardinality(rushed)
    <3>1. IsFiniteSet(rushed)
      BY OtpAssumption, FS_Subset
    <3>2. rushed \ Creating \in SUBSET rushed
      OBVIOUS
    <3> QED  BY <3>1, <3>2, FS_Subset
  <2>4. /\ Cardinality(sessions) \in Nat /\ Cardinality(Held) \in Nat
        /\ Cardinality(rushed) \in Nat /\ Cardinality(rushed \ Creating) \in Nat
        /\ Limit \in Nat
    BY <2>1, <2>3, FS_CardinalityType, FS_Difference, AccountsAssumption
  <2>5. \/ Cardinality(Held) <= Limit
        \/ Cardinality(Held) < Limit + Cardinality(rushed \ Creating)
    BY DEF SessionInv, RoomIsMade
  <2> QED  BY <2>2, <2>3, <2>4, <2>5 DEF SessionLimit
<1> QED  BY <1>1, SessionAlways, PTL

(* Once a password change has ended, the sessions that were opened with the *)
(* old password are gone, unless their login was under way when it changed  *)
(* or the request died before it deleted them.                              *)
THEOREM OldPasswordsEnd == Spec => []OldPasswordEndsSessions
<1>1. SessionInv => OldPasswordEndsSessions
  BY DEF SessionInv
<1> QED  BY <1>1, SessionAlways, PTL

(* A session that was deleted never comes back, not even by the refresh     *)
(* that slides its expiry; and no refresh of it is answered that had not    *)
(* loaded it before.                                                        *)
THEOREM RevokedForGood == Spec => RevokedStaysRevoked
<1>1. ASSUME TypeInv, SessionInv, [Next]_vars,
             NEW t \in tokens, t.id \notin SidsOf(sessions)
      PROVE  /\ t.id \notin SidsOf(sessions')
             /\ \A r \in Requests \ late :
                   ~ (pc[r] = "refresh_save" /\ mine[r].sid = t.id /\ pc'[r] = "done")
  <2>1. t.id \notin SidsOf(sessions')
    <3>1. CASE UNCHANGED vars
      BY <1>1, <3>1 DEF vars, sessionVars
    <3>2. CASE sessions' \subseteq sessions \/ Renewed
      BY <1>1, <3>2 DEF Renewed, SidsOf
    <3>3. CASE \E r \in Requests : Created(r)
      <4>1. PICK r \in Requests : Created(r)
        BY <3>3
      <4>2. t.id # r
        BY <1>1, <4>1 DEF Created, TypeInv, KnownSessions
      <4>3. SessionOf(r, mine[r]).id = r
        BY DEF SessionOf, Session
      <4> QED  BY <1>1, <4>1, <4>2, <4>3 DEF Created, SidsOf
    <3> QED  BY <1>1, <3>1, <3>2, <3>3, SessionMovesNext DEF SessionMoves
  <2>2. \A r \in Requests \ late : pc[r] = "refresh_save" => mine[r].sid # t.id
    BY <1>1 DEF SessionInv, Refreshing, Held
  <2> QED  BY <2>1, <2>2
<1>2. TypeInv /\ SessionInv /\ [Next]_vars =>
         [\A t \in tokens : t.id \notin SidsOf(sessions) =>
             /\ t.id \notin SidsOf(sessions')
             /\ \A r \in Requests \ late :
                   ~ (pc[r] = "refresh_save" /\ mine[r].sid = t.id /\ pc'[r] = "done")]_vars
  BY <1>1
<1> QED  BY <1>2, SessionAlways, PTL DEF Spec, RevokedStaysRevoked

-------------------------------------------------------------------------------
(* The one-time passwords *)

(* The locals of the request that talks to Redis, after each command.       *)
LEMMA OtpAfter ==
    ASSUME TypeInv, NEW r \in Requests
    PROVE  /\ SendStart(r) => otp'[r].at = "get"
           /\ SendGet(r) => /\ otp'[r].id = pointer
                            /\ otp'[r].at = IF pointer = Nobody THEN "user" ELSE "clear"
           /\ SendClear(r) => otp'[r].at = "user"
           /\ \A known : SendUser(r, known) => otp'[r].at \in {"put", "idle"}
           /\ SendPut(r) => otp'[r].at = "point"
           /\ SendPoint(r) => otp'[r].at = "mail"
           /\ SendMailFails(r) => otp'[r].at = "undo"
           /\ SendMail(r) \/ SendUndo(r) \/ MailIgnored(r) => otp'[r] = Idle
           /\ VerifyCount(r) \/ VerifyDrop(r) \/ VerifySpend(r) \/ VerifyLeave(r) \/ OtpFail(r) =>
                 otp'[r] = Idle
           /\ \A i \in Ids : \A right : Exists(i) /\ VerifyGet(r, i, right) =>
                 /\ otp'[r].at \in VerifySteps /\ otp'[r].id = i /\ otp'[r].seen = codes[i].tries
                 /\ guesses' = IF otp'[r].at = "count" THEN [guesses EXCEPT ![i] = @ \cup {r}]
                               ELSE guesses
                 /\ otp'[r].at = "count" => codes[i].tries < MaxAttempts
<1>1. otp \in [Requests -> OtpLocals]
  BY DEF TypeInv, OtpTypes, OtpLocals
<1>2. /\ SendStart(r) => otp'[r].at = "get"
      /\ SendClear(r) => otp'[r].at = "user"
      /\ \A known : SendUser(r, known) => otp'[r].at \in {"put", "idle"}
      /\ SendPut(r) => otp'[r].at = "point"
      /\ SendPoint(r) => otp'[r].at = "mail"
      /\ SendMailFails(r) => otp'[r].at = "undo"
  BY <1>1 DEF SendStart, SendClear, SendUser, SendPut, SendPoint, SendMailFails, GoOtp, EndOtp,
              Idle, OtpLocals
<1>3. SendGet(r) => /\ otp'[r].id = pointer
                    /\ otp'[r].at = IF pointer = Nobody THEN "user" ELSE "clear"
  <2> DEFINE m == IF pointer = Nobody THEN "user" ELSE "clear"
  <2>1. SendGet(r) => otp'[r] = [otp[r] EXCEPT !.at = m, !.id = pointer]
    BY <1>1 DEF SendGet
  <2> HIDE DEF m
  <2>2. [otp[r] EXCEPT !.at = m, !.id = pointer].at = m
    BY <1>1 DEF OtpLocals
  <2>3. [otp[r] EXCEPT !.at = m, !.id = pointer].id = pointer
    BY <1>1 DEF OtpLocals
  <2> QED  BY <2>1, <2>2, <2>3 DEF m
<1>4. /\ SendMail(r) \/ SendUndo(r) \/ MailIgnored(r) => otp'[r] = Idle
      /\ VerifyCount(r) \/ VerifyDrop(r) \/ VerifySpend(r) \/ VerifyLeave(r) \/ OtpFail(r) =>
            otp'[r] = Idle
  BY <1>1 DEF SendMail, SendUndo, MailIgnored, VerifyCount, VerifyDrop, VerifySpend, VerifyLeave,
              OtpFail, EndOtp
<1>5. ASSUME NEW i \in Ids, NEW right, Exists(i), VerifyGet(r, i, right)
      PROVE  /\ otp'[r].at \in VerifySteps /\ otp'[r].id = i /\ otp'[r].seen = codes[i].tries
             /\ guesses' = IF otp'[r].at = "count" THEN [guesses EXCEPT ![i] = @ \cup {r}]
                           ELSE guesses
             /\ otp'[r].at = "count" => codes[i].tries < MaxAttempts
  <2> DEFINE limit == codes[i].tries >= MaxAttempts
             next == IF limit THEN "drop" ELSE IF right THEN "match" ELSE "count"
  <2>1. codes[i].tries \in 0..MaxAttempts
    BY <1>5, CodesTyped DEF TypeInv, OtpTypes
  <2>2. next \in VerifySteps /\ (next = "count" => codes[i].tries < MaxAttempts)
    BY <2>1, OtpAssumption DEF VerifySteps
  <2>3. /\ otp' = [otp EXCEPT ![r] = [at |-> next, id |-> i, seen |-> codes[i].tries]]
        /\ guesses' = IF next # "count" THEN guesses ELSE [guesses EXCEPT ![i] = @ \cup {r}]
    BY <1>5 DEF VerifyGet
  <2> HIDE DEF next
  <2>4. otp'[r].at = next /\ otp'[r].id = i /\ otp'[r].seen = codes[i].tries
    BY <1>1, <2>3
  <2> QED  BY <2>2, <2>3, <2>4
<1> QED  BY <1>2, <1>3, <1>4, <1>5

(* A request that talks to Redis moves alone.                               *)
LEMMA TalksAlone ==
    ASSUME TypeInv, NEW r \in Requests, TalksToRedis(r)
    PROVE  /\ \A q \in Requests \ {r} : otp'[q] = otp[q] /\ pc'[q] = pc[q]
           /\ pc[r] \in {"new", "otp", "otp_spend"}
           /\ pc[r] = "new" => otp[r].at = "idle"
           /\ otp'[r].at # "idle" => pc'[r] = "otp"
           /\ otp'[r].at = "idle" => pc'[r] = "done" \/ (pc'[r] = "count" /\ VerifySpend(r))
<1>1. pc \in [Requests -> Labels] /\ pc' = [pc EXCEPT ![r] = pc'[r]]
  BY DEF TypeInv, BaseTypes, TalksToRedis
<1>2. \A q \in Requests \ {r} : otp'[q] = otp[q]
  BY SendsTypes, VerifiesTypes DEF TalksToRedis
<1>3. pc[r] \in {"new", "otp", "otp_spend"} /\ (pc[r] = "new" => otp[r].at = "idle")
  BY DEF TalksToRedis, Sends, Verifies, TypeInv, OtpStage
<1> QED  BY <1>1, <1>2, <1>3 DEF TalksToRedis

(* A code comes to be by a send that puts it, or by a wrong guess of it.    *)
LEMMA CodesCome ==
    ASSUME TypeInv, Next, NEW i \in Ids, Exists(i)'
    PROVE  \/ Exists(i)
           \/ i \in Requests /\ TalksToRedis(i) /\ SendPut(i)
           \/ \E r \in Requests : TalksToRedis(r) /\ VerifyCount(r) /\ otp[r].id = i
<1> USE DEF TypeInv, OtpTypes, Exists
<1>1. ASSUME NEW j \in Ids, codes' = [codes EXCEPT ![j] = NoCode]
      PROVE  Exists(i)
  BY <1>1
<1>2. ASSUME NEW r \in Requests, TalksToRedis(r), ~VerifyCount(r), ~SendPut(r)
      PROVE  Exists(i)
  <2>1. \/ UNCHANGED codes
        \/ \E j \in Ids : codes' = [codes EXCEPT ![j] = NoCode]
    <3>1. otp[r].at \in VerifySteps \cup {"clear"} => otp[r].id \in Ids
      BY DEF OtpStage
    <3>2. CASE Sends(r)
      BY <1>2, <3>1, <3>2 DEF Sends, SendStart, SendGet, SendClear, SendUser, SendPoint, SendMail,
        SendUndo, SendMailFails, MailIgnored, DeleteKeys, GoOtp, Ids
    <3>3. CASE Verifies(r)
      BY <1>2, <3>1, <3>3 DEF Verifies, VerifyGet, VerifyDrop, VerifySpend, VerifyLeave, EndOtp,
        DeleteKeys, VerifySteps
    <3> QED  BY <1>2, <3>2, <3>3 DEF TalksToRedis, OtpFail
  <2> QED  BY <1>1, <2>1
<1>3. ASSUME NEW r \in Requests, TalksToRedis(r), SendPut(r)
      PROVE  Exists(i) \/ i = r
  BY <1>3 DEF SendPut
<1>4. ASSUME NEW r \in Requests, TalksToRedis(r), VerifyCount(r)
      PROVE  Exists(i) \/ i = otp[r].id
  BY <1>4 DEF VerifyCount
<1>5. CASE Quiet \/ ExpirePointer \/ \E j \in Ids : Expire(j)
  BY <1>1, <1>5 DEF Quiet, otpVars, ExpirePointer, Expire
<1> QED  BY <1>2, <1>3, <1>4, <1>5, CodeMovesNext DEF CodeMoves

(* What the histories record of a request that talks to Redis.              *)
LEMMA HistoryMoves ==
    ASSUME TypeInv, NEW r \in Requests, TalksToRedis(r)
    PROVE  /\ mailed' = mailed \/ (SendMail(r) /\ mailed' = mailed \cup {r})
           /\ revived' = revived \/ (VerifyCount(r) /\ revived' = revived \cup {r})
           /\ tangled \subseteq tangled' /\ tangled' \subseteq tangled \cup Sending \cup Sending'
           /\ \/ guesses' = guesses
              \/ otp'[r].at = "count" /\ guesses' = [guesses EXCEPT ![otp'[r].id] = @ \cup {r}]
           /\ otp'[r].at \in VerifySteps => otp'[r].id \in mailed /\ pc[r] = "new"
<1> USE DEF TypeInv
<1>1. otp'[r].at = "get" => r \in Sending'
  BY DEF Sending, SendSteps
<1>2. CASE Sends(r)
  <2>1. UNCHANGED <<revived, guesses>> /\ (mailed' = mailed \/ (SendMail(r) /\ mailed' = mailed \cup {r}))
    BY <1>2 DEF Sends, SendStart, SendGet, SendClear, SendUser, SendPut, SendPoint, SendMail,
      SendUndo, SendMailFails, MailIgnored
  <2>2. tangled \subseteq tangled' /\ tangled' \subseteq tangled \cup Sending \cup Sending'
    <3>1. CASE SendStart(r)
      BY <1>1, <3>1, OtpAfter DEF SendStart
    <3>2. CASE ~SendStart(r)
      BY <1>2, <3>2 DEF Sends, SendGet, SendClear, SendUser, SendPut, SendPoint, SendMail,
        SendUndo, SendMailFails, MailIgnored
    <3> QED  BY <3>1, <3>2
  <2>3. otp'[r].at \notin VerifySteps
    BY <1>2, SendsTypes DEF SendSteps, VerifySteps
  <2> QED  BY <2>1, <2>2, <2>3
<1>3. ASSUME pc[r] = "new", NEW i \in Ids, NEW right \in BOOLEAN, Exists(i), VerifyGet(r, i, right)
      PROVE  /\ UNCHANGED <<mailed, revived>> /\ tangled' = tangled \cup Sending
             /\ \/ guesses' = guesses
                \/ otp'[r].at = "count" /\ guesses' = [guesses EXCEPT ![otp'[r].id] = @ \cup {r}]
             /\ otp'[r].id \in mailed
  BY <1>3, OtpAfter DEF VerifyGet
<1>4. CASE VerifyCount(r) \/ VerifyDrop(r) \/ VerifySpend(r) \/ VerifyLeave(r)
  <2>1. otp'[r].at \notin VerifySteps
    BY <1>4, OtpAfter DEF Idle, VerifySteps
  <2> QED  BY <1>4, <2>1 DEF VerifyCount, VerifyDrop, VerifySpend, VerifyLeave
<1>5. CASE OtpFail(r)
  <2>1. otp'[r].at \notin VerifySteps
    BY <1>5, OtpAfter DEF Idle, VerifySteps
  <2> QED  BY <1>5, <2>1 DEF OtpFail
<1> QED  BY <1>2, <1>3, <1>4, <1>5 DEF TalksToRedis, Verifies

LEMMA CodeStageNext ==
    ASSUME TypeInv, CodeInv, Next, NEW q \in Requests
    PROVE  CodeStage(q)'
<1> USE DEF TypeInv, OtpTypes, BaseTypes
<1>1. UNCHANGED op
  BY NotesMoveNext DEF NotesMove
<1>2. \A p \in Requests : CodeStage(p)
  BY DEF CodeInv
<1>3. /\ q \in Ids /\ BeforePut \subseteq SendSteps
      /\ "idle" \notin SendSteps \cup VerifySteps /\ SendSteps \cap VerifySteps = {}
  BY DEF Ids, BeforePut, SendSteps, VerifySteps
<1>4. Exists(q)' /\ ~Exists(q) => q \in mailed \/ (TalksToRedis(q) /\ SendPut(q))
  <2>1. ASSUME NEW r \in Requests, VerifyCount(r), otp[r].id = q
        PROVE  q \in mailed
    <3>1. otp[r].at = "count" /\ "count" \in VerifySteps
      BY <2>1 DEF VerifyCount, EndOtp, VerifySteps
    <3> QED  BY <1>2, <2>1, <3>1 DEF CodeStage
  <2> QED  BY <1>3, <2>1, CodesCome
<1>5. CASE UNCHANGED <<otp, mailed, guesses, tangled, revived>> /\ QuietFor(q)
  <2>1. pc'[q] \in {"new", "otp", "otp_spend"} => pc'[q] = pc[q] \/ otp[q].at = "match"
    BY <1>5 DEF QuietFor
  <2>2. pc[q] = "done" => pc'[q] = "done"
    BY <1>5 DEF QuietFor, OtpStage
  <2>3. pc'[q] = "new" => pc[q] = "new"
    BY <1>5 DEF QuietFor
  <2>4. pc'[q] = "new" \/ otp[q].at \in BeforePut => q \notin mailed /\ ~SendPut(q)
    BY <1>2, <1>3, <1>5, <2>3 DEF CodeStage, SendPut, GoOtp, OtpStage
  <2> QED  BY <1>1, <1>2, <1>4, <1>5, <2>2, <2>3, <2>4 DEF CodeStage
<1>6. ASSUME NEW r \in Requests, TalksToRedis(r), q # r
      PROVE  CodeStage(q)'
  <2>1. otp'[q] = otp[q] /\ pc'[q] = pc[q]
    BY <1>6, TalksAlone
  <2>2. pc[q] = "new" \/ otp[q].at \in BeforePut => ~Exists(q)'
    <3>1. q \in mailed => ~(pc[q] = "new" \/ otp[q].at \in BeforePut)
      BY <1>2, <1>3 DEF CodeStage
    <3>2. ~SendPut(q)
      <4>1. otp'[q].at # otp[q].at \/ ~SendPut(q)
        BY OtpAfter DEF SendPut, GoOtp
      <4> QED  BY <2>1, <4>1
    <3> QED  BY <1>2, <1>4, <3>1, <3>2 DEF CodeStage
  <2>3. q \in mailed' => q \in mailed
    BY <1>6, HistoryMoves
  <2>4. q \in revived' => q \in revived
    BY <1>6, HistoryMoves
  <2>5. q \in tangled' => q \in tangled \/ otp[q].at \in SendSteps
    BY <1>6, <2>1, HistoryMoves DEF Sending
  <2>6. \A i \in Ids : q \in guesses'[i] => q \in guesses[i]
    <3>1. guesses' = guesses \/ \E j : guesses' = [guesses EXCEPT ![j] = @ \cup {r}]
      BY <1>6, HistoryMoves
    <3> QED  BY <1>6, <3>1
  <2>7. mailed \subseteq mailed'
    BY <1>6, HistoryMoves
  <2>8. otp[q].at \in SendSteps => op[q] = "send_otp" /\ pc[q] = "otp"
    BY DEF OtpStage
  <2> QED  BY <1>1, <1>2, <2>1, <2>2, <2>3, <2>4, <2>5, <2>6, <2>7, <2>8 DEF CodeStage
<1>7. CASE TalksToRedis(q)
  <2>1. /\ pc[q] \in {"new", "otp", "otp_spend"} /\ pc'[q] \in {"done", "count", "otp"}
        /\ otp'[q].at # "idle" => pc'[q] = "otp"
        /\ otp'[q].at = "idle" => pc'[q] = "done" \/ (pc'[q] = "count" /\ VerifySpend(q))
    BY <1>7, TalksAlone
  <2>2. otp'[q].at \in BeforePut => ~Exists(q)'
    <3>1. ASSUME otp'[q].at \in BeforePut
          PROVE  /\ pc[q] = "new" \/ otp[q].at \in BeforePut
                 /\ ~SendPut(q) /\ q \notin mailed
      <4>1. Sends(q)
        BY <1>3, <1>7, <3>1, OtpAfter, VerifiesTypes DEF TalksToRedis, Verifies, Idle
      <4>2. ~(SendPut(q) \/ SendPoint(q) \/ SendMail(q) \/ SendUndo(q) \/ SendMailFails(q) \/ MailIgnored(q))
        BY <3>1, OtpAfter DEF Idle, BeforePut
      <4>3. \/ pc[q] = "new"
            \/ SendGet(q) \/ SendClear(q) \/ \E known \in BOOLEAN : SendUser(q, known)
        BY <4>1, <4>2 DEF Sends
      <4>4. pc[q] = "new" \/ otp[q].at \in {"get", "clear", "user"}
        BY <4>3 DEF SendGet, SendClear, SendUser, GoOtp, EndOtp
      <4> QED  BY <1>2, <1>3, <4>2, <4>4 DEF BeforePut, CodeStage
    <3> QED  BY <1>2, <1>4, <3>1 DEF CodeStage
  <2>3. otp'[q].at \in SendSteps => q \notin mailed'
    <3>1. ASSUME otp'[q].at \in SendSteps
          PROVE  Sends(q) /\ ~SendMail(q)
      BY <1>3, <1>7, <3>1, OtpAfter, VerifiesTypes DEF TalksToRedis, Idle, Verifies
    <3>2. Sends(q) => pc[q] = "new" \/ otp[q].at \in SendSteps
      BY DEF Sends, OtpStage
    <3> QED  BY <1>2, <1>7, <3>1, <3>2, HistoryMoves DEF CodeStage
  <2>4. q \in revived' => pc'[q] = "done" /\ op[q] \in {"otp_login", "verify_otp"}
    <3>1. VerifyCount(q) => otp[q].at = "count" /\ otp'[q].at = "idle" /\ ~VerifySpend(q)
      BY OtpAfter DEF VerifyCount, VerifySpend, EndOtp, Idle
    <3>2. otp[q].at = "count" => op[q] \in {"otp_login", "verify_otp"}
      BY DEF OtpStage, VerifySteps
    <3> QED  BY <1>2, <1>7, <2>1, <3>1, <3>2, HistoryMoves DEF CodeStage
  <2>5. q \in tangled' => op[q] = "send_otp" /\ pc'[q] # "new"
    <3>1. otp[q].at \in SendSteps \/ otp'[q].at \in SendSteps => op[q] = "send_otp"
      BY <1>3, <1>7, VerifiesTypes DEF OtpStage, TalksToRedis, Sends, Verifies
    <3> QED  BY <1>2, <1>7, <2>1, <3>1, HistoryMoves DEF CodeStage, Sending
  <2>6. otp'[q].at \in VerifySteps => otp'[q].id \in mailed'
    BY <1>7, HistoryMoves
  <2>7. ASSUME NEW i \in Ids, q \in guesses'[i]
        PROVE  pc'[q] = "done" \/ (otp'[q].at = "count" /\ otp'[q].id = i)
    <3>1. CASE q \notin guesses[i]
      BY <1>7, <2>7, <3>1, HistoryMoves
    <3>2. CASE q \in guesses[i]
      <4>1. otp[q].at = "count"
        BY <1>2, <2>1, <3>2 DEF CodeStage
      <4>2. VerifyCount(q) \/ OtpFail(q)
        BY <1>7, <2>1, <4>1 DEF TalksToRedis, Sends, Verifies, SendStart, SendGet, SendClear, SendUser,
          SendPut, SendPoint, SendMail, SendUndo, SendMailFails, MailIgnored, GoOtp, EndOtp,
          VerifyGet, VerifyDrop, VerifySpend, VerifyLeave, OtpStage, SendSteps
      <4>3. otp'[q].at = "idle" /\ ~VerifySpend(q)
        BY <4>1, <4>2, OtpAfter DEF Idle, VerifySpend, EndOtp
      <4> QED  BY <2>1, <4>3
    <3> QED  BY <3>1, <3>2
  <2> QED  BY <1>1, <2>1, <2>2, <2>3, <2>4, <2>5, <2>6, <2>7 DEF CodeStage
<1>8. CASE Quiet \/ (UNCHANGED pc /\ (ExpirePointer \/ \E i \in Ids : Expire(i)))
  BY <1>5, <1>8 DEF Quiet, otpVars, ExpirePointer, Expire, QuietFor
<1> QED  BY <1>6, <1>7, <1>8, CodeMovesNext DEF CodeMoves

LEMMA PointerStageNext ==
    ASSUME TypeInv, CodeInv, Next, NEW q \in Requests
    PROVE  PointerStage(q)'
<1> USE DEF TypeInv, OtpTypes, BaseTypes
<1>1. \A p \in Requests : PointerStage(p) /\ CodeStage(p)
  BY DEF CodeInv
<1>2. CASE Quiet
  BY <1>1, <1>2 DEF Quiet, otpVars, PointerStage, Sending, Checking
<1>3. CASE ExpirePointer \/ \E i \in Ids : Expire(i)
  BY <1>1, <1>3 DEF ExpirePointer, Expire, PointerStage, Sending, Checking
<1>4. ASSUME NEW r \in Requests, TalksToRedis(r)
      PROVE  PointerStage(q)'
  <2>1. \A p \in Requests \ {r} : otp'[p] = otp[p]
    BY <1>4, TalksAlone
  <2>2. pointer' = pointer \/ pointer' = Nobody \/ (SendPoint(r) /\ pointer' = r)
    BY <1>4 DEF TalksToRedis, Sends, Verifies, SendStart, SendGet, SendClear, SendUser,
      SendPut, SendPoint, SendMail, SendUndo, SendMailFails, MailIgnored, DeleteKeys,
      VerifyGet, VerifyCount, VerifyDrop, VerifySpend, VerifyLeave, OtpFail
  <2>3. tangled \subseteq tangled'
    BY <1>4, HistoryMoves
  <2>4. SendPoint(r) => r \in Sending
    BY DEF SendPoint, GoOtp, Sending, SendSteps
  <2>5. otp'[q].at = "clear" => pointer' \in tangled' \cup {Nobody, otp'[q].id}
    <3>1. CASE q # r
      <4>1. otp[q].at = "clear" => q \in Sending /\ pointer \in tangled \cup {Nobody, otp[q].id}
        BY <1>1 DEF PointerStage, Sending, SendSteps
      <4>2. q \in Sending /\ SendPoint(r) => r \in tangled
        BY <1>1, <2>4, <3>1 DEF PointerStage
      <4> QED  BY <2>1, <2>2, <2>3, <3>1, <4>1, <4>2
    <3>2. CASE q = r
      <4>1. otp'[r].at = "clear" => SendGet(r)
        <5>1. ASSUME otp'[r].at = "clear"
              PROVE  Sends(r) /\ ~SendStart(r)
          BY <1>4, <5>1, OtpAfter, VerifiesTypes DEF TalksToRedis, Idle, Verifies, VerifySteps
        <5>2. ASSUME otp'[r].at = "clear"
              PROVE  /\ ~SendClear(r) /\ ~SendPut(r) /\ ~SendPoint(r) /\ ~SendMailFails(r)
                     /\ ~SendMail(r) /\ ~SendUndo(r) /\ ~MailIgnored(r)
          BY <5>2, OtpAfter DEF Idle
        <5>3. ASSUME otp'[r].at = "clear", NEW known \in BOOLEAN
              PROVE  ~SendUser(r, known)
          BY <5>3, OtpAfter
        <5> QED  BY <5>1, <5>2, <5>3 DEF Sends
      <4>2. SendGet(r) => pointer' = pointer /\ otp'[r].id = pointer
        BY OtpAfter DEF SendGet
      <4> QED  BY <3>2, <4>1, <4>2
    <3> QED  BY <3>1, <3>2
  <2>6. otp'[q].at \in {"user", "put", "point", "mail", "undo"} => pointer' \in tangled' \cup {Nobody, q}
    <3>1. CASE q # r
      <4>1. otp[q].at \in {"user", "put", "point", "mail", "undo"} =>
               q \in Sending /\ pointer \in tangled \cup {Nobody, q}
        BY <1>1 DEF PointerStage, Sending, SendSteps
      <4>2. q \in Sending /\ SendPoint(r) => r \in tangled
        BY <1>1, <2>4, <3>1 DEF PointerStage
      <4> QED  BY <2>1, <2>2, <2>3, <3>1, <4>1, <4>2
    <3>2. CASE q = r
      <4>1. ASSUME otp'[r].at \in {"user", "put", "point", "mail", "undo"}
            PROVE  \/ SendGet(r) /\ pointer = Nobody
                   \/ SendClear(r)
                   \/ otp[r].at \in {"user", "put", "point", "mail"}
        <5>1. Sends(r) /\ ~SendStart(r)
          BY <1>4, <4>1, OtpAfter, VerifiesTypes DEF TalksToRedis, Idle, Verifies, VerifySteps
        <5>2. SendGet(r) => pointer = Nobody
          BY <4>1, OtpAfter
        <5>3. ~SendUndo(r)
          BY <4>1, OtpAfter DEF Idle
        <5> QED  BY <5>1, <5>2, <5>3 DEF Sends, SendUser, SendPut, SendPoint, SendMail,
                   SendMailFails, MailIgnored, GoOtp, EndOtp
      <4>2. SendGet(r) /\ pointer = Nobody => pointer' = Nobody
        BY DEF SendGet
      <4>3. SendClear(r) => pointer' = Nobody
        BY DEF SendClear, DeleteKeys
      <4>4. otp[r].at \in {"user", "put", "point", "mail"} => pointer \in tangled \cup {Nobody, r}
        BY <1>1 DEF PointerStage
      <4> QED  BY <2>2, <2>3, <3>2, <4>1, <4>2, <4>3, <4>4
    <3> QED  BY <3>1, <3>2
  <2>7. ASSUME q \in Sending' \ tangled'
        PROVE  Sending' = {q} /\ Checking' = {}
    <3>1. CASE SendStart(r)
      <4>1. Sending' = Sending \cup {r} /\ Checking' = Checking
        <5>1. otp[r].at = "idle" /\ otp'[r].at = "get"
          BY <3>1, OtpAfter DEF SendStart, GoOtp
        <5> QED  BY <2>1, <5>1 DEF Sending, Checking, SendSteps, VerifySteps
      <4>2. Sending \cup UNION {Verifying(i) : i \in Ids} = {}
        BY <2>7, <3>1, <4>1 DEF SendStart
      <4>3. Checking = {}
        <5>1. \A p \in Checking : p \in Verifying(otp[p].id) /\ otp[p].id \in Ids
          BY DEF Checking, Verifying, OtpStage
        <5>2. \A p \in Checking : p \in UNION {Verifying(i) : i \in Ids}
          BY <5>1
        <5> QED  BY <4>2, <5>2
      <4> QED  BY <2>7, <4>1, <4>2, <4>3
    <3>2. CASE \E i \in Ids, right \in BOOLEAN : Exists(i) /\ VerifyGet(r, i, right)
      <4>1. otp'[r].at \in VerifySteps /\ tangled' = tangled \cup Sending
        BY <3>2, OtpAfter DEF VerifyGet
      <4>2. Sending' \subseteq Sending
        BY <2>1, <4>1 DEF Sending, SendSteps, VerifySteps
      <4> QED  BY <2>7, <4>1, <4>2
    <3>3. CASE ~SendStart(r) /\ ~\E i \in Ids, right \in BOOLEAN : Exists(i) /\ VerifyGet(r, i, right)
      <4>1. /\ otp'[r].at \in SendSteps => otp[r].at \in SendSteps
            /\ otp'[r].at \in VerifySteps => FALSE
        <5>1. CASE Sends(r)
          BY <3>3, <5>1, SendsTypes DEF Sends, SendGet, SendClear, SendUser, SendPut, SendPoint,
            SendMail, SendUndo, SendMailFails, MailIgnored, GoOtp, EndOtp, SendSteps, VerifySteps
        <5>2. CASE otp'[r] = Idle
          BY <5>2 DEF Idle, SendSteps, VerifySteps
        <5> QED  BY <1>4, <3>3, <5>1, <5>2, OtpAfter DEF TalksToRedis, Verifies
      <4>2. Sending' \subseteq Sending /\ Checking' \subseteq Checking
        BY <2>1, <4>1 DEF Sending, Checking
      <4>3. Sending = {q} /\ Checking = {}
        BY <1>1, <2>3, <2>7, <4>2 DEF PointerStage
      <4> QED  BY <2>7, <4>2, <4>3
    <3> QED  BY <3>1, <3>2, <3>3
  <2> QED  BY <2>5, <2>6, <2>7 DEF PointerStage
<1> QED  BY <1>2, <1>3, <1>4, CodeMovesNext DEF CodeMoves

LEMMA RequestSets ==
    ASSUME NEW S \in SUBSET Requests
    PROVE  /\ IsFiniteSet(S) /\ Cardinality(S) \in Nat
           /\ \A T \in SUBSET S : Cardinality(T) <= Cardinality(S)
           /\ \A r : Cardinality(S \cup {r}) <= Cardinality(S) + 1
<1>1. IsFiniteSet(S) /\ Cardinality(S) \in Nat
  BY OtpAssumption, FS_Subset, FS_CardinalityType
<1>2. \A T \in SUBSET S : Cardinality(T) <= Cardinality(S)
  BY <1>1, FS_Subset
<1>3. ASSUME NEW r
      PROVE  Cardinality(S \cup {r}) <= Cardinality(S) + 1
  <2>1. Cardinality(S \cup {r}) = IF r \in S THEN Cardinality(S) ELSE Cardinality(S) + 1
    BY <1>1, FS_AddElement
  <2> QED  BY <1>1, <2>1
<1> QED  BY <1>1, <1>2, <1>3

(* A verification begins: it is counted when it ends, and marked with the   *)
(* others when it is not alone.                                             *)
LEMMA VerificationBegins ==
    ASSUME TypeInv, CodeInv, OtpTypes', NEW r \in Requests, TalksToRedis(r), NEW i \in Ids,
           NEW right \in BOOLEAN, Exists(i), VerifyGet(r, i, right)
    PROVE  CodeHistory(i)'
<1> USE DEF TypeInv, OtpTypes
<1>1. /\ otp[r].at = "idle" /\ i \in mailed
      /\ crowd' = IF Verifying(i) = {} THEN crowd
                  ELSE [crowd EXCEPT ![i] = @ \cup Verifying(i) \cup {r}]
      /\ UNCHANGED <<codes, mailed, spent>>
  BY DEF VerifyGet
<1>2. /\ otp'[r].at \in VerifySteps /\ otp'[r].id = i /\ otp'[r].seen = codes[i].tries
      /\ guesses' = IF otp'[r].at = "count" THEN [guesses EXCEPT ![i] = @ \cup {r}] ELSE guesses
      /\ otp'[r].at = "count" => codes[i].tries < MaxAttempts
  BY OtpAfter
<1>3. Verifying(i)' = Verifying(i) \cup {r} /\ r \notin Verifying(i)
  BY <1>1, <1>2, TalksAlone DEF Verifying, VerifySteps
<1>4. CodeHistory(i)
  BY DEF CodeInv
<1>5. spent[i] \ crowd[i] = {} /\ spent'[i] \ crowd'[i] = {}
  BY <1>1, <1>4 DEF CodeHistory
<1>6. Counted(i)' \subseteq Counted(i)
  BY <1>1, <1>2, <1>3 DEF Counted
<1>7. Cardinality(Counted(i)') <= Cardinality(Counted(i)) /\ Cardinality(Counted(i)) \in Nat
      /\ Cardinality(Counted(i)') \in Nat
  <2>1. Counted(i) \in SUBSET Requests
    BY DEF Counted
  <2>2. Counted(i)' \in SUBSET Requests
    BY <1>6, <2>1
  <2> QED  BY <1>6, <2>1, <2>2, RequestSets
<1>8. codes[i].tries \in 0..MaxAttempts /\ Cardinality(Counted(i)) <= codes[i].tries
  BY <1>4, CodesTyped DEF CodeHistory
<1>9. \A p \in Verifying(i)' : Cardinality(Counted(i)') <= otp'[p].seen
  <2>1. Cardinality(Counted(i)') <= otp'[r].seen
    BY <1>2, <1>7, <1>8
  <2>2. ASSUME NEW p \in Verifying(i)
        PROVE  Cardinality(Counted(i)') <= otp'[p].seen
    <3>1. p \in Requests \ {r} /\ Cardinality(Counted(i)) <= otp[p].seen /\ otp[p].seen \in 0..MaxAttempts
      BY <1>3, <1>4 DEF CodeHistory, Verifying
    <3>2. otp'[p] = otp[p]
      BY <3>1, TalksAlone
    <3> QED  BY <1>7, <3>1, <3>2
  <2> QED  BY <1>3, <2>1, <2>2
<1>10. Cardinality(guesses'[i] \ crowd'[i]) <= MaxAttempts
  <2>1. CASE Verifying(i) = {}
    <3>1. guesses[i] \ crowd[i] = Counted(i) /\ crowd'[i] = crowd[i]
      BY <1>1, <2>1 DEF Counted
    <3>2. CASE otp'[r].at = "count"
      <4>1. guesses'[i] \ crowd'[i] \subseteq Counted(i) \cup {r}
        BY <1>2, <3>1, <3>2
      <4>2. Counted(i) \in SUBSET Requests /\ Counted(i) \cup {r} \in SUBSET Requests
        BY DEF Counted
      <4>3. /\ Cardinality(Counted(i) \cup {r}) <= Cardinality(Counted(i)) + 1
            /\ Cardinality(Counted(i) \cup {r}) \in Nat
        BY <4>2, RequestSets
      <4>4. /\ Cardinality(guesses'[i] \ crowd'[i]) <= Cardinality(Counted(i) \cup {r})
            /\ Cardinality(guesses'[i] \ crowd'[i]) \in Nat
        <5>1. guesses'[i] \ crowd'[i] \in SUBSET Requests
          BY <4>1, <4>2
        <5> QED  BY <4>1, <4>2, <5>1, RequestSets
      <4> QED  BY <1>2, <1>7, <1>8, <3>2, <4>3, <4>4, OtpAssumption
    <3>3. CASE otp'[r].at # "count"
      <4>1. guesses'[i] \ crowd'[i] = Counted(i)
        BY <1>2, <3>1, <3>3
      <4>2. Cardinality(guesses'[i] \ crowd'[i]) = Cardinality(Counted(i))
        BY <4>1
      <4>3. Cardinality(Counted(i)) <= MaxAttempts
        BY <1>7, <1>8, OtpAssumption
      <4> QED  BY <4>2, <4>3
    <3> QED  BY <3>2, <3>3
  <2>2. CASE Verifying(i) # {}
    <3>1. guesses'[i] \ crowd'[i] \subseteq guesses[i] \ crowd[i]
      BY <1>1, <1>2, <2>2
    <3>2. Cardinality(guesses[i] \ crowd[i]) <= MaxAttempts
      BY <1>4 DEF CodeHistory
    <3>3. guesses[i] \ crowd[i] \in SUBSET Requests /\ guesses'[i] \ crowd'[i] \in SUBSET Requests
      BY <3>1
    <3>4. Cardinality(guesses'[i] \ crowd'[i]) <= Cardinality(guesses[i] \ crowd[i])
      BY <3>1, <3>3, RequestSets
    <3>5. /\ Cardinality(guesses'[i] \ crowd'[i]) \in Nat
          /\ Cardinality(guesses[i] \ crowd[i]) \in Nat
      BY <3>3, RequestSets
    <3> QED  BY <3>2, <3>4, <3>5, OtpAssumption
  <2> QED  BY <2>1, <2>2
<1>11. \A p \in Verifying(i)' : p \notin crowd'[i] => Verifying(i)' = {p}
  BY <1>1, <1>3
<1>12. Cardinality(spent'[i] \ crowd'[i]) <= 1
  <2>1. Cardinality(spent'[i] \ crowd'[i]) = 0
    BY <1>5, FS_EmptySet
  <2> QED  BY <2>1
<1> QED
  BY <1>1, <1>4, <1>5, <1>7, <1>8, <1>9, <1>10, <1>11, <1>12 DEF CodeHistory, Exists

(* A verification of i ends, or dies: a wrong guess is counted in the code, *)
(* a used code is gone, and the ones that go on are marked.                 *)
LEMMA VerificationEnds ==
    ASSUME TypeInv, CodeInv, OtpTypes', NEW r \in Requests, TalksToRedis(r), pc[r] # "new",
           NEW i \in Ids, r \in Verifying(i)
    PROVE  CodeHistory(i)'
<1> USE DEF TypeInv, OtpTypes
<1>1. otp[r].at \in VerifySteps /\ otp[r].id = i /\ i \in mailed /\ CodeHistory(i)
  BY DEF CodeInv, CodeStage, Verifying
<1>2. VerifyCount(r) \/ VerifyDrop(r) \/ VerifySpend(r) \/ VerifyLeave(r) \/ OtpFail(r)
  <2>1. ~Sends(r)
    BY <1>1 DEF Sends, OtpStage, VerifySteps
  <2> QED  BY <2>1 DEF TalksToRedis, Verifies
<1>3. otp'[r] = Idle /\ r \notin Verifying(i)'
  BY <1>2, OtpAfter DEF Idle, Verifying, VerifySteps
<1>4. Verifying(i)' = Verifying(i) \ {r} /\ \A p \in Verifying(i)' : otp'[p] = otp[p]
  BY <1>3, TalksAlone DEF Verifying
<1>5. /\ \A p \in Verifying(i)' : p \in crowd[i]
      /\ Verifying(i)' # {} => r \in crowd[i]
      /\ spent[i] \ crowd[i] = {}
  BY <1>1, <1>4 DEF CodeHistory
<1>6. mailed' = mailed /\ guesses' = guesses /\ crowd[i] \subseteq crowd'[i]
  BY <1>2 DEF VerifyCount, VerifyDrop, VerifySpend, VerifyLeave, OtpFail
<1>7. /\ spent'[i] \ crowd'[i] \subseteq {r}
      /\ spent'[i] \ crowd'[i] # {} => ~Exists(i)' /\ Verifying(i)' = {}
  <2>1. CASE VerifySpend(r)
    <3>1. spent'[i] = spent[i] \cup {r} /\ crowd' = crowd /\ ~Exists(i)'
      BY <1>1, <2>1 DEF VerifySpend, DeleteKeys, Exists
    <3> QED  BY <1>5, <3>1
  <2>2. CASE ~VerifySpend(r)
    <3>1. spent' = spent
      BY <1>2, <2>2 DEF VerifyCount, VerifyDrop, VerifyLeave, OtpFail
    <3> QED  BY <1>5, <1>6, <3>1
  <2> QED  BY <2>1, <2>2
<1>8. Cardinality(spent'[i] \ crowd'[i]) <= 1
  <2>1. spent'[i] \ crowd'[i] = {} \/ spent'[i] \ crowd'[i] = {r}
    BY <1>7
  <2>2. Cardinality(spent'[i] \ crowd'[i]) \in {0, 1}
    <3>1. Cardinality({}) = 0 /\ Cardinality({r}) = 1
      BY FS_EmptySet, FS_Singleton
    <3> QED  BY <2>1, <3>1, Zenon
  <2> QED  BY <2>2
<1>9. /\ Counted(i) \in SUBSET Requests /\ Counted(i)' \in SUBSET Requests
      /\ Cardinality(Counted(i)) \in Nat /\ Cardinality(Counted(i)') \in Nat
  <2>1. Counted(i) \in SUBSET Requests /\ Counted(i)' \in SUBSET Requests
    BY DEF Counted
  <2> QED  BY <2>1, RequestSets
<1>10. Counted(i)' \subseteq Counted(i) \/ (VerifyCount(r) /\ Counted(i)' \subseteq Counted(i) \cup {r})
  <2>1. CASE VerifyCount(r)
    BY <1>4, <1>6, <2>1 DEF Counted
  <2>2. CASE OtpFail(r)
    <3>1. r \in crowd'[i]
      BY <1>1, <2>2 DEF OtpFail, Sending, SendSteps, VerifySteps
    <3> QED  BY <1>4, <1>6, <3>1 DEF Counted
  <2>3. CASE VerifyDrop(r) \/ VerifySpend(r) \/ VerifyLeave(r)
    <3>1. r \notin guesses[i]
      <4>1. pc[r] # "done" /\ otp[r].at # "count"
        BY <2>3, TalksAlone DEF VerifyDrop, VerifySpend, VerifyLeave, EndOtp
      <4> QED  BY <4>1 DEF CodeInv, CodeStage
    <3> QED  BY <1>4, <1>6, <3>1 DEF Counted
  <2> QED  BY <1>2, <2>1, <2>2, <2>3
<1>11. r \in crowd[i] => Counted(i)' \subseteq Counted(i)
  BY <1>4, <1>6 DEF Counted
<1>12. Counted(i)' \subseteq Counted(i) => Cardinality(Counted(i)') <= Cardinality(Counted(i))
  BY <1>9, RequestSets
<1>13. \A p \in Verifying(i)' : Cardinality(Counted(i)') <= otp'[p].seen
  <2> SUFFICES ASSUME NEW p \in Verifying(i)'
               PROVE  Cardinality(Counted(i)') <= otp'[p].seen
    OBVIOUS
  <2>1. p \in Requests /\ otp'[p] = otp[p] /\ Cardinality(Counted(i)) <= otp[p].seen
    BY <1>1, <1>4 DEF CodeHistory, Verifying
  <2>2. otp[p].seen \in Int
    BY <2>1
  <2> QED  BY <1>5, <1>9, <1>11, <1>12, <2>1, <2>2
<1>14. Exists(i)' => Cardinality(Counted(i)') <= codes'[i].tries
  <2>1. CASE VerifyCount(r)
    <3>1. codes'[i].tries = otp[r].seen + 1
      BY <1>1, <2>1 DEF VerifyCount
    <3>2. Cardinality(Counted(i)) <= otp[r].seen /\ otp[r].seen \in Int
      BY <1>1 DEF CodeHistory
    <3>3. Cardinality(Counted(i) \cup {r}) <= Cardinality(Counted(i)) + 1
      BY <1>9, RequestSets
    <3>4. /\ Cardinality(Counted(i)') <= Cardinality(Counted(i) \cup {r})
          /\ Cardinality(Counted(i) \cup {r}) \in Nat
      <4>1. Counted(i) \cup {r} \in SUBSET Requests /\ Counted(i)' \subseteq Counted(i) \cup {r}
        BY <1>9, <1>10
      <4> QED  BY <4>1, RequestSets
    <3> QED  BY <1>9, <3>1, <3>2, <3>3, <3>4
  <2>2. CASE ~VerifyCount(r)
    <3>1. Exists(i)' => codes'[i] = codes[i]
      BY <1>1, <1>2, <2>2 DEF VerifyDrop, VerifySpend, VerifyLeave, OtpFail, DeleteKeys, Exists
    <3>2. Exists(i) => Cardinality(Counted(i)) <= codes[i].tries /\ codes[i].tries \in Int
      BY <1>1, CodesTyped DEF CodeHistory
    <3> QED  BY <1>9, <1>10, <1>12, <2>2, <3>1, <3>2 DEF Exists
  <2> QED  BY <2>1, <2>2
<1>15. Cardinality(guesses'[i] \ crowd'[i]) <= MaxAttempts
  <2>1. guesses'[i] \ crowd'[i] \subseteq guesses[i] \ crowd[i] /\ guesses[i] \ crowd[i] \in SUBSET Requests
    BY <1>6
  <2>2. Cardinality(guesses'[i] \ crowd'[i]) <= Cardinality(guesses[i] \ crowd[i])
    BY <2>1, RequestSets
  <2>3. /\ Cardinality(guesses'[i] \ crowd'[i]) \in Nat /\ Cardinality(guesses[i] \ crowd[i]) \in Nat
        /\ Cardinality(guesses[i] \ crowd[i]) <= MaxAttempts
    <3>1. guesses'[i] \ crowd'[i] \in SUBSET Requests
      BY <2>1
    <3> QED  BY <1>1, <2>1, <3>1, RequestSets DEF CodeHistory
  <2> QED  BY <2>2, <2>3, OtpAssumption
<1> QED
  BY <1>1, <1>4, <1>5, <1>6, <1>7, <1>8, <1>13, <1>14, <1>15 DEF CodeHistory

LEMMA CodeHistoryNext ==
    ASSUME TypeInv, CodeInv, Next, NEW i \in Ids
    PROVE  CodeHistory(i)'
<1> USE DEF TypeInv, OtpTypes
<1>1. OtpTypes' /\ CodeHistory(i) /\ CodeMoves
  BY OtpTypesNext, CodeMovesNext DEF CodeInv
(* Nothing happens to i but that it may be mailed, or goes. *)
<1>2. ASSUME Verifying(i)' = Verifying(i), \A p \in Verifying(i) : otp'[p] = otp[p],
             guesses'[i] = guesses[i], spent'[i] = spent[i], crowd'[i] = crowd[i],
             mailed \subseteq mailed', codes'[i] \in {codes[i], NoCode}
      PROVE  CodeHistory(i)'
  <2>1. Counted(i)' = Counted(i)
    BY <1>2 DEF Counted
  <2> QED  BY <1>1, <1>2, <2>1 DEF CodeHistory, Exists
<1>3. CASE Quiet
  BY <1>2, <1>3 DEF Quiet, otpVars, Verifying
<1>4. CASE ExpirePointer \/ \E j \in Ids : Expire(j)
  <2>1. UNCHANGED <<otp, guesses, spent, crowd, mailed>> /\ codes'[i] \in {codes[i], NoCode}
    BY <1>4 DEF ExpirePointer, Expire
  <2> QED  BY <1>2, <2>1 DEF Verifying
<1>5. ASSUME NEW r \in Requests, TalksToRedis(r)
      PROVE  CodeHistory(i)'
  <2>1. \A q \in Requests \ {r} : otp'[q] = otp[q]
    BY <1>5, TalksAlone
  <2>2. CASE r \in Verifying(i)
    <3>1. pc[r] # "new"
      BY <1>5, <2>2, TalksAlone DEF Verifying, VerifySteps
    <3> QED  BY <1>1, <1>5, <2>2, <3>1, VerificationEnds
  <2>3. ASSUME NEW right \in BOOLEAN, Exists(i), VerifyGet(r, i, right)
        PROVE  CodeHistory(i)'
    BY <1>1, <1>5, <2>3, VerificationBegins
  <2>4. CASE SendPut(r) /\ r = i
    <3>1. i \notin mailed
      <4>1. otp[i].at \in SendSteps
        BY <2>4 DEF SendPut, GoOtp, SendSteps
      <4> QED  BY <2>4, <4>1 DEF CodeInv, CodeStage
    <3>2. guesses[i] = {} /\ spent[i] = {}
      BY <1>1, <3>1 DEF CodeHistory
    <3>3. Verifying(i)' = {}
      <4>1. \A p \in Requests : otp[p].at \in VerifySteps => otp[p].id # i
        BY <3>1 DEF CodeInv, CodeStage
      <4>2. otp'[r].at \notin VerifySteps
        BY <2>4, OtpAfter DEF VerifySteps
      <4> QED  BY <2>1, <4>1, <4>2 DEF Verifying
    <3>4. /\ codes'[i] = [tries |-> 0, ttl |-> TRUE]
          /\ UNCHANGED <<guesses, spent, crowd>>
      BY <2>4 DEF SendPut
    <3>5. Counted(i)' = {} /\ guesses'[i] \ crowd'[i] = {} /\ spent'[i] \ crowd'[i] = {}
      BY <3>2, <3>4 DEF Counted
    <3>6. /\ Cardinality(Counted(i)') = 0 /\ Cardinality(guesses'[i] \ crowd'[i]) = 0
          /\ Cardinality(spent'[i] \ crowd'[i]) = 0
      BY <3>5, FS_EmptySet
    <3>7. codes'[i].tries = 0 /\ codes'[i].ttl /\ guesses'[i] = {} /\ spent'[i] = {}
      BY <3>2, <3>4
    <3> QED  BY <3>3, <3>5, <3>6, <3>7, OtpAssumption DEF CodeHistory
  <2>5. CASE /\ r \notin Verifying(i) /\ ~(SendPut(r) /\ r = i)
             /\ \A right \in BOOLEAN : ~(Exists(i) /\ VerifyGet(r, i, right))
    <3>1. CASE Sends(r)
      <4>1. guesses' = guesses /\ spent' = spent /\ crowd' = crowd /\ mailed \subseteq mailed'
        BY <3>1 DEF Sends, SendStart, SendGet, SendClear, SendUser, SendPut, SendPoint, SendMail,
          SendUndo, SendMailFails, MailIgnored
      <4>2. codes'[i] \in {codes[i], NoCode}
        BY <2>5, <3>1 DEF Sends, SendStart, SendGet, SendClear, SendUser, SendPut, SendPoint,
          SendMail, SendUndo, SendMailFails, MailIgnored, DeleteKeys
      <4>3. otp'[r].at \notin VerifySteps
        BY <3>1, SendsTypes DEF SendSteps, VerifySteps
      <4>4. Verifying(i)' = Verifying(i)
        BY <2>1, <2>5, <4>3 DEF Verifying
      <4> QED  BY <1>2, <2>1, <2>5, <4>1, <4>2, <4>4 DEF Verifying
    <3>2. ASSUME NEW j \in Ids, j # i, NEW right \in BOOLEAN, Exists(j), VerifyGet(r, j, right)
          PROVE  CodeHistory(i)'
      <4>1. UNCHANGED <<codes, mailed, spent>> /\ crowd'[i] = crowd[i]
        BY <3>2 DEF VerifyGet
      <4>2. otp'[r].id = j /\ guesses'[i] = guesses[i]
        BY <3>2, OtpAfter
      <4>3. Verifying(i)' = Verifying(i)
        BY <2>1, <2>5, <3>2, <4>2 DEF Verifying
      <4> QED  BY <1>2, <2>1, <2>5, <4>1, <4>2, <4>3 DEF Verifying
    <3>3. CASE VerifyCount(r) \/ VerifyDrop(r) \/ VerifySpend(r) \/ VerifyLeave(r) \/ OtpFail(r)
      <4>1. otp'[r].at \notin VerifySteps
        BY <3>3, OtpAfter DEF Idle, VerifySteps
      <4>2. Verifying(i)' = Verifying(i)
        BY <2>1, <2>5, <4>1 DEF Verifying
      <4>3. ~OtpFail(r) => otp[r].id # i
        BY <2>5, <3>3 DEF VerifyCount, VerifyDrop, VerifySpend, VerifyLeave, EndOtp, Verifying,
          VerifySteps
      <4>4. codes'[i] = codes[i] /\ guesses' = guesses /\ spent'[i] = spent[i] /\ mailed' = mailed
        BY <3>3, <4>3 DEF VerifyCount, VerifyDrop, VerifySpend, VerifyLeave, OtpFail, DeleteKeys
      <4>5. crowd'[i] = crowd[i]
        <5>1. CASE OtpFail(r)
          <6>1. r \notin Sending => otp[r].at \in VerifySteps
            BY <5>1 DEF OtpFail, OtpSteps, Sending
          <6> QED  BY <2>5, <5>1, <6>1 DEF OtpFail, Verifying
        <5> QED  BY <3>3, <5>1 DEF VerifyCount, VerifyDrop, VerifySpend, VerifyLeave
      <4> QED  BY <1>2, <2>1, <2>5, <4>2, <4>4, <4>5 DEF Verifying
    <3> QED  BY <1>5, <2>5, <3>1, <3>2, <3>3 DEF TalksToRedis, Verifies
  <2> QED  BY <2>2, <2>3, <2>4, <2>5
<1> QED  BY <1>1, <1>3, <1>4, <1>5 DEF CodeMoves

(* How many codes are alive: whenever one more is loose, one more of the    *)
(* excuses is there to pay for it.                                          *)
LoosePaid ==
    \/ Loose' \subseteq Loose /\ Excuses \subseteq Excuses'
    \/ \E x, y : /\ Loose' \subseteq Loose \cup {x}
                 /\ y \notin Excuses /\ Excuses \cup {y} \subseteq Excuses'
    \/ \E x, y : /\ y \in Loose /\ Loose' \subseteq (Loose \ {y}) \cup {x}
                 /\ Excuses \subseteq Excuses'
    \/ \E x, y : /\ Loose' \subseteq Loose
                 /\ y \notin Excuses /\ (Excuses \ {x}) \cup {y} \subseteq Excuses'

LEMMA FewerLoose ==
    ASSUME TypeInv, OtpTypes', Cardinality(Loose) <= Cardinality(Excuses), LoosePaid
    PROVE  Cardinality(Loose') <= Cardinality(Excuses')
<1>1. /\ IsFiniteSet(Loose) /\ Cardinality(Loose) \in Nat
      /\ IsFiniteSet(Excuses) /\ Cardinality(Excuses) \in Nat
      /\ IsFiniteSet(Excuses') /\ Cardinality(Excuses') \in Nat
  <2>1. IsFiniteSet(Requests \cup {Prior, Nobody})
    <3>1. IsFiniteSet(Requests \cup {Prior})
      BY OtpAssumption, FS_AddElement
    <3>2. IsFiniteSet((Requests \cup {Prior}) \cup {Nobody})
      BY <3>1, FS_AddElement
    <3>3. (Requests \cup {Prior}) \cup {Nobody} = Requests \cup {Prior, Nobody}
      OBVIOUS
    <3> QED  BY <3>2, <3>3
  <2>2. Loose \subseteq Requests \cup {Prior, Nobody}
    BY DEF Loose, Orphans, Live, Ids
  <2>3. Excuses \subseteq Requests /\ Excuses' \subseteq Requests
    BY DEF TypeInv, OtpTypes, Excuses, Dead
  <2> QED  BY <2>1, <2>2, <2>3, OtpAssumption, FS_Subset, FS_CardinalityType
<1>2. /\ \A T \in SUBSET Loose : IsFiniteSet(T) /\ Cardinality(T) <= Cardinality(Loose)
      /\ \A T \in SUBSET Excuses' : Cardinality(T) <= Cardinality(Excuses')
  BY <1>1, FS_Subset
<1>3. CASE Loose' \subseteq Loose /\ Excuses \subseteq Excuses'
  <2>1. Cardinality(Loose') <= Cardinality(Loose) /\ IsFiniteSet(Loose')
    BY <1>2, <1>3
  <2>2. Cardinality(Excuses) <= Cardinality(Excuses') /\ Cardinality(Loose') \in Nat
    BY <1>2, <1>3, <2>1, FS_CardinalityType
  <2> QED  BY <1>1, <2>1, <2>2
<1>4. ASSUME NEW x, NEW y, Loose' \subseteq Loose \cup {x}, y \notin Excuses,
             Excuses \cup {y} \subseteq Excuses'
      PROVE  Cardinality(Loose') <= Cardinality(Excuses')
  <2>1. /\ IsFiniteSet(Loose \cup {x}) /\ Cardinality(Loose \cup {x}) <= Cardinality(Loose) + 1
        /\ Cardinality(Loose \cup {x}) \in Nat
    <3>1. /\ IsFiniteSet(Loose \cup {x})
          /\ Cardinality(Loose \cup {x}) = IF x \in Loose THEN Cardinality(Loose) ELSE Cardinality(Loose) + 1
      BY <1>1, FS_AddElement
    <3> QED  BY <1>1, <3>1
  <2>2. Cardinality(Loose') <= Cardinality(Loose \cup {x}) /\ Cardinality(Loose') \in Nat
    BY <1>4, <2>1, FS_Subset, FS_CardinalityType
  <2>3. Cardinality(Excuses \cup {y}) = Cardinality(Excuses) + 1
    BY <1>1, <1>4, FS_AddElement
  <2>4. Cardinality(Excuses \cup {y}) <= Cardinality(Excuses')
    BY <1>2, <1>4
  <2> QED  BY <1>1, <2>1, <2>2, <2>3, <2>4
<1>5. ASSUME NEW x, NEW y, y \in Loose, Loose' \subseteq (Loose \ {y}) \cup {x},
             Excuses \subseteq Excuses'
      PROVE  Cardinality(Loose') <= Cardinality(Excuses')
  <2>1. IsFiniteSet(Loose \ {y}) /\ Cardinality(Loose \ {y}) = Cardinality(Loose) - 1
    BY <1>1, <1>5, FS_RemoveElement
  <2>2. /\ IsFiniteSet((Loose \ {y}) \cup {x})
        /\ Cardinality((Loose \ {y}) \cup {x}) = IF x \in Loose \ {y} THEN Cardinality(Loose \ {y})
                                                 ELSE Cardinality(Loose \ {y}) + 1
    BY <2>1, FS_AddElement
  <2>3. Cardinality(Loose') <= Cardinality((Loose \ {y}) \cup {x}) /\ Cardinality(Loose') \in Nat
    BY <1>5, <2>2, FS_Subset, FS_CardinalityType
  <2>4. Cardinality(Excuses) <= Cardinality(Excuses')
    BY <1>2, <1>5
  <2> QED  BY <1>1, <2>1, <2>2, <2>3, <2>4
<1>6. ASSUME NEW x, NEW y, Loose' \subseteq Loose, y \notin Excuses,
             (Excuses \ {x}) \cup {y} \subseteq Excuses'
      PROVE  Cardinality(Loose') <= Cardinality(Excuses')
  <2>1. Cardinality(Loose') <= Cardinality(Loose) /\ Cardinality(Loose') \in Nat
    BY <1>2, <1>6, FS_CardinalityType
  <2>2. IsFiniteSet(Excuses \ {x}) /\ Cardinality(Excuses \ {x}) >= Cardinality(Excuses) - 1
    <3>1. /\ IsFiniteSet(Excuses \ {x})
          /\ Cardinality(Excuses \ {x}) =
                 IF x \in Excuses THEN Cardinality(Excuses) - 1 ELSE Cardinality(Excuses)
      BY <1>1, FS_RemoveElement
    <3> QED  BY <1>1, <3>1
  <2>3. Cardinality((Excuses \ {x}) \cup {y}) = Cardinality(Excuses \ {x}) + 1
    BY <1>6, <2>2, FS_AddElement
  <2>4. Cardinality((Excuses \ {x}) \cup {y}) <= Cardinality(Excuses')
    BY <1>2, <1>6
  <2>5. Cardinality(Excuses \ {x}) \in Nat
    BY <2>2, FS_CardinalityType
  <2> QED  BY <1>1, <2>1, <2>2, <2>3, <2>4, <2>5
<1> QED  BY <1>3, <1>4, <1>5, <1>6 DEF LoosePaid

(* A request that sends, begins to verify, leaves a code or dies makes no   *)
(* code loose.                                                              *)
LEMMA NoneLoosened ==
    ASSUME TypeInv, CodeInv, NEW r \in Requests, TalksToRedis(r),
           ~VerifyCount(r), ~VerifyDrop(r), ~VerifySpend(r)
    PROVE  Loose' \subseteq Loose /\ Excuses \subseteq Excuses'
<1> USE DEF TypeInv, OtpTypes, BaseTypes
<1>1. /\ \A q \in Requests : CodeStage(q) /\ PointerStage(q) /\ OtpStage(q)
      /\ \A i \in Ids : CodeHistory(i)
      /\ Requests \subseteq Ids /\ Nobody \notin Ids
      /\ \A q \in Requests \ {r} : otp'[q] = otp[q]
      /\ tangled \subseteq tangled'
  BY OtpAssumption, TalksAlone, HistoryMoves DEF CodeInv, Ids
<1>2. /\ revived' = revived
      /\ Sends(r) \/ VerifyLeave(r) \/ OtpFail(r)
         \/ (pc[r] = "new" /\ \E i \in Ids, right \in BOOLEAN : Exists(i) /\ VerifyGet(r, i, right))
  BY HistoryMoves DEF TalksToRedis, Verifies
(* The step keeps the codes and the pointer, or is one of these four.       *)
<1>3. \/ SendClear(r) \/ SendUndo(r) \/ SendPut(r) \/ SendPoint(r)
      \/ UNCHANGED <<codes, pointer>>
  BY <1>2 DEF Sends, SendStart, SendGet, SendUser, SendMail, SendMailFails, MailIgnored,
    VerifyGet, VerifyLeave, OtpFail
<1>4. /\ SendClear(r) => /\ otp[r].at = "clear" /\ otp'[r].at = "user" /\ otp[r].id \in Ids
                         /\ codes' = [codes EXCEPT ![otp[r].id] = NoCode] /\ pointer' = Nobody
      /\ SendUndo(r) => /\ otp[r].at = "undo" /\ otp'[r].at = "idle"
                        /\ codes' = [codes EXCEPT ![r] = NoCode] /\ pointer' = Nobody
      /\ SendPut(r) => /\ otp[r].at = "put" /\ otp'[r].at = "point" /\ pointer' = pointer
                       /\ codes' = [codes EXCEPT ![r] = [tries |-> 0, ttl |-> TRUE]]
      /\ SendPoint(r) => /\ otp[r].at = "point" /\ otp'[r].at = "mail"
                         /\ codes' = codes /\ pointer' = r
  <2>1. SendClear(r) => otp[r].at = "clear" /\ otp'[r].at = "user" /\ otp[r].id \in Ids
    BY <1>1, OtpAfter DEF SendClear, GoOtp, OtpStage
  <2>2. /\ SendUndo(r) => otp[r].at = "undo" /\ otp'[r].at = "idle"
        /\ SendPut(r) => otp[r].at = "put" /\ otp'[r].at = "point"
        /\ SendPoint(r) => otp[r].at = "point" /\ otp'[r].at = "mail"
    BY OtpAfter DEF SendUndo, SendPut, SendPoint, GoOtp, EndOtp, Idle
  <2> QED  BY <2>1, <2>2 DEF SendClear, SendUndo, SendPut, SendPoint, DeleteKeys
<1>5. Excuses \subseteq Excuses'
  <2> SUFFICES ASSUME NEW q \in Dead
               PROVE  q \in Dead'
    BY <1>2 DEF Excuses
  <2>1. q \in tangled /\ q \in Requests /\ ~Exists(q) /\ otp[q].at \notin BeforePut /\ pc[q] # "new"
    BY <1>1 DEF Dead, CodeStage
  <2>2. ~Exists(q)'
    <3>1. SendPut(r) => q # r
      BY <1>4, <2>1 DEF BeforePut
    <3> QED  BY <1>1, <1>3, <1>4, <2>1, <3>1 DEF Exists
  <2>3. otp'[q].at \notin BeforePut
    <3>1. CASE q = r
      <4>1. CASE Sends(r)
        <5>1. SendPoint(r) \/ SendMail(r) \/ SendUndo(r) \/ SendMailFails(r) \/ MailIgnored(r)
          BY <2>1, <3>1, <4>1 DEF Sends, SendGet, SendClear, SendUser, SendPut, GoOtp, EndOtp, BeforePut
        <5>2. otp'[r].at \in {"mail", "undo", "idle"}
          BY <5>1, OtpAfter DEF Idle
        <5> QED  BY <3>1, <5>2 DEF BeforePut
      <4>2. CASE VerifyLeave(r) \/ OtpFail(r)
        BY <3>1, <4>2, OtpAfter DEF Idle, BeforePut
      <4> QED  BY <1>2, <2>1, <3>1, <4>1, <4>2
    <3>2. CASE q # r
      BY <1>1, <2>1, <3>2
    <3> QED  BY <3>1, <3>2
  <2> QED  BY <1>1, <2>1, <2>2, <2>3 DEF Dead
<1>6. \A q \in Sending \ tangled' : q # r /\ otp[q].at = "point" => q \in Headed'
  BY <1>1 DEF Sending, Headed
<1>7. r \in Sending \ tangled' /\ otp[r].at = "point" => r \in Headed'
  <2> SUFFICES ASSUME r \in Sending \ tangled', otp[r].at = "point"
               PROVE  r \in Headed'
    OBVIOUS
  <2>1. Sends(r) /\ ~SendStart(r)
    BY <1>2 DEF OtpFail, VerifyLeave, VerifyGet, EndOtp, SendStart, GoOtp
  <2>2. SendPoint(r)
    BY <2>1 DEF Sends, SendGet, SendClear, SendUser, SendPut, SendMail, SendUndo, SendMailFails,
      MailIgnored, GoOtp, EndOtp
  <2> QED  BY <1>4, <2>2 DEF Headed
<1>8. Orphans' \subseteq Orphans
  <2> SUFFICES ASSUME NEW x \in Orphans'
               PROVE  x \in Orphans
    OBVIOUS
  <2>1. x \in Ids /\ Exists(x)' /\ x \notin tangled' /\ x \notin Headed' /\ x \notin tangled /\ x # Nobody
    BY <1>1 DEF Orphans, Live
  <2>2. Exists(x)
    <3>1. SendPut(r) => x # r
      <4>1. SendPut(r) /\ r \notin tangled' => r \in Headed'
        BY <1>4 DEF Headed, Sending, SendSteps
      <4> QED  BY <2>1, <4>1
    <3> QED  BY <1>1, <1>3, <1>4, <2>1, <3>1 DEF Exists
  <2>3. x # pointer
    <3>1. ASSUME x = pointer
          PROVE  FALSE
      <4>1. pointer' # pointer
        BY <2>1, <3>1 DEF Headed
      <4>2. SendClear(r) \/ SendUndo(r) \/ SendPoint(r)
        BY <1>3, <1>4, <4>1
      <4>3. CASE SendClear(r)
        <5>1. x = otp[r].id
          BY <1>1, <1>4, <2>1, <3>1, <4>3 DEF PointerStage
        <5> QED  BY <1>4, <2>1, <4>3, <5>1 DEF Exists
      <4>4. CASE SendUndo(r)
        <5>1. x = r
          BY <1>1, <1>4, <2>1, <3>1, <4>4 DEF PointerStage
        <5> QED  BY <1>4, <2>1, <4>4, <5>1 DEF Exists
      <4>5. CASE SendPoint(r)
        <5>1. x = r
          BY <1>1, <1>4, <2>1, <3>1, <4>5 DEF PointerStage
        <5> QED  BY <1>4, <3>1, <4>1, <4>5, <5>1
      <4> QED  BY <4>2, <4>3, <4>4, <4>5
    <3> QED  BY <3>1
  <2>4. x \notin Headed
    BY <1>6, <1>7, <2>1, <2>3 DEF Headed
  <2> QED  BY <2>1, <2>2, <2>4 DEF Orphans, Live

<1>9. ASSUME Hit'
      PROVE  Hit
  <2>1. /\ pointer' \in Ids /\ Exists(pointer)' /\ pointer' \notin tangled'
        /\ \/ ~codes'[pointer'].ttl
           \/ \E q \in Checking' : /\ otp'[q].at \in {"drop", "match"} /\ otp'[q].id # pointer'
                                   /\ ~Exists(otp[q].id)'
    BY <1>9 DEF Hit, Live, Exists
  <2>2. CASE SendPut(r) /\ pointer # r
    <3>1. pointer' = pointer /\ pointer \in Live \ tangled /\ codes'[pointer] = codes[pointer]
      BY <1>1, <1>4, <2>1, <2>2 DEF Live, Exists
    <3>2. ASSUME NEW q \in Checking', otp'[q].at \in {"drop", "match"}, otp'[q].id # pointer,
                 ~Exists(otp[q].id)'
          PROVE  Hit
      <4>1. q \in Checking /\ otp'[q] = otp[q]
        BY <1>1, <1>4, <2>2, <3>2 DEF Checking, VerifySteps
      <4>2. otp[q].id \in Ids /\ ~Exists(otp[q].id)
        <5>1. otp[q].id \in Ids
          BY <1>1, <4>1 DEF Checking, OtpStage
        <5>2. Exists(otp[q].id) => Exists(otp[q].id)'
          BY <1>4, <2>2, <4>1, <5>1 DEF Exists, NoCode
        <5> QED  BY <3>2, <4>1, <5>1, <5>2
      <4> QED  BY <3>1, <3>2, <4>1, <4>2 DEF Hit
    <3> QED  BY <2>1, <3>1, <3>2 DEF Hit
  <2>3. CASE (SendPut(r) /\ pointer = r) \/ SendPoint(r)
    <3>1. pointer' = r /\ r \notin tangled /\ r \in Sending
      BY <1>1, <1>4, <2>1, <2>3 DEF Sending, SendSteps
    <3>2. Checking' = {}
      <4>1. Checking = {}
        BY <1>1, <3>1 DEF PointerStage
      <4>2. otp'[r].at \notin VerifySteps
        BY <1>4, <2>3 DEF VerifySteps
      <4> QED  BY <1>1, <4>1, <4>2 DEF Checking
    <3>3. codes'[r].ttl
      <4>1. CASE SendPut(r)
        BY <1>1, <1>4, <4>1
      <4>2. CASE SendPoint(r)
        <5>1. r \notin mailed
          BY <1>1, <3>1 DEF CodeStage, Sending
        <5>2. codes' = codes /\ Exists(r)
          BY <1>4, <2>1, <3>1, <4>2 DEF Exists
        <5> QED  BY <1>1, <5>1, <5>2 DEF CodeHistory
      <4> QED  BY <2>3, <4>1, <4>2
    <3> QED  BY <2>1, <3>1, <3>2, <3>3
  <2>4. CASE SendClear(r) \/ SendUndo(r)
    BY <1>1, <1>4, <2>1, <2>4
  <2>5. CASE UNCHANGED <<codes, pointer>>
    <3>1. pointer \in Live \ tangled
      BY <1>1, <2>1, <2>5 DEF Live, Exists
    <3>2. ASSUME NEW q \in Checking', otp'[q].at \in {"drop", "match"}, otp'[q].id # pointer,
                 ~Exists(otp[q].id)'
          PROVE  q \in Checking /\ otp'[q] = otp[q]
      <4>1. q # r
        <5>1. ASSUME NEW i \in Ids, NEW right \in BOOLEAN, Exists(i), VerifyGet(r, i, right)
              PROVE  q # r
          BY <2>5, <3>2, <5>1, OtpAfter DEF Exists
        <5>2. ASSUME Sends(r) \/ VerifyLeave(r) \/ OtpFail(r)
              PROVE  otp'[r].at \notin VerifySteps
          <6>1. CASE Sends(r)
            BY <6>1, SendsTypes DEF SendSteps, VerifySteps
          <6>2. CASE otp'[r] = Idle
            BY <6>2 DEF Idle, VerifySteps
          <6> QED  BY <5>2, <6>1, <6>2, OtpAfter
        <5> QED  BY <1>2, <3>2, <5>1, <5>2 DEF Checking
      <4> QED  BY <1>1, <3>2, <4>1 DEF Checking
    <3>3. \A q \in Requests : Exists(otp[q].id)' = (codes[otp'[q].id] # NoCode)
      BY <2>5 DEF Exists
    <3> QED  BY <2>1, <2>5, <3>1, <3>2, <3>3 DEF Hit, Exists, Checking
  <2> QED  BY <1>3, <2>2, <2>3, <2>4, <2>5
<1> QED  BY <1>5, <1>8, <1>9 DEF Loose

(* One who verifies a code leaves no untangled send under way, and has not  *)
(* excused anything yet.                                                    *)
LEMMA CheckingAlone ==
    ASSUME TypeInv, CodeInv, NEW r \in Requests, TalksToRedis(r),
           VerifyCount(r) \/ VerifyDrop(r) \/ VerifySpend(r)
    PROVE  /\ r \in Checking /\ otp[r].id \in Ids /\ r \notin Excuses
           /\ Sending \subseteq tangled /\ Headed = {pointer}
           /\ otp'[r].at = "idle" /\ \A q \in Requests \ {r} : otp'[q] = otp[q]
           /\ Sending' = Sending /\ Checking' = Checking \ {r} /\ tangled' = tangled
           /\ \A q \in tangled : otp'[q].at = otp[q].at /\ q # r
<1> USE DEF TypeInv, OtpTypes
<1>1. otp[r].at \in {"count", "drop", "match"} /\ pc[r] # "done"
  BY TalksAlone DEF VerifyCount, VerifyDrop, VerifySpend, EndOtp
<1>2. /\ r \in Checking /\ otp[r].id \in Ids /\ op[r] # "send_otp"
      /\ \A q \in Requests : CodeStage(q) /\ PointerStage(q)
  BY <1>1 DEF Checking, VerifySteps, OtpStage, CodeInv
<1>3. r \notin revived /\ r \notin tangled
  BY <1>1, <1>2 DEF CodeStage
<1>4. Sending \subseteq tangled
  BY <1>2 DEF PointerStage, Sending
<1>5. otp'[r].at = "idle" /\ \A q \in Requests \ {r} : otp'[q] = otp[q]
  BY OtpAfter, TalksAlone DEF Idle
<1>6. Sending' = Sending /\ Checking' = Checking \ {r}
  BY <1>1, <1>5 DEF Sending, Checking, SendSteps, VerifySteps
<1>7. tangled' = tangled
  BY DEF VerifyCount, VerifyDrop, VerifySpend
<1>8. \A q \in tangled : otp'[q].at = otp[q].at /\ q # r
  BY <1>3, <1>5
<1> QED  BY <1>2, <1>3, <1>4, <1>5, <1>6, <1>7, <1>8 DEF Excuses, Dead, Headed

LEMMA CountPays ==
    ASSUME TypeInv, CodeInv, NEW r \in Requests, TalksToRedis(r), VerifyCount(r)
    PROVE  LoosePaid
<1> USE DEF TypeInv, OtpTypes
<1> DEFINE i == otp[r].id
<1>1. /\ r \in Checking /\ i \in Ids /\ r \notin Excuses
      /\ Sending \subseteq tangled /\ Headed = {pointer}
      /\ Sending' = Sending /\ Checking' = Checking \ {r} /\ tangled' = tangled
      /\ \A q \in Requests \ {r} : otp'[q] = otp[q]
      /\ \A q \in tangled : otp'[q].at = otp[q].at
  BY CheckingAlone
<1>2. /\ codes' = [codes EXCEPT ![i] = [tries |-> otp[r].seen + 1, ttl |-> codes[i].ttl]]
      /\ revived' = IF Exists(i) THEN revived ELSE revived \cup {r}
      /\ pointer' = pointer /\ otp[r].at = "count"
  BY DEF VerifyCount, EndOtp
<1>3. \A j \in Ids : Exists(j) => Exists(j)'
  <2>1. [tries |-> otp[r].seen + 1, ttl |-> codes[i].ttl] # NoCode
    <3>1. otp[r].seen + 1 # -1
      <4>1. otp[r].seen \in 0..MaxAttempts
        OBVIOUS
      <4> QED  BY <4>1, OtpAssumption
    <3> QED  BY <3>1 DEF NoCode
  <2> QED  BY <1>1, <1>2, <2>1 DEF Exists
<1>4. \A j \in Ids \ {i} : codes'[j] = codes[j] /\ (Exists(j)' => Exists(j))
  BY <1>1, <1>2 DEF Exists
<1>5. codes'[i].ttl = codes[i].ttl
  BY <1>1, <1>2
<1>6. Headed' = {pointer}
  BY <1>1, <1>2 DEF Headed
<1>7. Orphans' \subseteq Orphans \cup ({i} \ (tangled \cup {pointer}))
  BY <1>1, <1>4, <1>6 DEF Orphans, Live
<1>8. \A q \in Checking' : otp'[q] = otp[q] /\ otp[q].id \in Ids /\ q \in Requests
  BY <1>1 DEF Checking, OtpStage
<1>9. Hit' /\ pointer \in Live => Hit
  <2>1. ASSUME NEW q \in Checking', otp'[q].at \in {"drop", "match"}, otp'[q].id # pointer,
               ~Exists(otp[q].id)'
        PROVE  q \in Checking /\ otp[q].at \in {"drop", "match"} /\ otp[q].id # pointer
               /\ ~Exists(otp[q].id)
    <3>1. otp[q].id \in Ids /\ otp'[q] = otp[q] /\ q \in Checking
      BY <1>1, <1>8, <2>1
    <3>2. Exists(otp[q].id) => codes'[otp'[q].id] # NoCode
      BY <1>3, <3>1 DEF Exists
    <3> QED  BY <2>1, <3>1, <3>2 DEF Exists
  <2>2. codes'[pointer].ttl = codes[pointer].ttl \/ pointer \notin Ids
    BY <1>4, <1>5
  <2> QED  BY <1>1, <1>2, <2>1, <2>2 DEF Hit, Live, Exists
<1>10. Dead \ {i} \subseteq Dead'
  BY <1>1, <1>4 DEF Dead, Ids
<1>11. CASE Exists(i)
  <2>1. Dead' = Dead /\ revived' = revived
    BY <1>1, <1>2, <1>3, <1>4, <1>11 DEF Dead, Ids
  <2>2. Orphans' \subseteq Orphans /\ (pointer \in Live' => pointer \in Live)
    <3>1. Live' = Live
      BY <1>1, <1>3, <1>4, <1>11 DEF Live
    <3> QED  BY <1>1, <1>6, <3>1 DEF Orphans
  <2>3. Hit' => Hit
    BY <1>2, <1>9, <2>2 DEF Hit
  <2>4. Loose' \subseteq Loose /\ Excuses \subseteq Excuses'
    BY <2>1, <2>2, <2>3 DEF Loose, Excuses
  <2> QED  BY <2>4 DEF LoosePaid
<1>12. CASE ~Exists(i)
  <2>1. r \notin Excuses /\ r \in Excuses'
    BY <1>1, <1>2, <1>12 DEF Excuses
  <2>2. CASE i \in tangled
    <3>1. Orphans' \subseteq Orphans
      BY <1>7, <2>2
    <3>2. Hit' => Hit
      <4>1. Hit' => pointer \in Live' \ tangled
        BY <1>1, <1>2 DEF Hit
      <4>2. Hit' => pointer \in Live
        BY <1>4, <2>2, <4>1 DEF Live
      <4> QED  BY <1>9, <4>2
    <3>3. Loose' \subseteq Loose /\ (Excuses \ {i}) \cup {r} \subseteq Excuses'
      BY <1>2, <1>10, <2>1, <3>1, <3>2 DEF Loose, Excuses
    <3> QED  BY <2>1, <3>3 DEF LoosePaid
  <2>3. CASE i \notin tangled
    <3> DEFINE x == IF pointer = i THEN Nobody ELSE i
    <3>1. Excuses \cup {r} \subseteq Excuses'
      BY <1>2, <1>10, <2>1, <2>3 DEF Excuses, Dead
    <3>2. Loose' \subseteq Loose \cup {x}
      <4>1. CASE pointer = i
        BY <1>7, <4>1 DEF Loose
      <4>2. CASE pointer # i
        <5>1. Hit' => pointer \in Live
          BY <1>1, <1>2, <1>4, <4>2 DEF Hit, Live
        <5> QED  BY <1>7, <1>9, <4>2, <5>1 DEF Loose
      <4> QED  BY <4>1, <4>2
    <3> HIDE DEF x
    <3> QED  BY <2>1, <3>1, <3>2 DEF LoosePaid
  <2> QED  BY <2>2, <2>3
<1> QED  BY <1>11, <1>12

LEMMA DeletePays ==
    ASSUME TypeInv, CodeInv, NEW r \in Requests, TalksToRedis(r), VerifyDrop(r) \/ VerifySpend(r)
    PROVE  LoosePaid
<1> USE DEF TypeInv, OtpTypes
<1>0. PICK j \in Ids : j = otp[r].id
  BY CheckingAlone
<1>1. /\ r \in Checking /\ r \notin Excuses
      /\ Sending \subseteq tangled /\ Headed = {pointer}
      /\ Sending' = Sending /\ tangled' = tangled
      /\ \A q \in tangled : otp'[q].at = otp[q].at /\ q # r
  BY CheckingAlone
<1>2. /\ codes' = [codes EXCEPT ![j] = NoCode] /\ pointer' = Nobody /\ revived' = revived
      /\ otp[r].at \in {"drop", "match"}
  BY <1>0 DEF VerifyDrop, VerifySpend, DeleteKeys, EndOtp
<1>3. /\ ~Exists(j)' /\ \A i \in Ids \ {j} : codes'[i] = codes[i]
      /\ Live' = Live \ {j} /\ Nobody \notin Ids
  <2>1. ~Exists(j)' /\ \A i \in Ids \ {j} : codes'[i] = codes[i]
    BY <1>1, <1>2 DEF Exists
  <2>2. Live' = Live \ {j}
    BY <2>1 DEF Exists, Live
  <2> QED  BY <2>1, <2>2, OtpAssumption DEF Ids
<1>4. ~Hit'
  BY <1>2, <1>3 DEF Hit, Live
<1>5. Loose' \subseteq (Orphans \ {j}) \cup ({pointer} \cap (Live \ (tangled \cup {j})))
  BY <1>1, <1>3, <1>4 DEF Loose, Orphans
<1>6. Dead \subseteq Dead' /\ Excuses \subseteq Excuses'
  BY <1>1, <1>2, <1>3 DEF Dead, Excuses, Ids, Exists
<1>7. CASE pointer \notin Live \ (tangled \cup {j})
  <2>1. Loose' \subseteq Loose
    BY <1>5, <1>7 DEF Loose
  <2> QED  BY <1>6, <2>1 DEF LoosePaid
<1>8. CASE pointer \in Live \ (tangled \cup {j})
  <2>1. CASE ~Exists(j)
    <3>1. Hit
      BY <1>0, <1>1, <1>2, <1>8, <2>1 DEF Hit
    <3>2. Nobody \in Loose /\ Nobody \notin Orphans
      BY <1>3, <3>1 DEF Loose, Orphans, Live
    <3>3. Loose' \subseteq (Loose \ {Nobody}) \cup {pointer}
      BY <1>5, <3>2 DEF Loose
    <3> QED  BY <1>6, <3>2, <3>3 DEF LoosePaid
  <2>2. CASE Exists(j) /\ j \notin tangled
    <3>1. j \in Loose
      BY <1>1, <1>8, <2>2 DEF Loose, Orphans, Live
    <3>2. Loose' \subseteq (Loose \ {j}) \cup {pointer}
      BY <1>5 DEF Loose
    <3> QED  BY <1>6, <3>1, <3>2 DEF LoosePaid
  <2>3. CASE Exists(j) /\ j \in tangled
    <3>1. j \notin Excuses
      <4>1. op[j] = "send_otp"
        BY <2>3 DEF CodeInv, CodeStage
      <4>2. j \notin revived
        BY <4>1 DEF CodeInv, CodeStage
      <4> QED  BY <2>3, <4>2 DEF Excuses, Dead
    <3>2. j \in Dead'
      <4>1. otp[j].at \notin BeforePut
        BY <2>3 DEF CodeInv, CodeStage
      <4> QED  BY <1>1, <1>3, <2>3, <4>1 DEF Dead
    <3>3. Excuses \cup {j} \subseteq Excuses'
      BY <1>6, <3>2 DEF Excuses
    <3>4. Loose' \subseteq Loose \cup {pointer}
      BY <1>5 DEF Loose
    <3> QED  BY <3>1, <3>3, <3>4 DEF LoosePaid
  <2> QED  BY <2>1, <2>2, <2>3
<1> QED  BY <1>7, <1>8

LEMMA ExpiryPays ==
    ASSUME TypeInv, CodeInv, ExpirePointer \/ \E i \in Ids : Expire(i)
    PROVE  LoosePaid
<1> USE DEF TypeInv, OtpTypes
<1>1. /\ UNCHANGED <<otp, tangled, revived>> /\ Sending' = Sending /\ Checking' = Checking
      /\ Nobody \notin Ids
  BY OtpAssumption DEF ExpirePointer, Expire, Sending, Checking, Ids
<1>2. CASE ExpirePointer
  <2>1. UNCHANGED codes /\ pointer' = Nobody /\ pointer # Nobody /\ ~codes[pointer].ttl
    BY <1>2 DEF ExpirePointer
  <2>2. Live' = Live /\ Dead' = Dead /\ Excuses' = Excuses /\ ~Hit'
    BY <1>1, <2>1 DEF Live, Exists, Dead, Excuses, Hit
  <2>3. Loose' \subseteq Orphans \cup ({pointer} \cap (Live \ tangled))
    BY <1>1, <2>1, <2>2 DEF Loose, Orphans, Headed
  <2>4. CASE pointer \in Live \ tangled
    <3>1. Hit /\ Nobody \in Loose /\ Nobody \notin Orphans
      BY <1>1, <2>1, <2>4 DEF Hit, Loose, Orphans, Live
    <3>2. Loose' \subseteq (Loose \ {Nobody}) \cup {pointer}
      BY <2>3, <3>1 DEF Loose
    <3> QED  BY <2>2, <3>1, <3>2 DEF LoosePaid
  <2>5. CASE pointer \notin Live \ tangled
    <3>1. Loose' \subseteq Loose /\ Excuses \subseteq Excuses'
      BY <2>2, <2>3, <2>5 DEF Loose
    <3> QED  BY <3>1 DEF LoosePaid
  <2> QED  BY <2>4, <2>5
<1>3. ASSUME NEW i \in Ids, Expire(i)
      PROVE  LoosePaid
  <2>1. Exists(i) /\ codes[i].ttl /\ codes' = [codes EXCEPT ![i] = NoCode] /\ pointer' = pointer
    BY <1>3 DEF Expire
  <2>2. /\ Live' = Live \ {i} /\ ~Exists(i)' /\ \A j \in Ids \ {i} : codes'[j] = codes[j]
        /\ Headed' = Headed
    BY <1>1, <2>1 DEF Live, Exists, Headed
  <2>3. Dead \subseteq Dead' /\ Excuses \subseteq Excuses'
    BY <1>1, <2>1, <2>2 DEF Dead, Excuses, Exists, Ids
  <2>4. Loose' \subseteq (Orphans \ {i}) \cup (IF Hit' THEN {Nobody} ELSE {}) /\ Nobody \notin Orphans
    BY <1>1, <2>2 DEF Loose, Orphans, Live
  <2>5. CASE i \in tangled
    <3>1. i \notin Excuses /\ i \in Dead'
      <4>1. op[i] = "send_otp" /\ otp[i].at \notin BeforePut
        BY <2>1, <2>5 DEF CodeInv, CodeStage
      <4>2. i \notin revived
        BY <2>5, <4>1 DEF CodeInv, CodeStage
      <4> QED  BY <1>1, <2>1, <2>2, <2>5, <4>1, <4>2 DEF Excuses, Dead
    <3>2. Excuses \cup {i} \subseteq Excuses'
      BY <2>3, <3>1 DEF Excuses
    <3>3. Loose' \subseteq Loose \cup {Nobody}
      BY <2>4 DEF Loose
    <3> QED  BY <3>1, <3>2, <3>3 DEF LoosePaid
  <2>6. CASE i \in Orphans
    <3>1. i \in Loose /\ Loose' \subseteq (Loose \ {i}) \cup {Nobody}
      BY <2>4, <2>6 DEF Loose
    <3> QED  BY <2>3, <3>1 DEF LoosePaid
  <2>7. CASE i \in Headed \ tangled
    <3>1. Hit' => Hit
      <4>1. CASE i = pointer
        BY <1>1, <2>1, <2>2, <4>1 DEF Hit
      <4>2. CASE i # pointer
        <5>1. i \in Sending \ tangled /\ Checking = {}
          BY <2>7, <4>2 DEF Headed, CodeInv, PointerStage, Sending
        <5> QED  BY <1>1, <2>1, <2>2, <4>2, <5>1 DEF Hit, Live
      <4> QED  BY <4>1, <4>2
    <3>2. Loose' \subseteq Loose
      BY <2>4, <3>1 DEF Loose
    <3> QED  BY <2>3, <3>2 DEF LoosePaid
  <2> QED  BY <2>1, <2>5, <2>6, <2>7 DEF Orphans, Live
<1> QED  BY <1>2, <1>3

LEMMA LoosePaidNext ==
    ASSUME TypeInv, CodeInv, Next
    PROVE  LoosePaid
<1>1. CASE Quiet
  <2>1. Loose' = Loose /\ Excuses' = Excuses
    BY <1>1 DEF Quiet, otpVars, Loose, Orphans, Live, Exists, Headed, Hit, Sending, Checking,
      Excuses, Dead
  <2> QED  BY <2>1 DEF LoosePaid
<1>2. ASSUME NEW r \in Requests, TalksToRedis(r)
      PROVE  LoosePaid
  <2>1. CASE ~VerifyCount(r) /\ ~VerifyDrop(r) /\ ~VerifySpend(r)
    BY <1>2, <2>1, NoneLoosened DEF LoosePaid
  <2> QED  BY <1>2, <2>1, CountPays, DeletePays
<1> QED  BY <1>1, <1>2, ExpiryPays, CodeMovesNext DEF CodeMoves

LEMMA CodeInit == Init => CodeInv
<1> SUFFICES ASSUME Init
             PROVE  CodeInv
  OBVIOUS
<1>1. TypeInv
  BY TypeInit
<1>2. /\ \A r \in Requests : otp[r] = Idle /\ codes[r] = NoCode /\ pc[r] \in {"new", "done"}
      /\ Ids = Requests \cup {Prior} /\ Prior \notin Requests /\ Nobody \notin Ids
      /\ \A i \in Ids : guesses[i] = {} /\ spent[i] = {} /\ crowd[i] = {}
      /\ mailed = {Prior} /\ tangled = {} /\ revived = {}
  BY OtpAssumption DEF Init, OtpInit, Ids
<1>3. /\ codes[Prior] \in {NoCode, [tries |-> 0, ttl |-> TRUE]}
      /\ pointer = IF Exists(Prior) THEN Prior ELSE Nobody
  BY <1>2 DEF Init, OtpInit
<1>4. Sending = {} /\ Checking = {} /\ \A i \in Ids : Verifying(i) = {}
  BY <1>2 DEF Sending, Checking, Verifying, Idle, SendSteps, VerifySteps
<1>5. \A r \in Requests : CodeStage(r) /\ PointerStage(r)
  BY <1>2, <1>4 DEF CodeStage, PointerStage, Idle, Exists, BeforePut, SendSteps, VerifySteps
<1>6. ASSUME NEW i \in Ids
      PROVE  CodeHistory(i)
  <2>1. /\ Counted(i) = {} /\ guesses[i] \ crowd[i] = {} /\ spent[i] \ crowd[i] = {}
    BY <1>2 DEF Counted
  <2>2. /\ Cardinality(Counted(i)) = 0 /\ Cardinality(guesses[i] \ crowd[i]) = 0
        /\ Cardinality(spent[i] \ crowd[i]) = 0
    BY <2>1, FS_EmptySet
  <2>3. Exists(i) => i = Prior /\ codes[i].tries = 0 /\ codes[i].ttl
    BY <1>2, <1>3 DEF Exists
  <2> QED  BY <1>2, <1>4, <2>1, <2>2, <2>3, OtpAssumption DEF CodeHistory
<1>7. Loose = {} /\ Excuses = {}
  <2>1. Live \subseteq {Prior} /\ (Exists(Prior) => pointer = Prior /\ codes[Prior].ttl)
    BY <1>2, <1>3 DEF Live, Exists
  <2>2. Orphans = {}
    BY <2>1 DEF Orphans, Headed, Live
  <2>3. ~Hit
    BY <1>4, <2>1 DEF Hit, Live
  <2> QED  BY <1>2, <2>2, <2>3 DEF Loose, Excuses, Dead
<1>8. Cardinality(Loose) <= Cardinality(Excuses)
  <2>1. Cardinality(Loose) = 0 /\ Cardinality(Excuses) = 0
    BY <1>7, FS_EmptySet
  <2> QED  BY <2>1
<1> QED  BY <1>5, <1>6, <1>8 DEF CodeInv

LEMMA CodeStep == TypeInv /\ CodeInv /\ [Next]_vars => CodeInv'
<1> SUFFICES ASSUME TypeInv, CodeInv, [Next]_vars
             PROVE  CodeInv'
  OBVIOUS
<1>1. CASE Next
  <2>1. Cardinality(Loose) <= Cardinality(Excuses)
    BY DEF CodeInv
  <2>2. Cardinality(Loose') <= Cardinality(Excuses')
    BY <1>1, <2>1, LoosePaidNext, FewerLoose, OtpTypesNext
  <2>3. /\ \A r \in Requests : CodeStage(r)' /\ PointerStage(r)'
        /\ \A i \in Ids : CodeHistory(i)'
    BY <1>1, CodeStageNext, PointerStageNext, CodeHistoryNext
  <2> QED  BY <2>2, <2>3 DEF CodeInv
<1>2. CASE UNCHANGED vars
  <2>1. UNCHANGED <<codes, pointer, otp, mailed, guesses, spent, crowd, tangled, revived, op, pc>>
    BY <1>2 DEF vars, otpVars
  <2>2. Loose' = Loose /\ Excuses' = Excuses
    BY <2>1 DEF Loose, Orphans, Live, Exists, Headed, Hit, Sending, Checking, Excuses, Dead
  <2>3. Cardinality(Loose') <= Cardinality(Excuses')
    BY <2>2 DEF CodeInv
  <2>4. \A r \in Requests : CodeStage(r)' /\ PointerStage(r)'
    BY <2>1 DEF CodeInv, CodeStage, PointerStage, Exists, Sending, Checking
  <2>5. \A i \in Ids : CodeHistory(i)'
    <3>1. \A i \in Ids : CodeHistory(i)
      BY DEF CodeInv
    <3>2. \A i \in Ids : Verifying(i)' = Verifying(i) /\ Counted(i)' = Counted(i)
      BY <2>1 DEF Verifying, Counted
    <3> QED  BY <2>1, <3>1, <3>2 DEF CodeHistory, Exists
  <2> QED  BY <2>3, <2>4, <2>5 DEF CodeInv
<1> QED  BY <1>1, <1>2

LEMMA DisjointUnion ==
    ASSUME NEW S, IsFiniteSet(S), NEW T, IsFiniteSet(T), S \cap T = {}
    PROVE  /\ IsFiniteSet(S \cup T)
           /\ Cardinality(S \cup T) = Cardinality(S) + Cardinality(T)
<1>1. /\ IsFiniteSet(S \cup T)
      /\ Cardinality(S \cup T) = Cardinality(S) + Cardinality(T) - Cardinality(S \cap T)
  BY FS_Union
<1>2. Cardinality(S \cap T) = 0
  BY FS_EmptySet
<1>3. Cardinality(S) \in Nat /\ Cardinality(T) \in Nat
  BY FS_CardinalityType
<1> QED  BY <1>1, <1>2, <1>3

(* A code is compared with no more than OTP_MAX_ATTEMPTS wrong guesses and  *)
(* is used up once, but for verifications that overlapped another one; and  *)
(* of the codes no more than one is alive for each send that got tangled    *)
(* and each guess that revived a code, and one: sendOtp and _verifyOtp,     *)
(* however their Redis commands interleave, and whichever fails.            *)
THEOREM CodesGuarded == Spec => []CodesAreGuarded
<1>1. ASSUME TypeInv, CodeInv
      PROVE  CodesAreGuarded
  <2> USE <1>1 DEF TypeInv, OtpTypes
  <2>1. SingleUse /\ AttemptsBounded
    BY DEF CodeInv, CodeHistory, SingleUse, AttemptsBounded
  <2>2. Cardinality(Loose) <= Cardinality(Excuses) /\ (\A r \in Requests : CodeStage(r) /\ PointerStage(r))
    BY DEF CodeInv
  <2>3. tangled \cup revived \in SUBSET Requests /\ Excuses \in SUBSET Requests
        /\ Live \cap tangled \in SUBSET Requests
    BY DEF Excuses, Dead
  <2>4. IsFiniteSet(Live) /\ Live \subseteq Ids
    <3>1. IsFiniteSet(Ids)
      BY OtpAssumption, FS_AddElement DEF Ids
    <3> QED  BY <3>1, FS_Subset DEF Live
  <2> DEFINE Pointed == (Live \ tangled) \cap Headed
  <2>5. \E h : Pointed \subseteq {h}
    <3>1. CASE Sending \ tangled = {}
      BY <3>1 DEF Headed
    <3>2. ASSUME NEW r \in Sending \ tangled
          PROVE  Pointed \subseteq {r} \/ Pointed \subseteq {pointer}
      <4>1. Sending = {r} /\ r \in Requests
        BY <2>2 DEF PointerStage, Sending
      <4>2. CASE otp[r].at = "point"
        <5>1. pointer \in tangled \cup {Nobody, r} /\ Nobody \notin Ids
          BY <2>2, <4>1, <4>2, OtpAssumption DEF PointerStage, Ids
        <5> QED  BY <2>4, <4>1, <5>1 DEF Headed
      <4>3. CASE otp[r].at # "point"
        BY <4>1, <4>3 DEF Headed
      <4> QED  BY <4>2, <4>3
    <3> QED  BY <3>1, <3>2
  <2>6. PICK h : Pointed \subseteq {h}
    BY <2>5
  <2>7. /\ IsFiniteSet(Orphans) /\ Cardinality(Orphans) \in Nat
        /\ Cardinality(Orphans) <= Cardinality(Excuses) /\ Cardinality(Excuses) \in Nat
    <3>1. Orphans \subseteq Loose /\ Orphans \subseteq Live
      BY DEF Loose, Orphans
    <3>2. IsFiniteSet(Loose)
      <4>1. Loose \subseteq Live \cup {Nobody}
        BY DEF Loose, Orphans
      <4>2. IsFiniteSet(Live \cup {Nobody})
        BY <2>4, FS_AddElement
      <4> QED  BY <4>1, <4>2, FS_Subset
    <3>3. Cardinality(Orphans) <= Cardinality(Loose) /\ IsFiniteSet(Orphans)
      BY <3>1, <3>2, FS_Subset
    <3>4. Cardinality(Orphans) \in Nat /\ Cardinality(Loose) \in Nat /\ Cardinality(Excuses) \in Nat
      BY <2>3, <3>2, <3>3, RequestSets, FS_CardinalityType
    <3> QED  BY <2>2, <3>3, <3>4
  <2>8. /\ Excuses \cap (Live \cap tangled) = {}
        /\ Excuses \cup (Live \cap tangled) \subseteq tangled \cup revived
    <3>1. \A r \in revived : r \notin tangled
      BY <2>2 DEF CodeStage
    <3> QED  BY <3>1 DEF Excuses, Dead, Live
  <2>9. Cardinality(Excuses) + Cardinality(Live \cap tangled) <= Cardinality(tangled \cup revived)
    <3>1. /\ IsFiniteSet(Excuses) /\ IsFiniteSet(Live \cap tangled)
          /\ IsFiniteSet(tangled \cup revived)
      BY <2>3, RequestSets
    <3>2. Cardinality(Excuses \cup (Live \cap tangled)) =
              Cardinality(Excuses) + Cardinality(Live \cap tangled)
      BY <2>8, <3>1, DisjointUnion
    <3>3. Cardinality(Excuses \cup (Live \cap tangled)) <= Cardinality(tangled \cup revived)
      BY <2>8, <3>1, FS_Subset
    <3> QED  BY <3>2, <3>3
  <2>10. Cardinality(Live) <= Cardinality(Orphans) + Cardinality(Live \cap tangled) + 1
    <3>1. /\ IsFiniteSet(Live \cap tangled) /\ Cardinality(Live \cap tangled) \in Nat
          /\ Orphans \cap (Live \cap tangled) = {}
      BY <2>3, RequestSets DEF Orphans
    <3> DEFINE Rest == Orphans \cup (Live \cap tangled)
    <3>2. IsFiniteSet(Rest) /\ Cardinality(Rest) = Cardinality(Orphans) + Cardinality(Live \cap tangled)
      BY <2>7, <3>1, DisjointUnion
    <3>3. Live \subseteq Rest \cup {h}
      BY <2>6 DEF Orphans
    <3> HIDE DEF Rest
    <3>4. Cardinality(Rest \cup {h}) <= Cardinality(Rest) + 1 /\ IsFiniteSet(Rest \cup {h})
          /\ Cardinality(Rest \cup {h}) \in Nat
      <4>1. Cardinality(Rest) \in Nat
        BY <3>2, FS_CardinalityType
      <4>2. /\ IsFiniteSet(Rest \cup {h})
            /\ Cardinality(Rest \cup {h}) = IF h \in Rest THEN Cardinality(Rest) ELSE Cardinality(Rest) + 1
        BY <3>2, FS_AddElement
      <4> QED  BY <4>1, <4>2
    <3>5. Cardinality(Live) <= Cardinality(Rest \cup {h}) /\ Cardinality(Live) \in Nat
      BY <2>4, <3>3, <3>4, FS_Subset, FS_CardinalityType
    <3>6. Cardinality(Rest) \in Nat
      BY <3>2, FS_CardinalityType
    <3> QED  BY <2>7, <3>1, <3>2, <3>4, <3>5, <3>6
  <2>11. OneCode
    <3>1. /\ Cardinality(Live \cap tangled) \in Nat /\ Cardinality(tangled \cup revived) \in Nat
          /\ Cardinality(Live) \in Nat
      BY <2>3, <2>4, RequestSets, FS_CardinalityType
    <3> QED  BY <2>7, <2>9, <2>10, <3>1 DEF OneCode
  <2> QED  BY <2>1, <2>11 DEF CodesAreGuarded
<1> QED  BY <1>1, CodeInit, CodeStep, TypeInit, TypeStep, PTL DEF Spec
================================================================================
