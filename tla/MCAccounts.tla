------------------------------- MODULE MCAccounts -------------------------------
(* Accounts with the combinations of requests that share state. *)
EXTENDS Accounts

CONSTANTS r1, r2, r3, d1, d2

MCDevices == <<d1, d2>>

OpOrder == <<"none", "register", "login", "google", "otp_login", "send_otp", "verify_otp", "change",
             "reset", "patch", "delete", "refresh", "logout", "logout_others", "assign_role", "update_role">>
OpRank == [o \in Ops |-> CHOOSE i \in DOMAIN OpOrder : OpOrder[i] = o]

Row(secret, linked, provider) ==
    [id |-> 1, ver |-> 1, secret |-> secret, linked |-> linked,
     provider |-> provider, roles |-> {"USER"}]
MCStarts == {NoUser, Row(TRUE, FALSE, "local"), Row(FALSE, TRUE, "google")}

(* r1, r2 and r3 ask for three of the operations in S, in this order. *)
Threes(S) == {r1 :> t[1] @@ r2 :> t[2] @@ r3 :> t[3] :
                 t \in {u \in S \X S \X S : OpRank[u[1]] <= OpRank[u[2]] /\ OpRank[u[2]] <= OpRank[u[3]]}}

(* Every two operations, and threes of those that touch the same rows. *)
MCMixes ==
    {m \in Threes(Ops) : m[r1] = "none"}
    \cup {m \in Threes({"send_otp", "verify_otp"}) : m[r2] = "verify_otp"}
    \cup Threes({"login", "google", "register", "change", "delete"})
    \cup Threes({"login", "refresh", "logout", "logout_others"})
    \cup Threes({"reset", "google", "login", "patch"})
    \cup Threes({"update_role", "assign_role", "register"})
================================================================================
