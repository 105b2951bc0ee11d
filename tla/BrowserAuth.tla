------------------------------ MODULE BrowserAuth ------------------------------
(***************************************************************************)
(* One tab of the frontend: the sign-in state of AuthContext and the axios *)
(* interceptors that attach the access token and refresh it after a 401.   *)
(* The interceptors do not read the React state: AuthContext hands them    *)
(* three functions (configureAuth), and those are closures over the token  *)
(* that was current when they were made.                                   *)
(*                                                                         *)
(* The authentication service is the part that Accounts models; here it    *)
(* only issues tokens, keeps the session of the cookie and refuses.        *)
(***************************************************************************)
EXTENDS Integers, FiniteSets, Sequences

CONSTANTS
    Users,
    SignIns,    \* the ways to sign in: the login form, the Google popup
    Calls,      \* API calls that need a token
    Logouts,    \* those of them that log out,
    Deletions,  \*   and those that delete the account
    NoOne,
    Ended,      \* the cookie names a session that is over
    MaxTokens,  \* bound: access tokens issued in a behaviour
    Loads       \* which sign-ins and calls a behaviour may have

ASSUME BrowserAssumption ==
    /\ NoOne \notin Users /\ Ended \notin Users \cup {NoOne}
    /\ "restore" \notin SignIns \cup Calls /\ SignIns \cap Calls = {}
    /\ Logouts \subseteq Calls /\ Deletions \subseteq Calls \ Logouts
    /\ MaxTokens \in Nat
    /\ \A load \in Loads : load \subseteq SignIns \cup Calls

VARIABLES
    able,          \* the sign-ins and calls of this behaviour
    hooks,         \* what configureAuth was last given
    accessToken,   \* React state; a token is its number, 0 is none
    user,          \* React state
    isRefreshing,
    refreshSubscribers,
    call,          \* call[c]: where the call is, the token it carries
    sign,          \* sign[s]: where the sign-in is, the token it was answered
    cookie,        \* the session cookie: whose session it names
    issued,        \* issued[t]: the user token t was issued to
    live,          \* tokens that have not expired
    overtaken,     \* history: a change of the sign-in state met another one
    abandoned      \* history: calls that waited when a refresh failed

authVars == <<able, hooks, accessToken, user, isRefreshing, refreshSubscribers, call, sign,
              cookie, issued, live, overtaken, abandoned>>
serverVars == <<able, cookie, issued, live>>
stateVars == <<hooks, accessToken, user>>
refreshVars == <<isRefreshing, refreshSubscribers, abandoned>>

Tokens == 1 .. MaxTokens
Flows == SignIns \cup {"restore"}
Leaves == Logouts \cup Deletions

\* The three functions of configureAuth: what getToken returns, whether setToken
\* reaches the React state and whether logout clears it.
NotConfigured == [token |-> 0, sets |-> FALSE, clears |-> FALSE]
Cleared == [token |-> 0, sets |-> TRUE, clears |-> FALSE]
Configured(t) == [token |-> t, sets |-> TRUE, clears |-> TRUE]

IsAuthenticated == accessToken # 0 /\ user # NoOne
IsLoading == sign["restore"].at # "done"
Refreshing == {c \in Calls : call[c].at \in {"refresh", "refreshed"}}

AuthInit ==
    /\ able \in Loads
    /\ hooks = NotConfigured
    /\ accessToken = 0 /\ user = NoOne
    /\ isRefreshing = FALSE /\ refreshSubscribers = {}
    /\ call = [c \in Calls |-> [at |-> "idle", token |-> 0, retry |-> FALSE, got |-> 0]]
    /\ sign = [s \in Flows |-> [at |-> IF s = "restore" THEN "asked" ELSE "idle", token |-> 0]]
    /\ cookie \in Users \cup {NoOne}
    /\ issued = <<>> /\ live = {}
    /\ overtaken = FALSE /\ abandoned = {}

(* History: the sign-in state changes while somebody else is about to change *)
(* it, or a call on its way may come to.                                     *)
Overtakes(actor) ==
    overtaken' = (\/ overtaken
                  \/ \E s \in Flows \ {actor} : sign[s].at \in {"answered", "profile"}
                  \/ \E c \in Calls \ {actor} : call[c].at \in {"sent", "refresh", "refreshed"})

Issue(u) ==
    /\ Len(issued) < MaxTokens
    /\ issued' = Append(issued, u)
    /\ live' = live \cup {Len(issued) + 1}

(* Mutant: the interceptors keep the functions of the last sign-in. *)
ClearAuth_HooksKept ==
    /\ accessToken' = 0 /\ user' = NoOne
    /\ UNCHANGED hooks

ClearAuth ==
    /\ accessToken' = 0 /\ user' = NoOne
    /\ hooks' = Cleared

SetAccessToken(t) ==
    /\ accessToken' = t
    /\ hooks' = Configured(t)

-------------------------------------------------------------------------------
(* Sign-in: restoreSession, login and register, the Google popup *)

(* The form or the popup; the login page leaves once somebody is signed in. *)
SignIn(s) ==
    /\ s \in able /\ sign[s].at = "idle" /\ ~IsAuthenticated
    /\ sign' = [sign EXCEPT ![s].at = "asked"]
    /\ UNCHANGED <<stateVars, refreshVars, call, serverVars, overtaken>>

(* The service signs u in; a restore only refreshes the session of the cookie. *)
SignInAnswered(s, u) ==
    /\ sign[s].at = "asked"
    /\ s = "restore" => cookie = u
    /\ Issue(u)
    /\ cookie' = u
    /\ sign' = [sign EXCEPT ![s] = [at |-> "answered", token |-> Len(issued) + 1]]
    /\ UNCHANGED <<able, stateVars, refreshVars, call, overtaken>>

SignInRefused(s) ==
    /\ sign[s].at = "asked"
    /\ sign' = [sign EXCEPT ![s].at = "refused"]
    /\ UNCHANGED <<stateVars, refreshVars, call, serverVars, overtaken>>

(* A restore that fails clears whatever is there by then. *)
SignInFails(s) ==
    /\ sign[s].at = "refused"
    /\ sign' = [sign EXCEPT ![s].at = IF s = "restore" THEN "done" ELSE "idle"]
    /\ IF s = "restore" THEN ClearAuth /\ Overtakes(s) ELSE UNCHANGED <<stateVars, overtaken>>
    /\ UNCHANGED <<refreshVars, call, serverVars>>

(* applyAuthResponse up to the fetch of the profile. *)
Apply(s) ==
    /\ sign[s].at = "answered"
    /\ sign' = [sign EXCEPT ![s].at = "profile"]
    /\ SetAccessToken(sign[s].token)
    /\ Overtakes(s)
    /\ UNCHANGED <<user, refreshVars, call, serverVars>>

(* The profile came, or the user is read from the token. *)
Profile(s) ==
    /\ sign[s].at = "profile"
    /\ sign' = [sign EXCEPT ![s] = [at |-> IF s = "restore" THEN "done" ELSE "idle", token |-> 0]]
    /\ user' = issued[sign[s].token]
    /\ Overtakes(s)
    /\ UNCHANGED <<hooks, accessToken, refreshVars, call, serverVars>>

-------------------------------------------------------------------------------
(* API calls and the interceptors *)

(* The request interceptor: the token of getToken, else the header that is there. *)
Sent(k, header) ==
    [k EXCEPT !.at = "sent", !.token = IF hooks.token # 0 THEN hooks.token ELSE header]

Send(c) ==
    /\ c \in able /\ call[c].at = "idle" /\ IsAuthenticated
    /\ c \in Leaves \/ ~IsLoading
    /\ call' = [call EXCEPT ![c] = Sent(@, 0)]
    /\ UNCHANGED <<stateVars, refreshVars, sign, serverVars, overtaken>>

(* logout asks for the cookie, every other call for a token that is valid. *)
Accepts(c) == IF c \in Logouts THEN cookie # NoOne ELSE call[c].token \in live

(* The promise of the call settles; logout and deleteAccount then clear the state. *)
Settled(c, k) ==
    /\ call' = [k EXCEPT ![c].at = "done"]
    /\ IF c \in Leaves THEN ClearAuth /\ Overtakes(c) ELSE UNCHANGED <<stateVars, overtaken>>

Succeed(c) ==
    /\ call[c].at = "sent" /\ Accepts(c)
    /\ Settled(c, call)
    /\ cookie' = CASE c \in Logouts -> NoOne
                   [] c \in Deletions /\ cookie = issued[call[c].token] -> Ended
                   [] OTHER -> cookie
    /\ UNCHANGED <<refreshVars, sign, able, issued, live>>

(* No answer, or an error that is not a 401. *)
Break(c) ==
    /\ call[c].at = "sent"
    /\ Settled(c, call)
    /\ UNCHANGED <<refreshVars, sign, serverVars>>

(* A 401: wait for the refresh that is running, start one, or give up. *)
Refuse(c) ==
    /\ call[c].at = "sent" /\ ~Accepts(c)
    /\ \/ /\ ~call[c].retry /\ isRefreshing
          /\ refreshSubscribers' = refreshSubscribers \cup {c}
          /\ call' = [call EXCEPT ![c].at = "waiting"]
          /\ UNCHANGED <<stateVars, isRefreshing, overtaken>>
       \/ /\ ~call[c].retry /\ ~isRefreshing
          /\ isRefreshing' = TRUE
          /\ call' = [call EXCEPT ![c].retry = TRUE, ![c].at = "refresh"]
          /\ UNCHANGED <<stateVars, refreshSubscribers, overtaken>>
       \/ /\ call[c].retry
          /\ Settled(c, call)
          /\ UNCHANGED <<isRefreshing, refreshSubscribers>>
    /\ UNCHANGED <<abandoned, sign, serverVars>>

(* POST /auth/refresh reaches the service, or fails. *)
RefreshAnswered(c) ==
    /\ call[c].at = "refresh"
    /\ \/ /\ cookie \in Users
          /\ Issue(cookie)
          /\ call' = [call EXCEPT ![c].at = "refreshed", ![c].got = Len(issued) + 1]
       \/ /\ call' = [call EXCEPT ![c].at = "refreshed", ![c].got = 0]
          /\ UNCHANGED <<issued, live>>
    /\ UNCHANGED <<stateVars, refreshVars, sign, able, cookie, overtaken>>

(* setToken, then every subscriber and the call itself are sent again. *)
Refreshed(c) ==
    LET t == call[c].got IN
    /\ call[c].at = "refreshed" /\ t # 0
    /\ accessToken' = IF hooks.sets THEN t ELSE accessToken
    /\ call' = [k \in Calls |-> IF k \in refreshSubscribers \cup {c} THEN Sent(call[k], t)
                                ELSE call[k]]
    /\ refreshSubscribers' = {}
    /\ isRefreshing' = FALSE
    /\ Overtakes(c)
    /\ UNCHANGED <<hooks, user, abandoned, sign, serverVars>>

(* Mutant: without the finally block. *)
RefreshFailed_NoFinally(c) ==
    /\ call[c].at = "refreshed" /\ call[c].got = 0
    /\ call' = [call EXCEPT ![c].at = "done"]
    /\ IF hooks.clears \/ c \in Leaves THEN ClearAuth /\ Overtakes(c)
       ELSE UNCHANGED <<stateVars, overtaken>>
    /\ abandoned' = abandoned \cup refreshSubscribers
    /\ UNCHANGED <<isRefreshing, refreshSubscribers, sign, serverVars>>

(* onLogout; the subscribers are neither answered nor forgotten. *)
RefreshFailed(c) ==
    /\ call[c].at = "refreshed" /\ call[c].got = 0
    /\ call' = [call EXCEPT ![c].at = "done"]
    /\ IF hooks.clears \/ c \in Leaves THEN ClearAuth /\ Overtakes(c)
       ELSE UNCHANGED <<stateVars, overtaken>>
    /\ abandoned' = abandoned \cup refreshSubscribers
    /\ isRefreshing' = FALSE
    /\ UNCHANGED <<refreshSubscribers, sign, serverVars>>

-------------------------------------------------------------------------------
(* The service on its own *)

Expire(t) ==
    /\ t \in live
    /\ live' = live \ {t}
    /\ UNCHANGED <<stateVars, refreshVars, call, sign, able, cookie, issued, overtaken>>

(* The session is evicted, cleaned up or logged out from another device. *)
EndSession ==
    /\ cookie \in Users
    /\ cookie' = Ended
    /\ UNCHANGED <<stateVars, refreshVars, call, sign, able, issued, live, overtaken>>

-------------------------------------------------------------------------------
FlowStep(s) ==
    \/ SignIn(s) \/ SignInRefused(s) \/ SignInFails(s) \/ Apply(s) \/ Profile(s)
    \/ \E u \in Users : SignInAnswered(s, u)

\* What happens to a call once it is on its way.
Answer(c) ==
    \/ Succeed(c) \/ Break(c) \/ Refuse(c)
    \/ RefreshAnswered(c) \/ Refreshed(c) \/ RefreshFailed(c)

AuthNext ==
    \/ \E s \in Flows : FlowStep(s)
    \/ \E c \in Calls : Send(c) \/ Answer(c)
    \/ \E t \in Tokens : Expire(t)
    \/ EndSession

-------------------------------------------------------------------------------
AuthTypeOK ==
    /\ able \in Loads
    /\ hooks \in [token : 0 .. MaxTokens, sets : BOOLEAN, clears : BOOLEAN]
    /\ accessToken \in 0 .. MaxTokens /\ user \in Users \cup {NoOne}
    /\ isRefreshing \in BOOLEAN /\ refreshSubscribers \subseteq Calls
    /\ call \in [Calls -> [at : {"idle", "sent", "waiting", "refresh", "refreshed", "done"},
                           token : 0 .. MaxTokens, retry : BOOLEAN, got : 0 .. MaxTokens]]
    /\ sign \in [Flows -> [at : {"idle", "asked", "refused", "answered", "profile", "done"},
                           token : 0 .. MaxTokens]]
    /\ cookie \in Users \cup {NoOne, Ended}
    /\ issued \in Seq(Users) /\ Len(issued) <= MaxTokens
    /\ live \subseteq DOMAIN issued
    /\ overtaken \in BOOLEAN /\ abandoned \subseteq Calls

(* Whenever nobody is signing in or refreshing, the user that the page shows *)
(* is the one the token was issued to, and the interceptors send a token of  *)
(* that user: AuthContext keeps these in three places that are written at    *)
(* different times.  It may fail after two changes overtook each other.      *)
AtRest == Refreshing = {} /\ \A s \in Flows : sign[s].at \notin {"answered", "profile"}
TokenMatchesUser ==
    AtRest /\ ~overtaken =>
        IF accessToken = 0 THEN user = NoOne /\ hooks.token = 0
        ELSE /\ hooks.token # 0
             /\ user = issued[accessToken]
             /\ user = issued[hooks.token]

(* Every call that is sent settles, however often it is refused and however  *)
(* the refreshes end, unless it waited for one that failed: axios.js never   *)
(* settles those.                                                            *)
CallsSettle ==
    \A c \in Calls : call[c].at # "idle" ~> call[c].at = "done" \/ c \in abandoned
================================================================================
