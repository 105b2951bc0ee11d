------------------------------ MODULE PasswordPage ------------------------------
(***************************************************************************)
(* The three steps of a forgotten password: the email, the code that was   *)
(* mailed, the new password.  One request is on its way at a time, and     *)
(* only the buttons that send one are disabled meanwhile: the email can be *)
(* typed and "Use a different email" pressed while an answer is awaited.   *)
(* The code itself is OneTimePassword's; here it belongs to an email and   *)
(* is right or not.                                                        *)
(***************************************************************************)
EXTENDS FiniteSets

CONSTANTS
    Emails,
    NoEmail

ASSUME PasswordAssumption == NoEmail \notin Emails

VARIABLES
    signedIn,   \* the tab has an access token: nothing keeps it from this page
    step,
    email,      \* what the first form says
    otpId,      \* the email the kept code was sent to
    resetToken, \* the email the token is for
    awaited,    \* the request on its way, and the email it is about
    reset,      \* emails whose password was set
    meddled     \* history: the email was typed while an answer was awaited

passwordVars == <<signedIn, step, email, otpId, resetToken, awaited, reset, meddled>>

NoRequest == [of |-> "none", email |-> NoEmail]
Loading == awaited # NoRequest

PasswordInit ==
    /\ signedIn \in BOOLEAN
    /\ step = "email" /\ email = NoEmail
    /\ otpId = NoEmail /\ resetToken = NoEmail
    /\ awaited = NoRequest
    /\ reset = {} /\ meddled = FALSE

TypeEmail(e) ==
    /\ step = "email" /\ e # email
    /\ email' = e
    /\ meddled' = (meddled \/ Loading)
    /\ UNCHANGED <<signedIn, step, otpId, resetToken, awaited, reset>>

UseDifferentEmail ==
    /\ step = "otp"
    /\ step' = "email"
    /\ UNCHANGED <<signedIn, email, otpId, resetToken, awaited, reset, meddled>>

(* The form of the step: handleSendOtp, handleVerifyOtp, handleResetPassword. *)
Submit ==
    /\ ~Loading /\ step # "login"
    /\ step = "email" => email # NoEmail
    /\ awaited' = [of |-> step,
                   email |-> CASE step = "email" -> email
                               [] step = "otp" -> otpId
                               [] step = "reset" -> resetToken]
    /\ UNCHANGED <<signedIn, step, email, otpId, resetToken, reset, meddled>>

CodeSent ==
    /\ awaited.of = "email"
    /\ otpId' = awaited.email
    /\ step' = "otp" /\ awaited' = NoRequest
    /\ UNCHANGED <<signedIn, email, resetToken, reset, meddled>>

(* The answer moves on to the last step, from whatever step the page is at. *)
CodeVerified ==
    /\ awaited.of = "otp"
    /\ resetToken' = awaited.email
    /\ step' = "reset" /\ awaited' = NoRequest
    /\ UNCHANGED <<signedIn, email, otpId, reset, meddled>>

(* The request interceptor puts the access token in the place of the reset    *)
(* token whenever there is one, and the service refuses it.                   *)
PasswordReset ==
    /\ awaited.of = "reset" /\ ~signedIn
    /\ reset' = reset \cup {awaited.email}
    /\ step' = "login" /\ awaited' = NoRequest
    /\ UNCHANGED <<signedIn, email, otpId, resetToken, meddled>>

(* A wrong or expired code, an expired token, no account, no answer: stay. *)
PasswordRefused ==
    /\ Loading
    /\ awaited' = NoRequest
    /\ UNCHANGED <<signedIn, step, email, otpId, resetToken, reset, meddled>>

PasswordNext ==
    \/ \E e \in Emails : TypeEmail(e)
    \/ UseDifferentEmail \/ Submit
    \/ CodeSent \/ CodeVerified \/ PasswordReset \/ PasswordRefused

PasswordTypeOK ==
    /\ signedIn \in BOOLEAN /\ step \in {"email", "otp", "reset", "login"}
    /\ email \in Emails \cup {NoEmail}
    /\ {otpId, resetToken} \subseteq Emails \cup {NoEmail}
    /\ awaited \in [of : {"none", "email", "otp", "reset"}, email : Emails \cup {NoEmail}]
    /\ reset \subseteq Emails /\ meddled \in BOOLEAN

(* The code that is asked for, the token and the account whose password is set *)
(* are those of the email on the page, however often the steps were repeated   *)
(* and answers failed, unless it was typed anew while an answer was awaited.   *)
ResetsItsEmail ==
    ~meddled =>
        /\ step = "otp" => otpId = email
        /\ step = "reset" => resetToken = email
        /\ reset \subseteq {email}
================================================================================
