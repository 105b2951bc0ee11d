---------------------------- MODULE OneTimePassword ----------------------------
(***************************************************************************)
(* The one-time passwords that the authentication service keeps in Redis   *)
(* for one e-mail address: a record otp:<id> per code, with the number of  *)
(* wrong guesses, and the key otp:email:<email> that points to the latest. *)
(* sendOtp and _verifyOtp are several Redis commands each, and requests    *)
(* interleave between any two of them.                                     *)
(*                                                                         *)
(* A code is identified with the request that sends it.  Prior is a code   *)
(* that was sent before the behaviour starts.                              *)
(***************************************************************************)
EXTENDS Integers, FiniteSets

CONSTANTS
    Requests,     \* requests to the authentication service
    Prior,        \* the code that was sent earlier
    Nobody,
    MaxAttempts   \* OTP_MAX_ATTEMPTS

ASSUME OtpAssumption ==
    /\ Prior \notin Requests
    /\ Nobody \notin Requests \cup {Prior}
    /\ MaxAttempts \in Nat \ {0}
    /\ IsFiniteSet(Requests)

VARIABLES
    codes,    \* codes[i]: the record under otp:<i>, or NoCode
    pointer,  \* the id under otp:email:<email>, or Nobody
    otp,      \* otp[r]: where r is in sendOtp or _verifyOtp, and its locals
    mailed,   \* history: codes that reached the user, with their ids
    guesses,  \* history: guesses[i]: verifications of code i with a wrong guess
    spent,    \* history: spent[i]: verifications that used code i up
    crowd,    \* history: crowd[i]: verifications of i that overlapped another,
              \*   or died half way
    tangled,  \* history: sends that overlapped other requests, or died half way
    revived   \* history: wrong guesses that wrote a code back after it was gone

otpVars == <<codes, pointer, otp, mailed, guesses, spent, crowd, tangled, revived>>

Ids == Requests \cup {Prior}
NoCode == [tries |-> -1, ttl |-> FALSE]

SendSteps == {"get", "clear", "user", "put", "point", "mail", "undo"}
VerifySteps == {"count", "drop", "match"}
Idle == [at |-> "idle", id |-> Nobody, seen |-> 0]

Exists(i) == codes[i] # NoCode
Live == {i \in Ids : Exists(i)}
Sending == {r \in Requests : otp[r].at \in SendSteps}
Verifying(i) == {r \in Requests : otp[r].at \in VerifySteps /\ otp[r].id = i}

OtpInit ==
    /\ codes \in [Ids -> {NoCode, [tries |-> 0, ttl |-> TRUE]}]
    /\ \A r \in Requests : codes[r] = NoCode
    /\ pointer = IF Exists(Prior) THEN Prior ELSE Nobody
    /\ otp = [r \in Requests |-> Idle]
    /\ mailed = {Prior}
    /\ guesses = [i \in Ids |-> {}] /\ spent = [i \in Ids |-> {}]
    /\ crowd = [i \in Ids |-> {}]
    /\ tangled = {} /\ revived = {}

GoOtp(r, l, m) ==
    /\ otp[r].at = l
    /\ otp' = [otp EXCEPT ![r].at = m]

EndOtp(r, l) ==
    /\ otp[r].at = l
    /\ otp' = [otp EXCEPT ![r] = Idle]

(* DEL otp:<id> otp:email:<email>: the pointer goes, whatever it points to. *)
DeleteKeys(i) ==
    /\ codes' = [codes EXCEPT ![i] = NoCode]
    /\ pointer' = Nobody

-------------------------------------------------------------------------------
(* sendOtp *)

(* The request arrives; Redis answers the ping. *)
SendStart(r) ==
    /\ GoOtp(r, "idle", "get")
    /\ tangled' = IF Sending \cup UNION {Verifying(i) : i \in Ids} = {}
                  THEN tangled ELSE tangled \cup Sending \cup {r}
    /\ UNCHANGED <<codes, pointer, mailed, guesses, spent, crowd, revived>>

SendGet(r) ==
    /\ otp[r].at = "get"
    /\ otp' = [otp EXCEPT ![r].at = IF pointer = Nobody THEN "user" ELSE "clear",
                          ![r].id = pointer]
    /\ UNCHANGED <<codes, pointer, mailed, guesses, spent, crowd, tangled, revived>>

SendClear(r) ==
    /\ GoOtp(r, "clear", "user")
    /\ DeleteKeys(otp[r].id)
    /\ UNCHANGED <<mailed, guesses, spent, crowd, tangled, revived>>

(* fetchByEmail: for an unknown address a made-up id is answered. *)
SendUser(r, known) ==
    /\ \/ known /\ GoOtp(r, "user", "put")
       \/ ~known /\ EndOtp(r, "user")
    /\ UNCHANGED <<codes, pointer, mailed, guesses, spent, crowd, tangled, revived>>

SendPut(r) ==
    /\ GoOtp(r, "put", "point")
    /\ codes' = [codes EXCEPT ![r] = [tries |-> 0, ttl |-> TRUE]]
    /\ UNCHANGED <<pointer, mailed, guesses, spent, crowd, tangled, revived>>

SendPoint(r) ==
    /\ GoOtp(r, "point", "mail")
    /\ pointer' = r
    /\ UNCHANGED <<codes, mailed, guesses, spent, crowd, tangled, revived>>

SendMail(r) ==
    /\ EndOtp(r, "mail")
    /\ mailed' = mailed \cup {r}
    /\ UNCHANGED <<codes, pointer, guesses, spent, crowd, tangled, revived>>

(* The mail provider fails and the keys are deleted again. *)
SendMailFails(r) ==
    /\ GoOtp(r, "mail", "undo")
    /\ UNCHANGED <<codes, pointer, mailed, guesses, spent, crowd, tangled, revived>>

SendUndo(r) ==
    /\ EndOtp(r, "undo")
    /\ DeleteKeys(r)
    /\ UNCHANGED <<mailed, guesses, spent, crowd, tangled, revived>>

-------------------------------------------------------------------------------
(* _verifyOtp and the use of its result *)

(* GET otp:<id>, the attempt limit and the comparison, in one synchronous run. *)
VerifyGet(r, i, right) ==
    /\ otp[r].at = "idle" /\ i \in mailed
    /\ LET limit == codes[i].tries >= MaxAttempts
           next == IF limit THEN "drop" ELSE IF right THEN "match" ELSE "count"
       IN  IF Exists(i)
           THEN /\ otp' = [otp EXCEPT ![r] = [at |-> next, id |-> i, seen |-> codes[i].tries]]
                /\ guesses' = IF next # "count" THEN guesses ELSE [guesses EXCEPT ![i] = @ \cup {r}]
                /\ crowd' = IF Verifying(i) = {} THEN crowd
                            ELSE [crowd EXCEPT ![i] = @ \cup Verifying(i) \cup {r}]
                /\ tangled' = tangled \cup Sending
           ELSE UNCHANGED <<otp, guesses, crowd, tangled>>
    /\ UNCHANGED <<codes, pointer, mailed, spent, revived>>

(* SET otp:<id> KEEPTTL: a key that is gone comes back, and without a TTL. *)
VerifyCount(r) ==
    /\ EndOtp(r, "count")
    /\ LET i == otp[r].id
       IN  /\ codes' = [codes EXCEPT ![i] = [tries |-> otp[r].seen + 1, ttl |-> @.ttl]]
           /\ revived' = IF Exists(i) THEN revived ELSE revived \cup {r}
    /\ UNCHANGED <<pointer, mailed, guesses, spent, crowd, tangled>>

(* Too many attempts: the code is deleted and 429 answered. *)
VerifyDrop(r) ==
    /\ EndOtp(r, "drop")
    /\ DeleteKeys(otp[r].id)
    /\ UNCHANGED <<mailed, guesses, spent, crowd, tangled, revived>>

(* Mutant: only the pointer is deleted when a code is used. *)
VerifySpend_KeyLeft(r) ==
    /\ EndOtp(r, "match")
    /\ pointer' = Nobody
    /\ spent' = [spent EXCEPT ![otp[r].id] = @ \cup {r}]
    /\ UNCHANGED <<codes, mailed, guesses, crowd, tangled, revived>>

(* The verified code is deleted by loginWithOtp or verifyOtpAndGetResetToken. *)
VerifySpend(r) ==
    /\ EndOtp(r, "match")
    /\ DeleteKeys(otp[r].id)
    /\ spent' = [spent EXCEPT ![otp[r].id] = @ \cup {r}]
    /\ UNCHANGED <<mailed, guesses, crowd, tangled, revived>>

(* loginWithOtp finds no user for the address: the code stays. *)
VerifyLeave(r) ==
    /\ EndOtp(r, "match")
    /\ UNCHANGED <<codes, pointer, mailed, guesses, spent, crowd, tangled, revived>>

-------------------------------------------------------------------------------
(* The environment *)

(* Redis lets a code expire. *)
Expire(i) ==
    /\ Exists(i) /\ codes[i].ttl
    /\ codes' = [codes EXCEPT ![i] = NoCode]
    /\ UNCHANGED <<pointer, otp, mailed, guesses, spent, crowd, tangled, revived>>

(* The pointer was written after its code and with the same TTL: it goes later. *)
ExpirePointer ==
    /\ pointer # Nobody
    /\ ~codes[pointer].ttl
    /\ pointer' = Nobody
    /\ UNCHANGED <<codes, otp, mailed, guesses, spent, crowd, tangled, revived>>

(* A Redis command, a query or the process fails under r. *)
OtpFail(r) ==
    /\ otp[r].at # "idle"
    /\ otp' = [otp EXCEPT ![r] = Idle]
    /\ tangled' = IF r \in Sending THEN tangled \cup {r} ELSE tangled
    /\ crowd' = IF r \in Sending THEN crowd ELSE [crowd EXCEPT ![otp[r].id] = @ \cup {r}]
    /\ UNCHANGED <<codes, pointer, mailed, guesses, spent, revived>>

OtpTypeOK ==
    /\ codes \in [Ids -> [tries : -1..MaxAttempts + 1, ttl : BOOLEAN]]
    /\ pointer \in Ids \cup {Nobody}
    /\ otp \in [Requests -> [at : SendSteps \cup VerifySteps \cup {"idle"},
                             id : Ids \cup {Nobody}, seen : 0..MaxAttempts]]
    /\ mailed \subseteq Ids /\ tangled \subseteq Requests /\ revived \subseteq Requests
    /\ \A h \in {guesses, spent, crowd} : h \in [Ids -> SUBSET Requests]

(* A code is used up at most once, by verifications that did not overlap    *)
(* another one of the same code: GET, comparison and DEL are not one        *)
(* operation, and SET KEEPTTL may bring a used code back.                   *)
SingleUse ==
    \A i \in Ids : Cardinality(spent[i] \ crowd[i]) <= 1

(* No more than OTP_MAX_ATTEMPTS wrong guesses are compared with a code,    *)
(* leaving aside those that overlapped another one: the counter is read,    *)
(* increased and written back by separate commands.                         *)
AttemptsBounded ==
    \A i \in Ids : Cardinality(guesses[i] \ crowd[i]) <= MaxAttempts

(* Sending a code deletes the one that was there.  More than one is alive   *)
(* only by sends that overlapped other requests or failed half way, and by  *)
(* wrong guesses that wrote a deleted code back: one more for each.         *)
OneCode ==
    Cardinality(Live) <= 1 + Cardinality(tangled \cup revived)

(* A code is guessed a few times, used once and replaced by the next, but   *)
(* for the overlaps that each of the three names.                           *)
CodesAreGuarded == SingleUse /\ AttemptsBounded /\ OneCode
================================================================================
