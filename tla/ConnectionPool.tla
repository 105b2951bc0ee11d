---------------------------- MODULE ConnectionPool ----------------------------
(***************************************************************************)
(* The connections of the booking service to its database.  A statement    *)
(* takes one from Sequelize's pool, a transaction keeps one to its end.    *)
(* initiatePayment needs two at once: its INSERT is not given the          *)
(* transaction it runs in.  Every other request needs one at a time: its   *)
(* transactions, where it has one, pass their connection on.               *)
(*                                                                         *)
(* Who finds no free connection waits, and is refused when it has waited   *)
(* for the pool's time limit.  Who has one and updates a booking waits for *)
(* the booking's row, which a payment keeps locked from its UPDATE to its  *)
(* COMMIT; that wait has no limit, and keeps the connection.               *)
(***************************************************************************)
EXTENDS Integers, FiniteSets

CONSTANTS
    Payments,      \* payment requests
    Others,        \* any other requests
    Of,            \* Of[r]: the booking that r is about
    Unpaid,        \* no payment
    Size           \* connections in the pool

Requests == Payments \cup Others
Trips == {Of[r] : r \in Requests}

ASSUME PoolAssumption ==
    /\ IsFiniteSet(Requests) /\ Payments \cap Others = {} /\ Size \in Nat \ {0}
    /\ DOMAIN Of = Requests /\ Unpaid \notin Payments

VARIABLES
    at,            \* at[r]: the statement r runs or waits for
    waiting,       \* who waits for a connection; the order plays no role here
    using,         \* who has a connection for its statement
    open,          \* who has a connection for its transaction, and its booking's row
    status,        \* status[b]: the committed status of booking b
    row            \* row[b]: the payment that stored the payment row of b, or Unpaid

poolVars == <<at, waiting, using, open, status, row>>

Resting == {"idle", "done", "refused"}
Statements == {"read", "find", "begin", "insert", "save", "fetch", "confirm", "cancel"}
PoolSteps == Resting \cup Statements \cup {"commit", "gateway"}

PoolInit ==
    /\ at = [r \in Requests |-> "idle"]
    /\ waiting = {} /\ using = {} /\ open = {}
    /\ status = [b \in Trips |-> "INITIATED"]
    /\ row = [b \in Trips |-> Unpaid]

Used == Cardinality(using) + Cardinality(open)
Has(r, s) == at[r] = s /\ r \in using
RowFree(b) == \A p \in open : Of[p] # b

(* r goes on to statement s and asks for a connection. *)
Ask(r, s) == at' = [at EXCEPT ![r] = s] /\ waiting' = waiting \cup {r}
Go(r, s) == at' = [at EXCEPT ![r] = s] /\ UNCHANGED waiting

-------------------------------------------------------------------------------
(* The pool *)

(* Mutant: a connection more than there are. *)
Grant_OneMore(r) ==
    /\ r \in waiting /\ Used <= Size
    /\ waiting' = waiting \ {r}
    /\ using' = using \cup {r}
    /\ UNCHANGED <<at, open, status, row>>

Grant(r) ==
    /\ r \in waiting /\ Used < Size
    /\ waiting' = waiting \ {r}
    /\ using' = using \cup {r}
    /\ UNCHANGED <<at, open, status, row>>

(* Mutant: the INSERT's error is caught in the transaction, which commits. *)
TimeOut_Caught(r) ==
    /\ r \in waiting /\ Used = Size
    /\ waiting' = waiting \ {r}
    /\ at' = [at EXCEPT ![r] = "refused"]
    /\ open' = open \ {r}
    /\ status' = IF at[r] = "insert" THEN [status EXCEPT ![Of[r]] = "PENDING"] ELSE status
    /\ UNCHANGED <<using, row>>

(* Mutant: the INSERT may wait for ever. *)
TimeOut_NotInserts(r) ==
    /\ r \in waiting /\ Used = Size /\ at[r] # "insert"
    /\ waiting' = waiting \ {r}
    /\ at' = [at EXCEPT ![r] = "refused"]
    /\ open' = open \ {r}
    /\ UNCHANGED <<using, status, row>>

(* The wait is over the limit: the request throws, and a transaction it is  *)
(* in is rolled back, which gives back its connection.                      *)
TimeOut(r) ==
    /\ r \in waiting /\ Used = Size
    /\ waiting' = waiting \ {r}
    /\ at' = [at EXCEPT ![r] = "refused"]
    /\ open' = open \ {r}
    /\ UNCHANGED <<using, status, row>>

-------------------------------------------------------------------------------
(* Requests *)

Arrive(r) ==
    /\ at[r] = "idle"
    /\ Ask(r, "read")
    /\ UNCHANGED <<using, open, status, row>>

(* getBooking: only an INITIATED booking can be paid.                      *)
Read(p) ==
    /\ p \in Payments /\ Has(p, "read")
    /\ using' = using \ {p}
    /\ IF status[Of[p]] = "INITIATED" THEN Ask(p, "find") ELSE Go(p, "done")
    /\ UNCHANGED <<open, status, row>>

(* findByBookingId: a booking is paid once. *)
Find(p) ==
    /\ Has(p, "find")
    /\ using' = using \ {p}
    /\ IF row[Of[p]] = Unpaid THEN Ask(p, "begin") ELSE Go(p, "done")
    /\ UNCHANGED <<open, status, row>>

(* BEGIN, and the UPDATE as soon as the row is free, on a connection that   *)
(* is then kept for the transaction; the INSERT asks for another.           *)
Update(p) ==
    /\ Has(p, "begin") /\ RowFree(Of[p])
    /\ using' = using \ {p} /\ open' = open \cup {p}
    /\ Ask(p, "insert")
    /\ UNCHANGED <<status, row>>

(* Outside the transaction; the booking of a payment is unique, and the     *)
(* error of a second one rolls its transaction back.                        *)
Insert(p) ==
    /\ Has(p, "insert")
    /\ using' = using \ {p}
    /\ \/ row[Of[p]] = Unpaid /\ row' = [row EXCEPT ![Of[p]] = p] /\ Go(p, "commit") /\ UNCHANGED open
       \/ row[Of[p]] # Unpaid /\ open' = open \ {p} /\ Go(p, "done") /\ UNCHANGED row
    /\ UNCHANGED status

Commit(p) ==
    /\ at[p] = "commit"
    /\ open' = open \ {p}
    /\ status' = [status EXCEPT ![Of[p]] = "PENDING"]
    /\ Go(p, "gateway")
    /\ UNCHANGED <<using, row>>

(* The gateway answers, and the payment is saved with its answer. *)
Charge(p) ==
    /\ at[p] = "gateway"
    /\ Ask(p, "save")
    /\ UNCHANGED <<using, open, status, row>>

Save(p) ==
    /\ Has(p, "save")
    /\ using' = using \ {p}
    /\ Ask(p, "fetch")
    /\ UNCHANGED <<open, status, row>>

(* confirmBooking, or failBooking after a decline. *)
Fetch(p) ==
    /\ Has(p, "fetch")
    /\ using' = using \ {p}
    /\ Ask(p, "confirm")
    /\ UNCHANGED <<open, status, row>>

SaveBooking(p, to) ==
    /\ Has(p, "confirm") /\ RowFree(Of[p])
    /\ using' = using \ {p}
    /\ status' = [status EXCEPT ![Of[p]] = to]
    /\ Go(p, "done")
    /\ UNCHANGED <<open, row>>

(* A request that only reads, or one that loads the booking to cancel it:   *)
(* each needs one connection at a time.                                     *)
Serve(r) ==
    /\ r \in Others /\ Has(r, "read")
    /\ using' = using \ {r}
    /\ \/ Go(r, "done")
       \/ status[Of[r]] # "CANCELLED" /\ Ask(r, "cancel")
    /\ UNCHANGED <<open, status, row>>

(* Its UPDATE, alone or in a transaction that passes its connection on. *)
CancelBooking(r) ==
    /\ Has(r, "cancel") /\ RowFree(Of[r])
    /\ using' = using \ {r}
    /\ status' = [status EXCEPT ![Of[r]] = "CANCELLED"]
    /\ Go(r, "done")
    /\ UNCHANGED <<open, row>>

-------------------------------------------------------------------------------
Advance(r) ==
    \/ Grant(r) \/ TimeOut(r)
    \/ Read(r) \/ Find(r) \/ Update(r) \/ Insert(r) \/ Commit(r) \/ Charge(r)
    \/ Save(r) \/ Fetch(r) \/ (\E to \in {"CONFIRMED", "CANCELLED"} : SaveBooking(r, to))
    \/ Serve(r) \/ CancelBooking(r)

PoolNext == \E r \in Requests : Arrive(r) \/ Advance(r)

PoolSpec == PoolInit /\ [][PoolNext]_poolVars

(* Statements are answered, and the pool has a time limit.  Nobody has to   *)
(* send a request.                                                          *)
PoolFair == \A r \in Requests : WF_poolVars(Advance(r))

-------------------------------------------------------------------------------
(* Properties *)

PoolTypeOK ==
    /\ at \in [Requests -> PoolSteps]
    /\ waiting \subseteq Requests /\ using \subseteq Requests /\ open \subseteq Payments
    /\ status \in [Trips -> {"INITIATED", "PENDING", "CONFIRMED", "CANCELLED"}]
    /\ row \in [Trips -> Payments \cup {Unpaid}]
    /\ Used <= Size

(* r has a connection and waits for the row of its booking. *)
RowBlocked(r) ==
    /\ Has(r, "begin") \/ Has(r, "confirm") \/ Has(r, "cancel")
    /\ ~RowFree(Of[r])

(* Nobody can go on before somebody's wait is over its limit. *)
Locked ==
    /\ Used = Size
    /\ \A r \in Requests : at[r] \in Resting \/ r \in waiting \/ RowBlocked(r)

(* Payments that wait for their second connection, with their row locked.   *)
Inserting == {p \in open : at[p] = "insert"}

(* Requests lock each other out only around payments that wait for their    *)
(* second connection: every connection is held by one of these, or by a     *)
(* request that waits for the row that one of these has locked.             *)
OnlyPaymentsLock ==
    Locked =>
        Cardinality(Inserting \cup {r \in using : \E p \in Inserting : Of[p] = Of[r]}) = Size

(* The payment row and the booking agree whatever was refused in between:   *)
(* a booking is PENDING or CONFIRMED only with its row, and one that is     *)
(* INITIATED has none, unless the COMMIT is next.  So a payment refused     *)
(* before its charge can be tried again, if nobody has paid or cancelled;   *)
(* one refused after it leaves both PENDING, with the money taken.          *)
RefusedIsWhole ==
    \A b \in Trips :
        /\ status[b] \in {"PENDING", "CONFIRMED"} => row[b] # Unpaid
        /\ status[b] = "INITIATED" /\ row[b] # Unpaid => at[row[b]] = "commit"

(* A shortage of connections stops nobody but around payments, and leaves   *)
(* no booking at odds with its payment row.                                 *)
ShortageIsContained == OnlyPaymentsLock /\ RefusedIsWhole

(* Every request that comes is answered sooner or later, if need be with    *)
(* the pool's error: the lock does not last.                                *)
EveryoneAnswered == <>[](\A r \in Requests : at[r] \in Resting)

================================================================================
