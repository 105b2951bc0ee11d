---------------------------- MODULE BookingPayment ----------------------------
(***************************************************************************)
(* The life of a booking after it was created: payment, cancellation,      *)
(* refund and expiry, as bookingAndPaymentService runs them.  Each HTTP    *)
(* request is a handler with a program counter; between two awaits the     *)
(* Node event loop runs one handler at a time, so one action is the code   *)
(* from one await to the next.  A booking instance loaded before an await  *)
(* is used after it, whatever the row has become meanwhile.                *)
(*                                                                         *)
(* The database runs READ COMMITTED: a read sees committed rows only, and  *)
(* an UPDATE waits for a transaction that already updated the same row.    *)
(* The passengers, amounts and dates of a booking never change and are     *)
(* left out; the 24-hour rule is a refusal a refund request may meet.      *)
(***************************************************************************)
EXTENDS Naturals, FiniteSets

CONSTANTS
    Bookings,       \* rows of the Bookings table, all created before
    Handlers,       \* requests that can be in progress at the same time
    Sweeps,         \* runs of the expiry job that can overlap
    GatewayAnswers, \* what the payment provider may answer: {TRUE} as shipped
    MaxFaults,      \* bound on crashes, database errors and lost seat releases
    None            \* no booking

ASSUME GatewayAssumption == GatewayAnswers \subseteq BOOLEAN
ASSUME FaultAssumption == MaxFaults \in Nat
ASSUME NoneAssumption == None \notin Bookings /\ None \notin Handlers

VARIABLES
    status,     \* Bookings.status, committed
    payment,    \* Payments.status of the booking's row, "NONE" without a row
    rowLock,    \* the handler whose open transaction has updated the booking row
    aged,       \* the booking was created more than BOOKING_TTL_MINUTES ago
    op,         \* op[h]: the request handler h serves
    pc,         \* pc[h]: where it is
    on,         \* on[h]: the booking it is about
    loaded,     \* loaded[h]: status of the instance confirmBooking/failBooking fetched
    batch,      \* batch[s]: bookings sweep s has listed and not yet expired
    expiring,   \* expiring[s]: the booking sweep s has saved and not yet announced
    charges,    \* successful charges at the gateway
    refunds,    \* refunds at the gateway
    releases,   \* times the flight service was made to give the booking's seats back
    published,  \* events handed to the event publisher
    faults      \* faults so far

rows == <<status, payment, rowLock, aged>>
requests == <<op, pc, on, loaded>>
cron == <<batch, expiring>>
world == <<charges, refunds, releases, published>>
vars == <<rows, requests, cron, world, faults>>

Statuses == {"INITIATED", "PENDING", "CONFIRMED", "CANCELLED", "EXPIRED"}
PaymentStatuses == {"NONE", "PENDING", "SUCCESS", "FAILED", "REFUNDED"}
Ops == {"pay", "cancel", "refund", "adminCancel"}
Events == {"booking.confirmed", "booking.cancelled", "payment.failed",
           "booking.refunded", "booking.cancelled_no_refund", "booking.expired"}

(* Where a handler waits; the name is of the step it takes next. *)
PayLabels == {"pay_check", "pay_begin", "pay_insert", "pay_commit", "pay_gateway",
              "pay_settle", "pay_decline", "confirm_fetch", "confirm_save",
              "confirm_tell", "fail_fetch", "fail_save"}
CancelLabels == {"cancel_save", "refund_payment", "refund_gateway", "refund_commit",
                 "admin_save"}
Labels == {"idle", "release", "tell"} \cup PayLabels \cup CancelLabels

Init ==
    /\ status = [b \in Bookings |-> "INITIATED"]
    /\ payment = [b \in Bookings |-> "NONE"]
    /\ rowLock = [b \in Bookings |-> None]
    /\ aged = [b \in Bookings |-> FALSE]
    /\ op = [h \in Handlers |-> "pay"]
    /\ pc = [h \in Handlers |-> "idle"]
    /\ on = [h \in Handlers |-> None]
    /\ loaded = [h \in Handlers |-> "INITIATED"]
    /\ batch = [s \in Sweeps |-> {}]
    /\ expiring = [s \in Sweeps |-> None]
    /\ charges = [b \in Bookings |-> 0]
    /\ refunds = [b \in Bookings |-> 0]
    /\ releases = [b \in Bookings |-> 0]
    /\ published = [b \in Bookings |-> {}]
    /\ faults = 0

-------------------------------------------------------------------------------
(* Helpers *)

Free(b) == rowLock[b] = None

(* Handler h goes from label l to label m. *)
Goto(h, l, m) ==
    /\ pc[h] = l
    /\ pc' = [pc EXCEPT ![h] = m]
    /\ UNCHANGED <<op, on, loaded>>

(* The request is answered (or dropped) and the handler can serve another. *)
Finish(h) ==
    /\ pc' = [pc EXCEPT ![h] = "idle"]
    /\ op' = [op EXCEPT ![h] = "pay"]
    /\ on' = [on EXCEPT ![h] = None]
    /\ loaded' = [loaded EXCEPT ![h] = "INITIATED"]

(* A new request o about b: it loads the booking, and a check on the loaded *)
(* status either lets it go on or answers 400 and changes nothing.          *)
Begin(h, o, b, allowed, m) ==
    /\ pc[h] = "idle"
    /\ status[b] \in allowed
    /\ op' = [op EXCEPT ![h] = o]
    /\ on' = [on EXCEPT ![h] = b]
    /\ pc' = [pc EXCEPT ![h] = m]
    /\ UNCHANGED <<loaded, rows, cron, world, faults>>

(* instance.save(): the UPDATE carries the changed columns only, so it      *)
(* leaves the row alone when the instance already had the new status.       *)
Save(b, was, new) ==
    /\ Free(b) \/ was = new
    /\ status' = IF was = new THEN status ELSE [status EXCEPT ![b] = new]
    /\ UNCHANGED <<rowLock, aged>>

(* confirmBooking and failBooking load the booking again, by id alone. *)
Fetch(h, l, m) ==
    /\ pc[h] = l
    /\ pc' = [pc EXCEPT ![h] = m]
    /\ loaded' = [loaded EXCEPT ![h] = status[on[h]]]
    /\ UNCHANGED <<op, on, rows, cron, world, faults>>

Publish(b, events) == published' = [published EXCEPT ![b] = @ \cup events]

-------------------------------------------------------------------------------
(* Paying: paymentService.initiatePayment *)

PayLoad(h, b) == Begin(h, "pay", b, {"INITIATED"}, "pay_check")

PayCheck(h) ==
    /\ pc[h] = "pay_check"
    /\ IF payment[on[h]] = "NONE" THEN Goto(h, "pay_check", "pay_begin") ELSE Finish(h)
    /\ UNCHANGED <<rows, cron, world, faults>>

(* BEGIN; UPDATE Bookings SET status = PENDING: not visible yet, row locked. *)
PayBegin(h) ==
    /\ Goto(h, "pay_begin", "pay_insert")
    /\ Free(on[h])
    /\ rowLock' = [rowLock EXCEPT ![on[h]] = h]
    /\ UNCHANGED <<status, payment, aged, cron, world, faults>>

(* Mutant: no unique index on payments.bookingId. *)
PayInsert_NotUnique(h) ==
    /\ Goto(h, "pay_insert", "pay_commit")
    /\ payment' = [payment EXCEPT ![on[h]] = "PENDING"]
    /\ UNCHANGED <<status, rowLock, aged, cron, world, faults>>

(* The INSERT is meant for the transaction, but the repository drops its    *)
(* options: it runs on a connection of its own and commits at once.  The    *)
(* unique bookingId makes a second one fail, and that rolls the UPDATE back.*)
PayInsert(h) ==
    /\ pc[h] = "pay_insert"
    /\ \/ /\ payment[on[h]] = "NONE"
          /\ payment' = [payment EXCEPT ![on[h]] = "PENDING"]
          /\ Goto(h, "pay_insert", "pay_commit")
          /\ UNCHANGED rowLock
       \/ /\ payment[on[h]] # "NONE"
          /\ rowLock' = [rowLock EXCEPT ![on[h]] = None]
          /\ Finish(h)
          /\ UNCHANGED payment
    /\ UNCHANGED <<status, aged, cron, world, faults>>

PayCommit(h) ==
    /\ Goto(h, "pay_commit", "pay_gateway")
    /\ status' = [status EXCEPT ![on[h]] = "PENDING"]
    /\ rowLock' = [rowLock EXCEPT ![on[h]] = None]
    /\ UNCHANGED <<payment, aged, cron, world, faults>>

PayGateway(h) ==
    /\ \/ /\ TRUE \in GatewayAnswers
          /\ Goto(h, "pay_gateway", "pay_settle")
          /\ charges' = [charges EXCEPT ![on[h]] = @ + 1]
       \/ /\ FALSE \in GatewayAnswers
          /\ Goto(h, "pay_gateway", "pay_decline")
          /\ UNCHANGED charges
    /\ UNCHANGED <<rows, cron, refunds, releases, published, faults>>

PaySettle(h) ==
    /\ Goto(h, "pay_settle", "confirm_fetch")
    /\ payment' = [payment EXCEPT ![on[h]] = "SUCCESS"]
    /\ UNCHANGED <<status, rowLock, aged, cron, world, faults>>

ConfirmFetch(h) == Fetch(h, "confirm_fetch", "confirm_save")

ConfirmSave(h) ==
    /\ Goto(h, "confirm_save", "confirm_tell")
    /\ Save(on[h], loaded[h], "CONFIRMED")
    /\ UNCHANGED <<payment, cron, world, faults>>

ConfirmTell(h) ==
    /\ pc[h] = "confirm_tell"
    /\ Publish(on[h], {"booking.confirmed"})
    /\ Finish(h)
    /\ UNCHANGED <<rows, cron, charges, refunds, releases, faults>>

(* Mutant: the declined payment is not saved. *)
PayDecline_NotSaved(h) ==
    /\ Goto(h, "pay_decline", "fail_fetch")
    /\ UNCHANGED <<rows, cron, world, faults>>

PayDecline(h) ==
    /\ Goto(h, "pay_decline", "fail_fetch")
    /\ payment' = [payment EXCEPT ![on[h]] = "FAILED"]
    /\ UNCHANGED <<status, rowLock, aged, cron, world, faults>>

FailFetch(h) == Fetch(h, "fail_fetch", "fail_save")

(* Mutant: a failed payment forgets the seats. *)
FailSave_NoRelease(h) ==
    /\ Goto(h, "fail_save", "tell")
    /\ Save(on[h], loaded[h], "CANCELLED")
    /\ UNCHANGED <<payment, cron, world, faults>>

FailSave(h) ==
    /\ Goto(h, "fail_save", "release")
    /\ Save(on[h], loaded[h], "CANCELLED")
    /\ UNCHANGED <<payment, cron, world, faults>>

-------------------------------------------------------------------------------
(* Cancelling: cancelBooking, cancelAndRefundBooking, adminCancelBooking *)

CancelLoad(h, b) == Begin(h, "cancel", b, {"INITIATED", "PENDING"}, "cancel_save")

CancelSave(h) ==
    /\ Goto(h, "cancel_save", "release")
    /\ Free(on[h])
    /\ status' = [status EXCEPT ![on[h]] = "CANCELLED"]
    /\ UNCHANGED <<payment, rowLock, aged, cron, world, faults>>

(* Mutant: a booking whose payment is in progress may be refunded. *)
RefundLoad_Early(h, b) ==
    Begin(h, "refund", b, {"PENDING", "CONFIRMED"}, "refund_payment")

RefundLoad(h, b) == Begin(h, "refund", b, {"CONFIRMED"}, "refund_payment")

(* processGatewayRefund reads the payment and refuses one that is not SUCCESS. *)
RefundPayment(h) ==
    /\ pc[h] = "refund_payment"
    /\ IF payment[on[h]] = "SUCCESS"
       THEN Goto(h, "refund_payment", "refund_gateway") ELSE Finish(h)
    /\ UNCHANGED <<rows, cron, world, faults>>

RefundGateway(h) ==
    /\ Goto(h, "refund_gateway", "refund_commit")
    /\ refunds' = [refunds EXCEPT ![on[h]] = @ + 1]
    /\ UNCHANGED <<rows, cron, charges, releases, published, faults>>

(* Mutants: one of the two saves is left out of the transaction. *)
RefundCommit_PaymentOnly(h) ==
    /\ Goto(h, "refund_commit", "release")
    /\ payment' = [payment EXCEPT ![on[h]] = "REFUNDED"]
    /\ UNCHANGED <<status, rowLock, aged, cron, world, faults>>

RefundCommit_BookingOnly(h) ==
    /\ Goto(h, "refund_commit", "release")
    /\ Free(on[h])
    /\ status' = [status EXCEPT ![on[h]] = "CANCELLED"]
    /\ UNCHANGED <<payment, rowLock, aged, cron, world, faults>>

(* One transaction for both rows; the instances still hold what was loaded *)
(* before the gateway was called, and nothing is checked again.            *)
RefundCommit(h) ==
    /\ Goto(h, "refund_commit", "release")
    /\ Free(on[h])
    /\ status' = [status EXCEPT ![on[h]] = "CANCELLED"]
    /\ payment' = [payment EXCEPT ![on[h]] = "REFUNDED"]
    /\ UNCHANGED <<rowLock, aged, cron, world, faults>>

(* Mutant: an administrator may cancel what was never paid. *)
AdminCancelLoad_Unpaid(h, b) ==
    Begin(h, "adminCancel", b, {"INITIATED", "PENDING", "CONFIRMED"}, "admin_save")

AdminCancelLoad(h, b) == Begin(h, "adminCancel", b, {"CONFIRMED"}, "admin_save")

AdminCancelSave(h) ==
    /\ Goto(h, "admin_save", "release")
    /\ Free(on[h])
    /\ status' = [status EXCEPT ![on[h]] = "CANCELLED"]
    /\ UNCHANGED <<payment, rowLock, aged, cron, world, faults>>

(* The seats go back to the flight; the client swallows every failure. *)
ReleaseSeats(h) ==
    /\ Goto(h, "release", "tell")
    /\ \/ releases' = [releases EXCEPT ![on[h]] = @ + 1] /\ UNCHANGED faults
       \/ faults < MaxFaults /\ faults' = faults + 1 /\ UNCHANGED releases
    /\ UNCHANGED <<rows, cron, charges, refunds, published>>

(* Mutant: a routing key nobody knows. *)
EventsOf_Typo(o) == {"booking.canceled"}

EventsOf(o) ==
    CASE o = "pay"         -> {"booking.cancelled", "payment.failed"}
      [] o = "cancel"      -> {"booking.cancelled"}
      [] o = "refund"      -> {"booking.refunded"}
      [] o = "adminCancel" -> {"booking.cancelled_no_refund"}

Tell(h) ==
    /\ pc[h] = "tell"
    /\ Publish(on[h], EventsOf(op[h]))
    /\ Finish(h)
    /\ UNCHANGED <<rows, cron, charges, refunds, releases, faults>>

-------------------------------------------------------------------------------
(* The expiry job *)

(* Mutant: the comparison with the cutoff is turned round. *)
Expired_Fresh == {b \in Bookings : status[b] = "INITIATED" /\ ~aged[b]}

Expired == {b \in Bookings : status[b] = "INITIATED" /\ aged[b]}

SweepList(s) ==
    /\ batch[s] = {} /\ expiring[s] = None
    /\ Expired # {}
    /\ batch' = [batch EXCEPT ![s] = Expired]
    /\ UNCHANGED <<rows, requests, expiring, world, faults>>

(* The listed instance said INITIATED, so the UPDATE is always sent. *)
SweepExpire(s) ==
    /\ expiring[s] = None
    /\ \E b \in batch[s] :
        /\ Free(b)
        /\ status' = [status EXCEPT ![b] = "EXPIRED"]
        /\ batch' = [batch EXCEPT ![s] = @ \ {b}]
        /\ expiring' = [expiring EXCEPT ![s] = b]
    /\ UNCHANGED <<payment, rowLock, aged, requests, world, faults>>

(* booking.flightId is no column any more: the seat release goes to flight *)
(* "undefined", fails and is swallowed; then the event is published.       *)
SweepTell(s) ==
    /\ expiring[s] # None
    /\ Publish(expiring[s], {"booking.expired"})
    /\ expiring' = [expiring EXCEPT ![s] = None]
    /\ UNCHANGED <<rows, requests, batch, charges, refunds, releases, faults>>

-------------------------------------------------------------------------------
(* Time and faults *)

Age(b) ==
    /\ ~aged[b]
    /\ aged' = [aged EXCEPT ![b] = TRUE]
    /\ UNCHANGED <<status, payment, rowLock, requests, cron, world, faults>>

Fault ==
    /\ faults < MaxFaults
    /\ faults' = faults + 1

(* An await rejects: the request is answered with an error, an open         *)
(* transaction rolls back, and no handler undoes anything else.             *)
Throw(h) ==
    /\ Fault
    /\ pc[h] \notin {"idle", "tell"}
    /\ Finish(h)
    /\ rowLock' = [b \in Bookings |-> IF rowLock[b] = h THEN None ELSE rowLock[b]]
    /\ UNCHANGED <<status, payment, aged, cron, world>>

(* The job catches the error of one booking and goes on with the next. *)
SweepThrow(s) ==
    /\ Fault
    /\ expiring[s] = None
    /\ \E b \in batch[s] : batch' = [batch EXCEPT ![s] = @ \ {b}]
    /\ UNCHANGED <<rows, requests, expiring, world>>

(* The process dies: what was in memory is gone, open transactions roll back. *)
Crash ==
    /\ Fault
    /\ \/ \E h \in Handlers : pc[h] # "idle"
       \/ \E s \in Sweeps : batch[s] # {} \/ expiring[s] # None
    /\ op' = [h \in Handlers |-> "pay"]
    /\ pc' = [h \in Handlers |-> "idle"]
    /\ on' = [h \in Handlers |-> None]
    /\ loaded' = [h \in Handlers |-> "INITIATED"]
    /\ rowLock' = [b \in Bookings |-> None]
    /\ batch' = [s \in Sweeps |-> {}]
    /\ expiring' = [s \in Sweeps |-> None]
    /\ UNCHANGED <<status, payment, aged, world>>

-------------------------------------------------------------------------------
Arrive(h) ==
    \E b \in Bookings :
        PayLoad(h, b) \/ CancelLoad(h, b) \/ RefundLoad(h, b) \/ AdminCancelLoad(h, b)

Pay(h) ==
    \/ PayCheck(h) \/ PayBegin(h) \/ PayInsert(h) \/ PayCommit(h) \/ PayGateway(h)
    \/ PaySettle(h) \/ ConfirmFetch(h) \/ ConfirmSave(h) \/ ConfirmTell(h)
    \/ PayDecline(h) \/ FailFetch(h) \/ FailSave(h)

CancelOrRefund(h) ==
    \/ CancelSave(h) \/ RefundPayment(h) \/ RefundGateway(h) \/ RefundCommit(h)
    \/ AdminCancelSave(h) \/ ReleaseSeats(h) \/ Tell(h)

Step(h) == Pay(h) \/ CancelOrRefund(h)

Sweep(s) == SweepList(s) \/ SweepExpire(s) \/ SweepTell(s)

Next ==
    \/ \E h \in Handlers : Arrive(h) \/ Step(h) \/ Throw(h)
    \/ \E s \in Sweeps : Sweep(s) \/ SweepThrow(s)
    \/ \E b \in Bookings : Age(b)
    \/ Crash

Spec == Init /\ [][Next]_vars

(* Time passes, the event loop resumes every handler whose await is done,  *)
(* and cron starts the job again and again; that a request arrives is      *)
(* never assumed.                                                          *)
Fairness ==
    /\ \A h \in Handlers : WF_vars(Step(h))
    /\ \A s \in Sweeps : WF_vars(Sweep(s))
    /\ \A b \in Bookings : WF_vars(Age(b))

FairSpec == Spec /\ Fairness

-------------------------------------------------------------------------------
(* Properties *)

TypeOK ==
    /\ status \in [Bookings -> Statuses]
    /\ payment \in [Bookings -> PaymentStatuses]
    /\ rowLock \in [Bookings -> Handlers \cup {None}]
    /\ aged \in [Bookings -> BOOLEAN]
    /\ op \in [Handlers -> Ops]
    /\ pc \in [Handlers -> Labels]
    /\ on \in [Handlers -> Bookings \cup {None}]
    /\ \A h \in Handlers : pc[h] # "idle" => on[h] \in Bookings
    /\ loaded \in [Handlers -> Statuses]
    /\ batch \in [Sweeps -> SUBSET Bookings]
    /\ expiring \in [Sweeps -> Bookings \cup {None}]
    /\ charges \in [Bookings -> Nat]
    /\ refunds \in [Bookings -> Nat]
    /\ releases \in [Bookings -> Nat]
    /\ published \in [Bookings -> SUBSET Events]
    /\ faults \in 0..MaxFaults

(* The requests that are past the payment INSERT: theirs is the row. *)
Settling(h, b) ==
    on[h] = b /\ pc[h] \in PayLabels \ {"pay_check", "pay_begin", "pay_insert"}

(* Whatever requests overlap and whatever fails, the gateway charges a     *)
(* booking at most once: the unique payments.bookingId is what keeps two   *)
(* requests that both saw INITIATED and no payment from both going on.     *)
ChargedAtMostOnce == \A b \in Bookings : charges[b] <= 1

(* A CONFIRMED booking was charged and not refunded: no stale save can put *)
(* a refunded or an unpaid booking into CONFIRMED.                         *)
ConfirmedIsPaid ==
    \A b \in Bookings :
        status[b] = "CONFIRMED" => charges[b] = 1 /\ payment[b] = "SUCCESS"

(* A refunded booking stays over: only the expiry job, late, may still     *)
(* write its row, and never a payment that is still in progress.           *)
RefundedIsOver ==
    \A b \in Bookings : payment[b] = "REFUNDED" => status[b] \in {"CANCELLED", "EXPIRED"}

(* Unless something failed, the seats of a CANCELLED booking were given    *)
(* back, or the request that cancelled it is about to do so.               *)
CancelledSeatsComeBack ==
    \A b \in Bookings :
        status[b] = "CANCELLED" /\ faults = 0 =>
            releases[b] > 0 \/ \E h \in Handlers : on[h] = b /\ pc[h] = "release"

(* What the events tell the customer stays true of the money: confirmed    *)
(* means charged, failed means not charged, refunded means refunded, and   *)
(* nothing is called an expiry of a booking younger than the TTL.          *)
EventsAreTrue ==
    \A b \in Bookings :
        /\ "booking.confirmed" \in published[b] => payment[b] \in {"SUCCESS", "REFUNDED"}
        /\ "payment.failed" \in published[b] => payment[b] = "FAILED" /\ charges[b] = 0
        /\ "booking.refunded" \in published[b] => payment[b] = "REFUNDED" /\ refunds[b] > 0
        /\ "booking.cancelled_no_refund" \in published[b] => charges[b] = 1
        /\ "booking.expired" \in published[b] => aged[b]

Contract == INSTANCE PurchaseContract
    WITH confirmed <- {b \in Bookings : status[b] = "CONFIRMED"}

(* The code keeps the promises of PurchaseContract at every step. *)
KeepsContract == Contract!Spec

Quiet ==
    /\ \A h \in Handlers : pc[h] = "idle"
    /\ \A s \in Sweeps : batch[s] = {} /\ expiring[s] = None

(* No booking stays INITIATED: if nobody pays or cancels, the expiry job   *)
(* takes it, also when it failed on the booking or died before.            *)
InitiatedEnds == \A b \in Bookings : (status[b] = "INITIATED") ~> (status[b] # "INITIATED")

(* Unless something fails, a payment in progress is always decided: the    *)
(* row does not stay PENDING, whoever cancels or expires the booking.      *)
PaymentEnds ==
    \A b \in Bookings : (payment[b] = "PENDING") ~> (payment[b] # "PENDING" \/ faults > 0)

(* Unless something fails, money that went back at the gateway is recorded *)
(* and its booking is over.                                                *)
RefundIsRecorded ==
    \A b \in Bookings : (refunds[b] > 0) ~> (payment[b] = "REFUNDED" \/ faults > 0)

-------------------------------------------------------------------------------
(* What the documentation says and the code does not keep *)

(* README.md:35: "Seat counts are locked on booking creation and            *)
(* automatically released on cancellation or expiry": a CONFIRMED booking's *)
(* seats are not given back while it is CONFIRMED.                          *)
ConfirmedKeepsSeats == \A b \in Bookings : status[b] = "CONFIRMED" => releases[b] = 0

(* README.md:87, and the comment in expire-bookings.js:27 "Release seats    *)
(* back to the flight": when nothing is in progress, the seats of an        *)
(* EXPIRED booking were given back.                                         *)
ExpiredSeatsReturn ==
    \A b \in Bookings : Quiet /\ status[b] = "EXPIRED" => releases[b] > 0

(* README.md:447: "The booking status and payment record must update        *)
(* atomically": at rest there is no payment of a booking still INITIATED.   *)
PaymentStartIsAtomic ==
    \A b \in Bookings : Quiet /\ status[b] = "INITIATED" => payment[b] = "NONE"

(* README.md:411: "Only CONFIRMED bookings. Processes gateway refund first":*)
(* the gateway refunds a booking only while it is CONFIRMED.                *)
RefundsOnlyConfirmed ==
    [][\A b \in Bookings : refunds'[b] # refunds[b] => status[b] = "CONFIRMED"]_vars
===============================================================================
