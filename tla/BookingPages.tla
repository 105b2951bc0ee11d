------------------------------ MODULE BookingPages ------------------------------
(***************************************************************************)
(* Book, Payment and My Bookings for a user who is signed in.  A page      *)
(* keeps what it loaded when it was opened; the rows change under it.  A   *)
(* request that is left behind by navigating away is still served, and its *)
(* answer is dropped; others come from another tab, an administrator and   *)
(* the expiry job.  A handler of the booking service loads a row, checks   *)
(* its status and saves the new one later, without looking again, so that  *)
(* handlers overlap on one row.  The statements of each are the part that  *)
(* BookingPayment models, and the seats the part of BookingSaga.           *)
(***************************************************************************)
EXTENDS Naturals, FiniteSets

CONSTANTS
    Bookings,   \* the rows there may come to be: bounds the bookings made
    Others      \* the requests there may be at a time besides the open page's

Slots == {"page"} \cup Others

ASSUME PagesAssumption == 0 \notin Bookings /\ "page" \notin Others

VARIABLES
    row,      \* Bookings.status; OVER for cancelled, refunded and expired
    payment,  \* Payments.status of the one payment of a booking
    page,
    on,       \* the booking of the payment page, the one that Book made
    opening,  \* the page's loading
    failed,   \* the last load failed
    seen,     \* seen[b]: the status of b as the page loaded it
    asked,    \* the requests that write: asked["page"] is the open page's (submitting,
              \* paying, actionLoading); the others' are of pages that were left too
    result,   \* paymentResult
    made,     \* history: bookings made by the form that is open
    resent,   \* history: that form was submitted again after an answer was lost
    lost,     \* history: an answer to that form was lost
    reported, \* history: bookings this list has reported as cancelled or refunded
    crossed,  \* history: bookings this list had ended while a payment was under way
    declined  \* history: this payment page has shown a payment as failed

rowVars == <<row, payment>>
screenVars == <<page, on, opening, failed, seen, result>>
visitNotes == <<made, resent, lost, reported, crossed, declined>>
bookingVars == <<rowVars, screenVars, asked, visitNotes>>

Statuses == {"none", "INITIATED", "PENDING", "CONFIRMED", "OVER"}
NoCall == [op |-> "none", at |-> "none", b |-> 0, got |-> "none"]
Unseen == [b \in Bookings |-> "none"]
Exists(b) == row[b] # "none"
request == asked["page"]

BookingInit ==
    /\ row = Unseen /\ payment = Unseen
    /\ page = "home" /\ on = 0
    /\ opening = FALSE /\ failed = FALSE /\ seen = Unseen
    /\ asked = [s \in Slots |-> NoCall] /\ result = "none"
    /\ made = {} /\ resent = FALSE /\ lost = FALSE /\ reported = {} /\ crossed = {}
    /\ declined = FALSE

-------------------------------------------------------------------------------
(* Moving between pages *)

(* The page's request goes on without it: its answer will be dropped. *)
LeaveBehind ==
    /\ request.at \in {"sent", "checked", "gateway"}
    /\ \E s \in Others :
          /\ asked[s] = NoCall
          /\ asked' = [asked EXCEPT !["page"] = NoCall, ![s] = request]

Forget(slot) == asked' = [asked EXCEPT ![slot] = NoCall]

(* A page is mounted anew and loads; what the last one held is gone. *)
Open(p, b) ==
    /\ \/ request.at \in {"none", "done", "reload"} /\ Forget("page")
       \/ LeaveBehind
    /\ page' = p /\ on' = b
    /\ opening' = TRUE /\ failed' = FALSE /\ seen' = Unseen /\ result' = "none"
    /\ made' = {} /\ resent' = FALSE /\ lost' = FALSE /\ reported' = {} /\ crossed' = {}
    /\ declined' = FALSE
    /\ UNCHANGED rowVars

(* Always by way of the home page. *)
OpenBook == Open("book", 0)
OpenList == page # "list" /\ Open("list", 0)

(* Proceed to Payment, or Pay Now on a card. *)
OpenPayment(b) ==
    /\ \/ page = "book" /\ on = b
       \/ page = "list" /\ ~opening /\ seen[b] = "INITIATED"
    /\ Open("pay", b)

(* loadFlight, loadData, loadBookings; the reload after an action frees the buttons. *)
PageLoaded ==
    /\ opening
    /\ opening' = FALSE
    /\ \/ failed' = FALSE /\ seen' = row
       \/ failed' = TRUE /\ seen' = seen
    /\ IF request.at = "reload" THEN Forget("page") ELSE UNCHANGED asked
    /\ UNCHANGED <<rowVars, page, on, result, visitNotes>>

-------------------------------------------------------------------------------
(* The buttons *)

Ask(op, b) ==
    /\ ~opening /\ request = NoCall
    /\ asked' = [asked EXCEPT !["page"] = [op |-> op, at |-> "sent", b |-> b, got |-> "none"]]
    /\ UNCHANGED <<rowVars, screenVars, made, lost, reported, crossed, declined>>

(* Without a flight there is no form, with a booking neither. *)
ConfirmBooking ==
    /\ page = "book" /\ ~failed /\ on = 0
    /\ Ask("book", 0)
    /\ resent' = (resent \/ lost)

Pay ==
    /\ page = "pay" /\ seen[on] = "INITIATED" /\ result = "none"
    /\ Ask("pay", on)
    /\ UNCHANGED resent

RetryPayment ==
    /\ result = "FAILED"
    /\ result' = "none"
    /\ UNCHANGED <<rowVars, page, on, opening, failed, seen, asked, visitNotes>>

(* A card of a booking that is confirmed shows its button up to 24 hours before. *)
Cancel(b) ==
    /\ page = "list" /\ seen[b] = "INITIATED"
    /\ Ask("cancel", b)
    /\ UNCHANGED resent

Refund(b) ==
    /\ page = "list" /\ seen[b] = "CONFIRMED"
    /\ Ask("refund", b)
    /\ UNCHANGED resent

-------------------------------------------------------------------------------
(* The booking service *)

AllowedFor(op) ==
    CASE op \in {"pay", "expire"} -> {"INITIATED"}
      [] op = "cancel" -> {"INITIATED", "PENDING"}
      [] op = "refund" -> {"CONFIRMED"}
      [] OTHER -> {}

\* Of another tab, or of an administrator or the expiry job; it has been checked.
Elsewhere(s, b) ==
    /\ asked[s] = NoCall
    /\ \E op \in {"pay", "cancel", "refund", "expire"} :
          /\ row[b] \in AllowedFor(op)
          /\ asked' = [asked EXCEPT ![s] = [op |-> op, at |-> "checked", b |-> b, got |-> "none"]]
    /\ UNCHANGED <<rowVars, screenVars, visitNotes>>

\* Slot s has asked k by now, which nobody waits for when it is done but the page.
Asked(s, k) ==
    asked' = [asked EXCEPT ![s] = IF k.at = "done" /\ s # "page" THEN NoCall ELSE k]

Serve(s, l, m, got) ==
    /\ asked[s].at = l
    /\ Asked(s, [asked[s] EXCEPT !.at = m, !.got = got])
    /\ UNCHANGED <<screenVars, made, resent, lost, reported, declined>>

MakeBooking(s) ==
    /\ asked[s].at = "sent" /\ asked[s].op = "book"
    /\ \E b \in Bookings :
          /\ ~Exists(b)
          /\ row' = [row EXCEPT ![b] = "INITIATED"]
          /\ Asked(s, [asked[s] EXCEPT !.at = "done", !.b = b, !.got = "ok"])
          /\ made' = IF s = "page" THEN made \cup {b} ELSE made
    /\ UNCHANGED <<payment, screenVars, resent, lost, reported, crossed, declined>>

Check(s) ==
    /\ Serve(s, "sent", "checked", "none")
    /\ asked[s].op # "book" /\ row[asked[s].b] \in AllowedFor(asked[s].op)
    /\ UNCHANGED <<rowVars, crossed>>

(* Mutant: no unique index on payments.bookingId. *)
BeginPayment_NotUnique(s) ==
    LET b == asked[s].b
    IN  /\ asked[s].op = "pay"
        /\ Serve(s, "checked", "gateway", "none")
        /\ row' = [row EXCEPT ![b] = "PENDING"]
        /\ payment' = [payment EXCEPT ![b] = "PENDING"]
        /\ UNCHANGED crossed

(* The booking has one payment: a second one is refused, whatever it checked. *)
BeginPayment(s) ==
    LET b == asked[s].b
    IN  /\ asked[s].op = "pay" /\ payment[b] = "none"
        /\ Serve(s, "checked", "gateway", "none")
        /\ row' = [row EXCEPT ![b] = "PENDING"]
        /\ payment' = [payment EXCEPT ![b] = "PENDING"]
        /\ UNCHANGED crossed

(* confirmBooking and failBooking save over whatever the row says by then. *)
EndPayment(s) ==
    /\ \E got \in {"SUCCESS", "FAILED"} :
          LET b == asked[s].b
          IN  /\ Serve(s, "gateway", "done", got)
              /\ payment' = [payment EXCEPT ![b] = got]
              /\ row' = [row EXCEPT ![b] = IF got = "SUCCESS" THEN "CONFIRMED" ELSE "OVER"]
    /\ UNCHANGED crossed

\* Between the check of a payment that will go on and its end.
PaymentUnderWay(b) ==
    \E s \in Slots : /\ asked[s].op = "pay" /\ asked[s].b = b
                     /\ asked[s].at = "gateway" \/ (asked[s].at = "checked" /\ payment[b] = "none")

EndBooking(s) ==
    LET b == asked[s].b
    IN  /\ asked[s].op \in {"cancel", "refund", "expire"}
        /\ Serve(s, "checked", "done", "ok")
        /\ row' = [row EXCEPT ![b] = "OVER"]
        /\ crossed' = IF s = "page" /\ PaymentUnderWay(b) THEN crossed \cup {b} ELSE crossed
        /\ UNCHANGED payment

(* Refused, or dead between two steps. *)
Drop(s) ==
    /\ s # "page" /\ asked[s] # NoCall
    /\ Forget(s)
    /\ UNCHANGED <<rowVars, screenVars, visitNotes>>

-------------------------------------------------------------------------------
(* The answers *)

(* A refusal, an error, a death between two steps; or only the answer is lost, of *)
(* what was done or of what goes on.                                              *)
RequestFails ==
    /\ request.at \in {"sent", "checked", "gateway", "done"}
    /\ \/ /\ Forget("page")
          /\ lost' = (lost \/ request.at = "done")
       \/ LeaveBehind /\ lost' = TRUE
    /\ UNCHANGED <<rowVars, screenVars, made, resent, reported, crossed, declined>>

Booked ==
    /\ request.op = "book" /\ request.at = "done"
    /\ on' = request.b
    /\ Forget("page")
    /\ UNCHANGED <<rowVars, page, opening, failed, seen, result, visitNotes>>

PaymentAnswered ==
    /\ request.op = "pay" /\ request.at = "done"
    /\ result' = request.got
    /\ declined' = (declined \/ request.got = "FAILED")
    /\ Forget("page")
    /\ UNCHANGED <<rowVars, page, on, opening, failed, seen, made, resent, lost, reported, crossed>>

(* A toast, and the list is loaded again. *)
ActionAnswered ==
    /\ request.op \in {"cancel", "refund"} /\ request.at = "done"
    /\ reported' = reported \cup {request.b}
    /\ opening' = TRUE
    /\ asked' = [asked EXCEPT !["page"].at = "reload"]
    /\ UNCHANGED <<rowVars, page, on, failed, seen, result, made, resent, lost, crossed, declined>>

-------------------------------------------------------------------------------
BookingNext ==
    \/ OpenBook \/ OpenList \/ PageLoaded \/ ConfirmBooking \/ Pay \/ RetryPayment
    \/ \E b \in Bookings : OpenPayment(b) \/ Cancel(b) \/ Refund(b)
    \/ \E s \in Others, b \in Bookings : Elsewhere(s, b)
    \/ \E s \in Slots : \/ MakeBooking(s) \/ Check(s) \/ BeginPayment(s) \/ EndPayment(s)
                        \/ EndBooking(s) \/ Drop(s)
    \/ RequestFails \/ Booked \/ PaymentAnswered \/ ActionAnswered

BookingTypeOK ==
    /\ row \in [Bookings -> Statuses] /\ seen \in [Bookings -> Statuses]
    /\ payment \in [Bookings -> {"none", "PENDING", "SUCCESS", "FAILED"}]
    /\ page \in {"home", "book", "pay", "list"} /\ on \in Bookings \cup {0}
    /\ {opening, failed, resent, lost, declined} \subseteq BOOLEAN
    /\ asked \in [Slots -> [op : {"none", "book", "pay", "cancel", "refund", "expire"},
                            at : {"none", "sent", "checked", "gateway", "done", "reload"},
                            b : Bookings \cup {0}, got : {"none", "ok", "SUCCESS", "FAILED"}]]
    /\ result \in {"none", "SUCCESS", "FAILED"}
    /\ made \subseteq Bookings /\ reported \subseteq Bookings /\ crossed \subseteq Bookings

(* One form makes one booking, unless it was submitted again after the answer *)
(* to it was lost: createBooking has no key by which the second one is known. *)
OneBookingPerForm == ~resent => Cardinality(made) <= 1

(* A booking that the list has reported as cancelled or refunded is shown as over  *)
(* when it has loaded again, and stays over; unless a payment of it was under way  *)
(* when the service ended it, for that payment may yet save its CONFIRMED over the *)
(* CANCELLED that was reported.                                                    *)
CancelledIsShown ==
    \A b \in reported \ crossed :
        row[b] = "OVER" /\ (page = "list" /\ ~opening /\ ~failed => seen[b] = "OVER")

(* A payment page that has shown a failed payment never shows a success, although *)
(* it says to try again: Retry asks to pay a booking that has had its payment.    *)
FailureIsFinal == declined => result # "SUCCESS"
================================================================================
