--------------------------- MODULE PurchaseContract ---------------------------
(***************************************************************************)
(* What the booking service promises about money, whatever the requests,   *)
(* the expiry job and the failures do: the life of a payment row and its   *)
(* relation to the gateway and to a confirmed booking.  Nothing here knows *)
(* of handlers, transactions or locks; BookingPayment implements it.       *)
(***************************************************************************)
EXTENDS Naturals

CONSTANT Bookings

VARIABLES
    payment,    \* payment[b]: status of b's payment row, "NONE" when there is none
    charges,    \* charges[b]: successful charges made at the gateway for b
    refunds,    \* refunds[b]: refunds made at the gateway for b
    confirmed   \* the bookings whose status is CONFIRMED

contractVars == <<payment, charges, refunds, confirmed>>

Init ==
    /\ payment = [b \in Bookings |-> "NONE"]
    /\ charges = [b \in Bookings |-> 0]
    /\ refunds = [b \in Bookings |-> 0]
    /\ confirmed = {}

(* A payment row is opened once, before anything is charged. *)
Open(b) ==
    /\ payment[b] = "NONE" /\ charges[b] = 0
    /\ payment' = [payment EXCEPT ![b] = "PENDING"]
    /\ UNCHANGED <<charges, refunds, confirmed>>

(* The only charge there ever is. *)
Charge(b) ==
    /\ payment[b] = "PENDING" /\ charges[b] = 0
    /\ charges' = [charges EXCEPT ![b] = 1]
    /\ UNCHANGED <<payment, refunds, confirmed>>

(* The row says SUCCESS exactly when the gateway took the money ... *)
Settle(b) ==
    /\ payment[b] = "PENDING" /\ charges[b] = 1
    /\ payment' = [payment EXCEPT ![b] = "SUCCESS"]
    /\ UNCHANGED <<charges, refunds, confirmed>>

(* ... and FAILED only when it did not. *)
Decline(b) ==
    /\ payment[b] = "PENDING" /\ charges[b] = 0
    /\ payment' = [payment EXCEPT ![b] = "FAILED"]
    /\ UNCHANGED <<charges, refunds, confirmed>>

(* Only a paid booking becomes CONFIRMED. *)
Confirm(b) ==
    /\ payment[b] = "SUCCESS"
    /\ confirmed' = confirmed \cup {b}
    /\ UNCHANGED <<payment, charges, refunds>>

(* A confirmed booking may be cancelled without any refund ... *)
Withdraw(b) ==
    /\ confirmed' = confirmed \ {b}
    /\ UNCHANGED <<payment, charges, refunds>>

(* ... or its money goes back at the gateway, possibly more than once, ... *)
Refund(b) ==
    /\ payment[b] \in {"SUCCESS", "REFUNDED"}
    /\ refunds' = [refunds EXCEPT ![b] = @ + 1]
    /\ UNCHANGED <<payment, charges, confirmed>>

(* ... and the row says so in the same step in which the booking is cancelled. *)
RecordRefund(b) ==
    /\ payment[b] \in {"SUCCESS", "REFUNDED"} /\ refunds[b] > 0
    /\ payment' = [payment EXCEPT ![b] = "REFUNDED"]
    /\ confirmed' = confirmed \ {b}
    /\ UNCHANGED <<charges, refunds>>

Next ==
    \E b \in Bookings :
        \/ Open(b) \/ Charge(b) \/ Settle(b) \/ Decline(b)
        \/ Confirm(b) \/ Withdraw(b) \/ Refund(b) \/ RecordRefund(b)

Spec == Init /\ [][Next]_contractVars
===============================================================================
