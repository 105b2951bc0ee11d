------------------------- MODULE BookingPaymentProofs -------------------------
(***************************************************************************)
(* Proofs about BookingPayment, for any number of bookings, overlapping    *)
(* requests, expiry runs and faults.                                       *)
(***************************************************************************)
EXTENDS BookingPayment, TLAPS

(* TypeOK is inductive. *)
LEMMA TypeInit == Init => TypeOK
BY FaultAssumption DEF Init, TypeOK, Statuses, PaymentStatuses, Ops, Labels, Events

LEMMA TypeArrive ==
    ASSUME TypeOK, NEW h \in Handlers, Arrive(h)
    PROVE  TypeOK'
<1>1. PICK b \in Bookings :
        PayLoad(h, b) \/ CancelLoad(h, b) \/ RefundLoad(h, b) \/ AdminCancelLoad(h, b)
  BY DEF Arrive
<1>2. PICK o \in Ops, allowed \in SUBSET Statuses, m \in Labels \ {"idle"} :
        Begin(h, o, b, allowed, m)
  BY <1>1 DEF PayLoad, CancelLoad, RefundLoad, AdminCancelLoad, Ops, Statuses,
              Labels, PayLabels, CancelLabels
<1> QED
  BY <1>2 DEF TypeOK, Begin, rows, cron, world

LEMMA TypePay ==
    ASSUME TypeOK, NEW h \in Handlers, Pay(h)
    PROVE  TypeOK'
<1> USE DEF TypeOK, rows, cron, world, Goto, Finish, Fetch, Save, Publish, Free,
            Labels, PayLabels
<1>1. CASE PayCheck(h) BY <1>1 DEF PayCheck, Ops, Statuses
<1>2. CASE PayBegin(h) BY <1>2 DEF PayBegin
<1>3. CASE PayInsert(h) BY <1>3, SMTT(30) DEF PayInsert, Ops, Statuses, PaymentStatuses
<1>4. CASE PayCommit(h) BY <1>4 DEF PayCommit, Statuses
<1>5. CASE PayGateway(h)
  <2>1. pc' \in [Handlers -> Labels] /\ on[h] \in Bookings
    BY <1>5 DEF PayGateway
  <2>2. charges' \in [Bookings -> Nat]
    <3>1. \/ charges' = charges
          \/ charges' = [charges EXCEPT ![on[h]] = charges[on[h]] + 1]
      BY <1>5 DEF PayGateway
    <3>2. charges \in [Bookings -> Nat]
      OBVIOUS
    <3> HIDE DEF TypeOK
    <3> QED
      BY <2>1, <3>1, <3>2
  <2>3. /\ UNCHANGED <<op, on, loaded, status, payment, rowLock, aged, batch, expiring>>
        /\ UNCHANGED <<refunds, releases, published, faults>>
        /\ \A g \in Handlers : pc'[g] # "idle" => pc[g] # "idle"
    BY <1>5 DEF PayGateway
  <2> QED
    BY <2>1, <2>2, <2>3
<1>6. CASE PaySettle(h) BY <1>6 DEF PaySettle, PaymentStatuses
<1>7. CASE ConfirmFetch(h) BY <1>7 DEF ConfirmFetch
<1>8. CASE ConfirmSave(h) BY <1>8 DEF ConfirmSave, Statuses
<1>9. CASE ConfirmTell(h) BY <1>9 DEF ConfirmTell, Ops, Statuses, Events
<1>10. CASE PayDecline(h) BY <1>10 DEF PayDecline, PaymentStatuses
<1>11. CASE FailFetch(h) BY <1>11 DEF FailFetch
<1>12. CASE FailSave(h) BY <1>12 DEF FailSave, Statuses
<1> QED
  BY <1>1, <1>2, <1>3, <1>4, <1>5, <1>6, <1>7, <1>8, <1>9, <1>10, <1>11, <1>12 DEF Pay

LEMMA TypeCancelOrRefund ==
    ASSUME TypeOK, NEW h \in Handlers, CancelOrRefund(h)
    PROVE  TypeOK'
<1> USE DEF TypeOK, rows, cron, world, Goto, Finish, Publish, Free, Labels, CancelLabels
<1>1. CASE CancelSave(h) BY <1>1 DEF CancelSave, Statuses
<1>2. CASE RefundPayment(h) BY <1>2, SMTT(30) DEF RefundPayment, Ops, Statuses
<1>3. CASE RefundGateway(h) BY <1>3 DEF RefundGateway
<1>4. CASE RefundCommit(h) BY <1>4 DEF RefundCommit, Statuses, PaymentStatuses
<1>5. CASE AdminCancelSave(h) BY <1>5 DEF AdminCancelSave, Statuses
<1>6. CASE ReleaseSeats(h) BY <1>6, FaultAssumption DEF ReleaseSeats
<1>7. CASE Tell(h)
  <2>1. EventsOf(op[h]) \subseteq Events
    BY DEF EventsOf, Ops, Events
  <2> QED
    BY <1>7, <2>1 DEF Tell, Ops, Statuses
<1> QED
  BY <1>1, <1>2, <1>3, <1>4, <1>5, <1>6, <1>7 DEF CancelOrRefund

LEMMA TypeSweep ==
    ASSUME TypeOK, NEW s \in Sweeps, Sweep(s)
    PROVE  TypeOK'
<1> USE DEF TypeOK, rows, requests, world
<1>1. CASE SweepList(s) BY <1>1 DEF SweepList, Expired
<1>2. CASE SweepExpire(s) BY <1>2 DEF SweepExpire, Statuses
<1>3. CASE SweepTell(s) BY <1>3 DEF SweepTell, Publish, Events
<1> QED
  BY <1>1, <1>2, <1>3 DEF Sweep

LEMMA TypeFaults ==
    ASSUME TypeOK,
           \/ \E b \in Bookings : Age(b)
           \/ \E h \in Handlers : Throw(h)
           \/ \E s \in Sweeps : SweepThrow(s)
           \/ Crash
    PROVE  TypeOK'
<1> USE FaultAssumption DEF TypeOK, rows, requests, cron, world, Fault
<1>1. CASE \E b \in Bookings : Age(b) BY <1>1 DEF Age
<1>2. CASE \E h \in Handlers : Throw(h)
  BY <1>2 DEF Throw, Finish, Ops, Labels, Statuses
<1>3. CASE \E s \in Sweeps : SweepThrow(s) BY <1>3 DEF SweepThrow
<1>4. CASE Crash BY <1>4 DEF Crash, Ops, Labels, Statuses
<1> QED
  BY <1>1, <1>2, <1>3, <1>4

LEMMA TypeStep == TypeOK /\ [Next]_vars => TypeOK'
<1> SUFFICES ASSUME TypeOK, [Next]_vars PROVE TypeOK'
  OBVIOUS
<1>1. CASE \E h \in Handlers : Arrive(h) BY <1>1, TypeArrive
<1>2. CASE \E h \in Handlers : Step(h) BY <1>2, TypePay, TypeCancelOrRefund DEF Step
<1>3. CASE \E s \in Sweeps : Sweep(s) BY <1>3, TypeSweep
<1>4. CASE UNCHANGED vars
  BY <1>4 DEF TypeOK, vars, rows, requests, cron, world
<1> QED
  BY <1>1, <1>2, <1>3, <1>4, TypeFaults DEF Next

(* Every variable keeps its type, and a request in progress has a booking. *)
THEOREM TypeCorrect == Spec => []TypeOK
<1> QED
  BY TypeInit, TypeStep, PTL DEF Spec

-------------------------------------------------------------------------------
(***************************************************************************)
(* The money of a booking.  What the payment row says and what was charged *)
(* go together (RowMatchesGateway); each request that got past the payment *)
(* INSERT or into a refund still finds the row it left there               *)
(* (RequestMatchesRow); at most one request is between the INSERT and the  *)
(* end of the payment (OneSettler); and while there is one, the booking is *)
(* not CONFIRMED and nobody refunds it (NoRefundYet).  The row lock plays  *)
(* no part: the unique index alone gives OneSettler.                       *)
(***************************************************************************)
Undecided == {"pay_commit", "pay_gateway", "pay_decline"}
Confirming == {"confirm_fetch", "confirm_save"}
Failing == {"fail_fetch", "fail_save"}
Unsettled == Undecided \cup {"pay_settle"} \cup Confirming \cup Failing
Refunding == {"refund_payment", "refund_gateway", "refund_commit"}

RowMatchesGateway ==
    \A b \in Bookings :
        /\ payment[b] \in {"NONE", "FAILED"} => charges[b] = 0
        /\ payment[b] \in {"SUCCESS", "REFUNDED"} => charges[b] = 1
        /\ charges[b] \in {0, 1}
        /\ status[b] = "CONFIRMED" => payment[b] = "SUCCESS"
        /\ payment[b] = "REFUNDED" => status[b] \in {"CANCELLED", "EXPIRED"}

RequestMatchesRow ==
    \A h \in Handlers :
        /\ pc[h] \in Undecided => payment[on[h]] = "PENDING" /\ charges[on[h]] = 0
        /\ pc[h] = "pay_settle" => payment[on[h]] = "PENDING" /\ charges[on[h]] = 1
        /\ pc[h] \in Confirming => payment[on[h]] = "SUCCESS"
        /\ pc[h] \in Failing => payment[on[h]] = "FAILED"
        /\ pc[h] \in Refunding => payment[on[h]] \in {"SUCCESS", "REFUNDED"}
        /\ pc[h] = "refund_commit" => refunds[on[h]] > 0

OneSettler ==
    \A g, h \in Handlers :
        pc[g] \in Unsettled /\ pc[h] \in Unsettled /\ on[g] = on[h] => g = h

NoRefundYet ==
    \A h \in Handlers :
        pc[h] \in Unsettled =>
            /\ status[on[h]] # "CONFIRMED"
            /\ \A g \in Handlers : pc[g] \in Refunding => on[g] # on[h]

MoneyInv == RowMatchesGateway /\ RequestMatchesRow /\ OneSettler /\ NoRefundYet

LEMMA MoneyInit == Init => MoneyInv
BY DEF Init, MoneyInv, RowMatchesGateway, RequestMatchesRow, OneSettler, NoRefundYet,
       Unsettled, Undecided, Confirming, Failing, Refunding

(* Most steps touch neither the payment row nor the gateway, move no        *)
(* request into the payment or into a refund, and confirm nothing.          *)
Stays(h) ==
    \/ pc'[h] \notin Unsettled \cup Refunding
    \/ /\ on'[h] = on[h]
       /\ \/ pc'[h] = pc[h]
          \/ pc[h] \in Undecided /\ pc'[h] \in Undecided
          \/ pc[h] \in Confirming /\ pc'[h] \in Confirming
          \/ pc[h] \in Failing /\ pc'[h] \in Failing
          \/ pc[h] \in Refunding /\ pc'[h] = "refund_gateway"

StatusHarmless(b) ==
    \/ status'[b] = status[b]
    \/ status'[b] \in {"CANCELLED", "EXPIRED"}
    \/ status'[b] = "PENDING" /\ payment[b] = "PENDING"

LEMMA Harmless ==
    ASSUME TypeOK, TypeOK', MoneyInv,
           UNCHANGED <<payment, charges, refunds>>,
           \A h \in Handlers : Stays(h),
           \A b \in Bookings : StatusHarmless(b)
    PROVE  MoneyInv'
<1> USE DEF MoneyInv
<1>1. \A h \in Handlers :
        /\ pc[h] \in Unsettled \cup Refunding => on[h] \in Bookings
        /\ pc'[h] \in Unsettled => pc[h] \in Unsettled /\ on'[h] = on[h]
        /\ pc'[h] \in Refunding => pc[h] \in Refunding /\ on'[h] = on[h]
  BY DEF Stays, TypeOK, Unsettled, Undecided, Confirming, Failing, Refunding
<1>2. RowMatchesGateway'
  BY DEF RowMatchesGateway, StatusHarmless
<1>3. RequestMatchesRow'
  BY <1>1 DEF RequestMatchesRow, Stays, Unsettled, Undecided, Confirming, Failing, Refunding
<1>4. OneSettler'
  BY <1>1 DEF OneSettler
<1>5. NoRefundYet'
  BY <1>1 DEF NoRefundYet, StatusHarmless
<1> QED
  BY <1>2, <1>3, <1>4, <1>5

LEMMA MoneyArrive ==
    ASSUME TypeOK, TypeOK', MoneyInv, NEW h \in Handlers, Arrive(h)
    PROVE  MoneyInv'
<1> USE DEF Begin, rows, cron, world
<1>1. PICK b \in Bookings :
        PayLoad(h, b) \/ CancelLoad(h, b) \/ RefundLoad(h, b) \/ AdminCancelLoad(h, b)
  BY DEF Arrive
<1>2. CASE PayLoad(h, b) \/ CancelLoad(h, b) \/ AdminCancelLoad(h, b)
  <2>1. UNCHANGED <<payment, charges, refunds, status>>
    BY <1>2 DEF PayLoad, CancelLoad, AdminCancelLoad
  <2>2. \A g \in Handlers : Stays(g)
    BY <1>2 DEF PayLoad, CancelLoad, AdminCancelLoad, Stays, TypeOK,
                Unsettled, Undecided, Confirming, Failing, Refunding
  <2> QED
    BY <2>1, <2>2, Harmless DEF StatusHarmless
<1>3. CASE RefundLoad(h, b)
  (* The booking is CONFIRMED, so its payment is over and succeeded. *)
  <2>1. /\ UNCHANGED <<payment, charges, refunds, status>>
        /\ status[b] = "CONFIRMED"
        /\ \A g \in Handlers : g # h => pc'[g] = pc[g] /\ on'[g] = on[g]
        /\ pc'[h] = "refund_payment" /\ on'[h] = b
    BY <1>3 DEF RefundLoad, TypeOK
  <2>2. RowMatchesGateway'
    BY <2>1 DEF MoneyInv, RowMatchesGateway
  <2>3. RequestMatchesRow'
    BY <2>1 DEF MoneyInv, RowMatchesGateway, RequestMatchesRow, Undecided, Confirming,
                Failing, Refunding
  <2>4. OneSettler'
    BY <2>1 DEF MoneyInv, OneSettler, Unsettled, Undecided, Confirming, Failing
  <2>5. NoRefundYet'
    BY <2>1 DEF MoneyInv, NoRefundYet, Unsettled, Undecided, Confirming, Failing, Refunding
  <2> QED
    BY <2>2, <2>3, <2>4, <2>5 DEF MoneyInv
<1> QED
  BY <1>1, <1>2, <1>3

(* The steps of a payment that change only pc, the lock or the status. *)
LEMMA MoneyPayHarmless ==
    ASSUME TypeOK, TypeOK', MoneyInv, NEW h \in Handlers,
           \/ PayCheck(h) \/ PayBegin(h) \/ PayCommit(h)
           \/ ConfirmFetch(h) \/ ConfirmTell(h) \/ FailFetch(h) \/ FailSave(h)
    PROVE  MoneyInv'
<1>1. UNCHANGED <<payment, charges, refunds>>
  BY DEF PayCheck, PayBegin, PayCommit, ConfirmFetch, ConfirmTell, FailFetch, FailSave,
         Fetch, rows, world
<1>2. \A g \in Handlers : Stays(g)
  BY DEF PayCheck, PayBegin, PayCommit, ConfirmFetch, ConfirmTell, FailFetch, FailSave,
         Fetch, Goto, Finish, Stays, TypeOK, Unsettled, Undecided, Confirming, Failing,
         Refunding
<1>3. \A b \in Bookings : StatusHarmless(b)
  <2>1. CASE PayCommit(h)
    <3>1. payment[on[h]] = "PENDING"
      BY <2>1 DEF PayCommit, Goto, MoneyInv, RequestMatchesRow, Undecided
    <3> QED
      BY <2>1, <3>1 DEF PayCommit, StatusHarmless, TypeOK
  <2>2. CASE FailSave(h)
    BY <2>2 DEF FailSave, Save, StatusHarmless, TypeOK
  <2>3. CASE ~PayCommit(h) /\ ~FailSave(h)
    BY <2>3 DEF PayCheck, PayBegin, ConfirmFetch, ConfirmTell, FailFetch, Fetch, rows,
                StatusHarmless
  <2> QED
    BY <2>1, <2>2, <2>3
<1> QED
  BY <1>1, <1>2, <1>3, Harmless

(* A request gets past the INSERT only when there was no row: then nobody   *)
(* else is past it, and nobody can be refunding.                            *)
LEMMA MoneyPayInsert ==
    ASSUME TypeOK, TypeOK', MoneyInv, NEW h \in Handlers, PayInsert(h)
    PROVE  MoneyInv'
<1>1. CASE payment[on[h]] # "NONE"
  <2>1. UNCHANGED <<payment, charges, refunds, status>>
    BY <1>1 DEF PayInsert, world
  <2>2. \A g \in Handlers : Stays(g)
    BY <1>1 DEF PayInsert, Finish, Stays, TypeOK, Unsettled, Undecided, Confirming,
                Failing, Refunding
  <2> QED
    BY <2>1, <2>2, Harmless DEF StatusHarmless
<1>2. CASE payment[on[h]] = "NONE"
  <2>1. /\ on[h] \in Bookings
        /\ payment' = [payment EXCEPT ![on[h]] = "PENDING"]
        /\ pc' = [pc EXCEPT ![h] = "pay_commit"]
        /\ UNCHANGED <<on, charges, refunds, status>>
    BY <1>2 DEF PayInsert, Goto, TypeOK, world
  <2>2. \A g \in Handlers : pc[g] \in Unsettled \cup Refunding => on[g] # on[h]
    BY <1>2 DEF MoneyInv, RequestMatchesRow, Unsettled
  <2>3. charges[on[h]] = 0 /\ status[on[h]] # "CONFIRMED"
    BY <1>2, <2>1 DEF MoneyInv, RowMatchesGateway
  <2> USE DEF TypeOK
  <2>4. RowMatchesGateway'
    BY <2>1, <2>3 DEF MoneyInv, RowMatchesGateway
  <2>5. RequestMatchesRow'
    BY <2>1, <2>2, <2>3 DEF MoneyInv, RequestMatchesRow, Unsettled, Undecided,
                            Confirming, Failing, Refunding
  <2>6. OneSettler'
    BY <2>1, <2>2 DEF MoneyInv, OneSettler
  <2>7. NoRefundYet'
    BY <2>1, <2>2, <2>3 DEF MoneyInv, NoRefundYet, Unsettled, Undecided, Confirming,
                            Failing, Refunding
  <2> QED
    BY <2>4, <2>5, <2>6, <2>7 DEF MoneyInv
<1> QED
  BY <1>1, <1>2

(* The one request that may charge, settle or decline does so. *)
LEMMA MoneyPayDecides ==
    ASSUME TypeOK, TypeOK', MoneyInv, NEW h \in Handlers,
           PayGateway(h) \/ PaySettle(h) \/ PayDecline(h)
    PROVE  MoneyInv'
<1> USE DEF TypeOK
<1> DEFINE
      Others == /\ \A g \in Handlers : g # h => pc'[g] = pc[g]
                /\ UNCHANGED <<on, status, refunds>>
                /\ \A b \in Bookings :
                     b # on[h] => payment'[b] = payment[b] /\ charges'[b] = charges[b]
      Result ==
        \/ pc'[h] \in Undecided /\ payment'[on[h]] = "PENDING" /\ charges'[on[h]] = 0
        \/ pc'[h] = "pay_settle" /\ payment'[on[h]] = "PENDING" /\ charges'[on[h]] = 1
        \/ pc'[h] \in Confirming /\ payment'[on[h]] = "SUCCESS" /\ charges'[on[h]] = 1
        \/ pc'[h] \in Failing /\ payment'[on[h]] = "FAILED" /\ charges'[on[h]] = 0
<1>1. on[h] \in Bookings /\ pc[h] \in Unsettled /\ payment[on[h]] = "PENDING"
  BY DEF PayGateway, PaySettle, PayDecline, Goto, MoneyInv, RequestMatchesRow,
         Unsettled, Undecided
<1>2. ASSUME PayGateway(h) PROVE pc'[h] \in Unsettled /\ Others /\ Result
  <2>1. charges[on[h]] = 0
    BY <1>2 DEF PayGateway, Goto, MoneyInv, RequestMatchesRow, Undecided
  <2>2. /\ UNCHANGED <<on, status, refunds, payment>>
        /\ \/ /\ pc' = [pc EXCEPT ![h] = "pay_settle"]
              /\ charges' = [charges EXCEPT ![on[h]] = charges[on[h]] + 1]
           \/ pc' = [pc EXCEPT ![h] = "pay_decline"] /\ charges' = charges
    BY <1>2 DEF PayGateway, Goto, rows
  <2>3. charges \in [Bookings -> Nat] /\ pc \in [Handlers -> Labels]
    OBVIOUS
  <2> HIDE DEF TypeOK
  <2> QED
    BY <1>1, <2>1, <2>2, <2>3 DEF Undecided, Unsettled
<1>3. ASSUME PaySettle(h) PROVE pc'[h] \in Unsettled /\ Others /\ Result
  BY <1>1, <1>3 DEF PaySettle, Goto, world, MoneyInv, RequestMatchesRow, Confirming, Unsettled
<1>4. ASSUME PayDecline(h) PROVE pc'[h] \in Unsettled /\ Others /\ Result
  BY <1>1, <1>4 DEF PayDecline, Goto, world, MoneyInv, RequestMatchesRow, Undecided,
                   Failing, Unsettled
<1>5. on[h] \in Bookings /\ pc[h] \in Unsettled /\ pc'[h] \in Unsettled /\ Others
  BY <1>1, <1>2, <1>3, <1>4
<1>6. \A g \in Handlers : g # h /\ pc[g] \in Unsettled \cup Refunding => on[g] # on[h]
  BY <1>5 DEF MoneyInv, OneSettler, NoRefundYet
<1>7. status[on[h]] # "CONFIRMED"
  BY <1>5 DEF MoneyInv, NoRefundYet
<1>8. Result
  BY <1>2, <1>3, <1>4
<1>9. RowMatchesGateway'
  BY <1>5, <1>7, <1>8 DEF MoneyInv, RowMatchesGateway
<1>10. RequestMatchesRow'
  BY <1>5, <1>6, <1>8 DEF MoneyInv, RequestMatchesRow, Unsettled, Undecided, Confirming,
                          Failing, Refunding
<1>11. OneSettler'
  BY <1>5 DEF MoneyInv, OneSettler
<1>12. NoRefundYet'
  BY <1>5 DEF MoneyInv, NoRefundYet, Unsettled, Undecided, Confirming, Failing, Refunding
<1> QED
  BY <1>9, <1>10, <1>11, <1>12 DEF MoneyInv

(* The settler leaves in the step that confirms the booking. *)
LEMMA MoneyConfirmSave ==
    ASSUME TypeOK, TypeOK', MoneyInv, NEW h \in Handlers, ConfirmSave(h)
    PROVE  MoneyInv'
<1> USE DEF TypeOK
<1>1. /\ on[h] \in Bookings /\ pc[h] \in Confirming
      /\ pc' = [pc EXCEPT ![h] = "confirm_tell"]
      /\ UNCHANGED <<on, payment, charges, refunds>>
      /\ \A b \in Bookings : b # on[h] => status'[b] = status[b]
      /\ status'[on[h]] \in {status[on[h]], "CONFIRMED"}
  BY DEF ConfirmSave, Save, Goto, Confirming, world
<1>2. payment[on[h]] = "SUCCESS"
  BY <1>1 DEF MoneyInv, RequestMatchesRow
<1>3. RowMatchesGateway'
  BY <1>1, <1>2 DEF MoneyInv, RowMatchesGateway
<1>4. RequestMatchesRow'
  BY <1>1 DEF MoneyInv, RequestMatchesRow, Undecided, Confirming, Failing, Refunding
<1>5. OneSettler'
  BY <1>1 DEF MoneyInv, OneSettler, Unsettled, Undecided, Confirming, Failing
<1>6. NoRefundYet'
  BY <1>1 DEF MoneyInv, OneSettler, NoRefundYet, Unsettled, Undecided, Confirming,
              Failing, Refunding
<1> QED
  BY <1>3, <1>4, <1>5, <1>6 DEF MoneyInv

(* The steps of a cancellation or a refund that leave the money alone. *)
LEMMA MoneyCancel ==
    ASSUME TypeOK, TypeOK', MoneyInv, NEW h \in Handlers,
           \/ CancelSave(h) \/ RefundPayment(h) \/ AdminCancelSave(h)
           \/ ReleaseSeats(h) \/ Tell(h)
    PROVE  MoneyInv'
<1>1. UNCHANGED <<payment, charges, refunds>>
  BY DEF CancelSave, RefundPayment, AdminCancelSave, ReleaseSeats, Tell, rows, world
<1>2. \A g \in Handlers : Stays(g)
  BY DEF CancelSave, RefundPayment, AdminCancelSave, ReleaseSeats, Tell, Goto, Finish,
         Stays, TypeOK, Unsettled, Undecided, Confirming, Failing, Refunding
<1>3. \A b \in Bookings : StatusHarmless(b)
  BY DEF CancelSave, RefundPayment, AdminCancelSave, ReleaseSeats, Tell, rows,
         StatusHarmless, TypeOK
<1> QED
  BY <1>1, <1>2, <1>3, Harmless

(* A refund in progress keeps the row at SUCCESS or REFUNDED, hence away    *)
(* from every request that is still paying.                                 *)
LEMMA MoneyRefund ==
    ASSUME TypeOK, TypeOK', MoneyInv, NEW h \in Handlers,
           RefundGateway(h) \/ RefundCommit(h)
    PROVE  MoneyInv'
<1> USE DEF TypeOK
<1>1. on[h] \in Bookings /\ pc[h] \in Refunding
  BY DEF RefundGateway, RefundCommit, Goto, Refunding
<1>2. \A g \in Handlers : pc[g] \in Unsettled => on[g] # on[h]
  BY <1>1 DEF MoneyInv, NoRefundYet
<1>3. CASE RefundGateway(h)
  <2>1. /\ UNCHANGED <<on, status, payment, charges>>
        /\ pc' = [pc EXCEPT ![h] = "refund_commit"]
        /\ refunds' = [refunds EXCEPT ![on[h]] = refunds[on[h]] + 1]
    BY <1>3 DEF RefundGateway, Goto, rows
  <2>2. \A b \in Bookings : refunds[b] > 0 => refunds'[b] > 0
    BY <1>1, <2>1
  <2>3. refunds'[on[h]] > 0
    BY <1>1, <2>1
  <2>4. RowMatchesGateway'
    BY <2>1 DEF MoneyInv, RowMatchesGateway
  <2>5. RequestMatchesRow'
    BY <1>1, <2>1, <2>2, <2>3 DEF MoneyInv, RequestMatchesRow, Undecided, Confirming,
                                  Failing, Refunding
  <2>6. OneSettler'
    BY <2>1 DEF MoneyInv, OneSettler, Unsettled, Undecided, Confirming, Failing
  <2>7. NoRefundYet'
    BY <1>1, <2>1 DEF MoneyInv, NoRefundYet, Unsettled, Undecided, Confirming, Failing,
                      Refunding
  <2> QED
    BY <2>4, <2>5, <2>6, <2>7 DEF MoneyInv
<1>4. CASE RefundCommit(h)
  <2>1. /\ UNCHANGED <<on, charges, refunds>>
        /\ pc' = [pc EXCEPT ![h] = "release"]
        /\ status' = [status EXCEPT ![on[h]] = "CANCELLED"]
        /\ payment' = [payment EXCEPT ![on[h]] = "REFUNDED"]
    BY <1>4 DEF RefundCommit, Goto, world
  <2>2. charges[on[h]] = 1
    BY <1>1 DEF MoneyInv, RequestMatchesRow, RowMatchesGateway
  <2>3. RowMatchesGateway'
    BY <1>1, <2>1, <2>2 DEF MoneyInv, RowMatchesGateway
  <2>4. RequestMatchesRow'
    BY <1>1, <1>2, <2>1 DEF MoneyInv, RequestMatchesRow, Unsettled, Undecided, Confirming,
                            Failing, Refunding
  <2>5. OneSettler'
    BY <2>1 DEF MoneyInv, OneSettler, Unsettled, Undecided, Confirming, Failing
  <2>6. NoRefundYet'
    BY <1>1, <2>1 DEF MoneyInv, NoRefundYet, Unsettled, Undecided, Confirming, Failing,
                      Refunding
  <2> QED
    BY <2>3, <2>4, <2>5, <2>6 DEF MoneyInv
<1> QED
  BY <1>3, <1>4

(* The expiry job, time and faults only end requests and expire bookings. *)
LEMMA MoneyBackground ==
    ASSUME TypeOK, TypeOK', MoneyInv,
           \/ \E s \in Sweeps : Sweep(s) \/ SweepThrow(s)
           \/ \E b \in Bookings : Age(b)
           \/ \E h \in Handlers : Throw(h)
           \/ Crash
    PROVE  MoneyInv'
<1>1. UNCHANGED <<payment, charges, refunds>>
  BY DEF Sweep, SweepList, SweepExpire, SweepTell, SweepThrow, Age, Throw, Crash, rows, world
<1>2. \A g \in Handlers : Stays(g)
  <2>1. CASE \/ \E s \in Sweeps : Sweep(s) \/ SweepThrow(s)
             \/ \E b \in Bookings : Age(b)
    BY <2>1 DEF Sweep, SweepList, SweepExpire, SweepTell, SweepThrow, Age, requests, Stays
  <2>2. CASE (\E h \in Handlers : Throw(h)) \/ Crash
    BY <2>2 DEF Throw, Crash, Finish, Stays, TypeOK, Unsettled, Undecided, Confirming,
                Failing, Refunding
  <2> QED
    BY <2>1, <2>2
<1>3. \A b \in Bookings : StatusHarmless(b)
  <2>1. CASE \E s \in Sweeps : SweepExpire(s)
    BY <2>1 DEF SweepExpire, StatusHarmless, TypeOK
  <2>2. CASE ~ \E s \in Sweeps : SweepExpire(s)
    BY <2>2 DEF Sweep, SweepList, SweepTell, SweepThrow, Age, Throw, Crash, rows,
                StatusHarmless
  <2> QED
    BY <2>1, <2>2
<1> QED
  BY <1>1, <1>2, <1>3, Harmless

LEMMA MoneyStep == TypeOK /\ TypeOK' /\ MoneyInv /\ [Next]_vars => MoneyInv'
<1> SUFFICES ASSUME TypeOK, TypeOK', MoneyInv, [Next]_vars PROVE MoneyInv'
  OBVIOUS
<1>1. CASE \E h \in Handlers : Arrive(h) BY <1>1, MoneyArrive
<1>2. CASE \E h \in Handlers : Pay(h)
  BY <1>2, MoneyPayHarmless, MoneyPayInsert, MoneyPayDecides, MoneyConfirmSave DEF Pay
<1>3. CASE \E h \in Handlers : CancelOrRefund(h)
  BY <1>3, MoneyCancel, MoneyRefund DEF CancelOrRefund
<1>4. CASE UNCHANGED vars
  BY <1>4 DEF vars, rows, requests, cron, world, MoneyInv, RowMatchesGateway,
              RequestMatchesRow, OneSettler, NoRefundYet
<1> QED
  BY <1>1, <1>2, <1>3, <1>4, MoneyBackground DEF Next, Step

LEMMA MoneyCorrect == Spec => [](TypeOK /\ MoneyInv)
<1>1. Init => TypeOK /\ MoneyInv
  BY TypeInit, MoneyInit
<1>2. TypeOK /\ MoneyInv /\ [Next]_vars => (TypeOK /\ MoneyInv)'
  BY TypeStep, MoneyStep
<1> QED
  BY <1>1, <1>2, PTL DEF Spec

-------------------------------------------------------------------------------
(* However many payments of a booking overlap and whatever fails, the       *)
(* gateway charges it at most once.                                         *)
THEOREM ChargeOnce == Spec => []ChargedAtMostOnce
<1>1. MoneyInv => ChargedAtMostOnce
  BY DEF MoneyInv, RowMatchesGateway, ChargedAtMostOnce
<1> QED
  BY <1>1, MoneyCorrect, PTL

(* A booking is CONFIRMED only while it is paid and not refunded. *)
THEOREM ConfirmedPaid == Spec => []ConfirmedIsPaid
<1>1. MoneyInv => ConfirmedIsPaid
  BY DEF MoneyInv, RowMatchesGateway, ConfirmedIsPaid
<1> QED
  BY <1>1, MoneyCorrect, PTL

(* A refunded booking never comes back to life. *)
THEOREM RefundedOver == Spec => []RefundedIsOver
<1>1. MoneyInv => RefundedIsOver
  BY DEF MoneyInv, RowMatchesGateway, RefundedIsOver
<1> QED
  BY <1>1, MoneyCorrect, PTL

-------------------------------------------------------------------------------
(* The seats of a CANCELLED booking.  A step of a payment stays in it, ends *)
(* it, or goes to the release of the seats.                                 *)
LEMMA PayMoves ==
    ASSUME TypeOK, NEW h \in Handlers, Pay(h)
    PROVE  /\ pc[h] \in PayLabels
           /\ UNCHANGED <<batch, expiring>>
           /\ \/ /\ pc' = [pc EXCEPT ![h] = "idle"] /\ op' = [op EXCEPT ![h] = "pay"]
                 /\ on' = [on EXCEPT ![h] = None]
              \/ /\ \E l \in {"release"} \cup PayLabels : pc' = [pc EXCEPT ![h] = l]
                 /\ UNCHANGED <<op, on>>
<1> USE DEF Goto, Finish, Fetch, rows, cron, PayLabels
<1>1. CASE PayCheck(h) \/ PayBegin(h) \/ PayInsert(h) \/ PayCommit(h) \/ PayGateway(h)
  BY <1>1 DEF PayCheck, PayBegin, PayInsert, PayCommit, PayGateway
<1>2. CASE PaySettle(h) \/ ConfirmFetch(h) \/ ConfirmSave(h) \/ ConfirmTell(h)
  BY <1>2 DEF PaySettle, ConfirmFetch, ConfirmSave, ConfirmTell
<1>3. CASE PayDecline(h) \/ FailFetch(h) \/ FailSave(h)
  BY <1>3 DEF PayDecline, FailFetch, FailSave
<1> QED
  BY <1>1, <1>2, <1>3 DEF Pay

(* Every write of CANCELLED sends its request on to the release of the      *)
(* seats, and only the release ends that debt.                              *)
LEMMA SeatsRequest ==
    ASSUME TypeOK, CancelledSeatsComeBack,
           NEW h \in Handlers, Arrive(h) \/ Pay(h) \/ CancelOrRefund(h)
    PROVE  CancelledSeatsComeBack'
<1> USE DEF TypeOK, CancelledSeatsComeBack, rows, cron, world, Goto, Finish
<1>1. CASE Arrive(h)
  BY <1>1 DEF Arrive, PayLoad, CancelLoad, RefundLoad, AdminCancelLoad, Begin
<1>2. CASE \/ PayCheck(h) \/ PayBegin(h) \/ PayInsert(h) \/ PayCommit(h)
           \/ PayGateway(h) \/ PaySettle(h) \/ ConfirmFetch(h) \/ ConfirmSave(h)
           \/ ConfirmTell(h) \/ PayDecline(h) \/ FailFetch(h)
  <2>1. /\ UNCHANGED <<releases, faults>>
        /\ \A b \in Bookings : status'[b] = "CANCELLED" => status[b] = "CANCELLED"
    <3>1. CASE \/ PayCheck(h) \/ PayBegin(h) \/ PayInsert(h) \/ PayGateway(h)
               \/ PaySettle(h) \/ ConfirmFetch(h) \/ ConfirmTell(h) \/ PayDecline(h)
               \/ FailFetch(h)
      BY <3>1 DEF PayCheck, PayBegin, PayInsert, PayGateway, PaySettle, ConfirmFetch,
                  ConfirmTell, PayDecline, FailFetch, Fetch
    <3>2. CASE PayCommit(h) \/ ConfirmSave(h)
      BY <3>2 DEF PayCommit, ConfirmSave, Save
    <3> QED
      BY <1>2, <3>1, <3>2
  <2>2. \A g \in Handlers : pc[g] = "release" => pc'[g] = "release" /\ on'[g] = on[g]
    <3> HIDE DEF CancelledSeatsComeBack
    <3>1. Pay(h)
      BY <1>2 DEF Pay
    <3> QED
      BY <3>1, PayMoves DEF PayLabels
  <2> QED
    BY <2>1, <2>2
<1>3. CASE FailSave(h) BY <1>3 DEF FailSave, Save
<1>4. CASE CancelSave(h) \/ AdminCancelSave(h) \/ RefundCommit(h)
  BY <1>4 DEF CancelSave, AdminCancelSave, RefundCommit
<1>5. CASE RefundPayment(h) \/ RefundGateway(h) \/ Tell(h)
  BY <1>5 DEF RefundPayment, RefundGateway, Tell
<1>6. CASE ReleaseSeats(h) BY <1>6 DEF ReleaseSeats
<1> QED
  BY <1>1, <1>2, <1>3, <1>4, <1>5, <1>6 DEF Pay, CancelOrRefund

LEMMA SeatsStep ==
    TypeOK /\ CancelledSeatsComeBack /\ [Next]_vars => CancelledSeatsComeBack'
<1> SUFFICES ASSUME TypeOK, CancelledSeatsComeBack, [Next]_vars
             PROVE  CancelledSeatsComeBack'
  OBVIOUS
<1>1. CASE \E h \in Handlers : Arrive(h) \/ Step(h)
  BY <1>1, SeatsRequest DEF Step
<1>2. CASE \/ \E s \in Sweeps : Sweep(s)
           \/ \E b \in Bookings : Age(b)
           \/ UNCHANGED vars
  BY <1>2 DEF Sweep, SweepList, SweepExpire, SweepTell, Age, vars, rows, requests, cron,
              world, TypeOK, CancelledSeatsComeBack
<1>3. CASE \/ \E h \in Handlers : Throw(h)
           \/ \E s \in Sweeps : SweepThrow(s)
           \/ Crash
  (* A fault was counted: nothing is claimed any more. *)
  <2>1. faults' = faults + 1
    BY <1>3 DEF Throw, SweepThrow, Crash, Fault
  <2>2. faults' # 0
    BY <2>1 DEF TypeOK
  <2> QED
    BY <2>2 DEF CancelledSeatsComeBack
<1> QED
  BY <1>1, <1>2, <1>3 DEF Next

(* While nothing has failed, no cancelled booking keeps its seats: whoever  *)
(* cancelled it, and however often, has given them back or is about to.     *)
THEOREM SeatsComeBack == Spec => []CancelledSeatsComeBack
<1>1. Init => CancelledSeatsComeBack
  BY DEF Init, CancelledSeatsComeBack
<1> QED
  BY <1>1, SeatsStep, TypeCorrect, PTL DEF Spec

-------------------------------------------------------------------------------
(***************************************************************************)
(* The truth of the events.  An event is published steps after the write   *)
(* it tells of, from the request's own memory; it is true because what it  *)
(* tells of is never taken back.  A payment row only moves on              *)
(* (MoneyMovesOn), and each request still knows what its last write made   *)
(* of the row (RequestKnows); which event it sends hangs on what it serves *)
(* (LabelMatchesOp).                                                       *)
(***************************************************************************)
Paid(b) == payment[b] \in {"SUCCESS", "REFUNDED"}
GivenBack(b) == payment[b] = "REFUNDED" /\ refunds[b] > 0
Ending == {"release", "tell"}

LabelMatchesOp ==
    \A h \in Handlers :
        /\ pc[h] \in PayLabels => op[h] = "pay"
        /\ pc[h] \in Refunding => op[h] = "refund"
        /\ pc[h] = "cancel_save" => op[h] = "cancel"
        /\ pc[h] = "admin_save" => op[h] = "adminCancel"

RequestKnows ==
    \A h \in Handlers :
        /\ pc[h] = "confirm_tell" => Paid(on[h])
        /\ pc[h] \in Ending /\ op[h] = "pay" => payment[on[h]] = "FAILED"
        /\ pc[h] \in Ending /\ op[h] = "refund" => GivenBack(on[h])
        /\ pc[h] \in Ending \cup {"admin_save"} /\ op[h] = "adminCancel" => Paid(on[h])

SweepKnows ==
    \A s \in Sweeps :
        /\ \A b \in batch[s] : aged[b]
        /\ expiring[s] # None => aged[expiring[s]]

EventsTold ==
    \A b \in Bookings :
        /\ "booking.confirmed" \in published[b] => Paid(b)
        /\ "payment.failed" \in published[b] => payment[b] = "FAILED"
        /\ "booking.refunded" \in published[b] => GivenBack(b)
        /\ "booking.cancelled_no_refund" \in published[b] => Paid(b)
        /\ "booking.expired" \in published[b] => aged[b]

TruthInv == LabelMatchesOp /\ RequestKnows /\ SweepKnows /\ EventsTold

MoneyMovesOn ==
    \A b \in Bookings :
        /\ payment[b] = "FAILED" => payment'[b] = "FAILED"
        /\ Paid(b) => Paid(b)'
        /\ GivenBack(b) => GivenBack(b)'
        /\ aged[b] => aged'[b]

LEMMA TruthInit == Init => TruthInv
BY DEF Init, TruthInv, LabelMatchesOp, RequestKnows, SweepKnows, EventsTold, PayLabels,
       Refunding, Ending

(* No step takes back a failure, a success, a refund or the age of a        *)
(* booking: a decision is only made on a PENDING row.                       *)
LEMMA MovesOn == TypeOK /\ MoneyInv /\ [Next]_vars => MoneyMovesOn
<1> SUFFICES ASSUME TypeOK, MoneyInv, [Next]_vars PROVE MoneyMovesOn
  OBVIOUS
<1> USE DEF TypeOK, MoneyMovesOn, Paid, GivenBack, Goto, rows, world, requests, cron
<1>1. CASE UNCHANGED <<payment, refunds, aged>>
  BY <1>1
<1>2. CASE \E h \in Handlers : PayInsert(h)
  BY <1>2 DEF PayInsert
<1>3. CASE \E h \in Handlers : PaySettle(h) \/ PayDecline(h)
  <2>1. PICK h \in Handlers : PaySettle(h) \/ PayDecline(h)
    BY <1>3
  <2>2. payment[on[h]] = "PENDING"
    BY <2>1 DEF PaySettle, PayDecline, MoneyInv, RequestMatchesRow, Undecided
  <2> QED
    BY <2>1, <2>2 DEF PaySettle, PayDecline
<1>4. CASE \E h \in Handlers : RefundGateway(h)
  <2>1. PICK h \in Handlers : RefundGateway(h)
    BY <1>4
  <2>2. /\ UNCHANGED <<payment, aged>>
        /\ refunds' = [refunds EXCEPT ![on[h]] = refunds[on[h]] + 1]
    BY <2>1 DEF RefundGateway
  <2>3. \A b \in Bookings : refunds[b] > 0 => refunds'[b] > 0
    BY <2>2
  <2> QED
    BY <2>2, <2>3
<1>5. CASE \E h \in Handlers : RefundCommit(h)
  <2>1. PICK h \in Handlers : RefundCommit(h)
    BY <1>5
  <2>2. payment[on[h]] \in {"SUCCESS", "REFUNDED"}
    BY <2>1 DEF RefundCommit, MoneyInv, RequestMatchesRow, Refunding
  <2> QED
    BY <2>1, <2>2 DEF RefundCommit
<1>6. CASE \E b \in Bookings : Age(b)
  BY <1>6 DEF Age
<1>7. \/ UNCHANGED <<payment, refunds, aged>>
      \/ \E h \in Handlers :
            PayInsert(h) \/ PaySettle(h) \/ PayDecline(h) \/ RefundGateway(h) \/ RefundCommit(h)
      \/ \E b \in Bookings : Age(b)
  <2> HIDE DEF TypeOK, MoneyMovesOn
  <2>1. ASSUME NEW h \in Handlers, Arrive(h) PROVE UNCHANGED <<payment, refunds, aged>>
    BY <2>1 DEF Arrive, PayLoad, CancelLoad, RefundLoad, AdminCancelLoad, Begin
  <2>2. ASSUME NEW h \in Handlers, Pay(h), ~PayInsert(h), ~PaySettle(h), ~PayDecline(h)
        PROVE  UNCHANGED <<payment, refunds, aged>>
    BY <2>2 DEF Pay, PayCheck, PayBegin, PayCommit, PayGateway, ConfirmFetch, ConfirmSave,
                ConfirmTell, FailFetch, FailSave, Fetch, Save
  <2>3. ASSUME NEW h \in Handlers, CancelOrRefund(h), ~RefundGateway(h), ~RefundCommit(h)
        PROVE  UNCHANGED <<payment, refunds, aged>>
    BY <2>3 DEF CancelOrRefund, CancelSave, RefundPayment, AdminCancelSave, ReleaseSeats, Tell
  <2>4. ASSUME \/ \E s \in Sweeps : Sweep(s) \/ SweepThrow(s)
               \/ \E h \in Handlers : Throw(h)
               \/ Crash
               \/ UNCHANGED vars
        PROVE  UNCHANGED <<payment, refunds, aged>>
    BY <2>4 DEF Sweep, SweepList, SweepExpire, SweepTell, SweepThrow, Throw, Crash, vars
  <2> QED
    BY <2>1, <2>2, <2>3, <2>4 DEF Next, Step
<1> QED
  BY <1>1, <1>2, <1>3, <1>4, <1>5, <1>6, <1>7

(* No step takes back a decision about the money: a failed payment stays    *)
(* failed, a charged one charged, and a recorded refund recorded.           *)
THEOREM MoneyNeverGoesBack == Spec => [][MoneyMovesOn]_vars
<1>1. TypeOK /\ MoneyInv /\ [Next]_vars => [MoneyMovesOn]_vars
  BY MovesOn
<1> QED
  BY <1>1, MoneyCorrect, PTL DEF Spec

(* An administrator's cancellation starts from CONFIRMED, that is, paid. *)
LEMMA TruthArrive ==
    ASSUME TypeOK, TypeOK', MoneyInv, MoneyMovesOn, TruthInv, NEW h \in Handlers, Arrive(h)
    PROVE  TruthInv'
<1>1. PICK b \in Bookings :
        PayLoad(h, b) \/ CancelLoad(h, b) \/ RefundLoad(h, b) \/ AdminCancelLoad(h, b)
  BY DEF Arrive
<1> USE <1>1 DEF TypeOK, PayLoad, CancelLoad, RefundLoad, AdminCancelLoad, Begin, rows, cron,
            world, TruthInv, Paid, GivenBack
<1>2. LabelMatchesOp'
  BY DEF LabelMatchesOp, PayLabels, Refunding
<1>3. RequestKnows'
  BY DEF RequestKnows, Ending, MoneyInv, RowMatchesGateway
<1>4. SweepKnows' /\ EventsTold'
  BY DEF SweepKnows, EventsTold
<1> QED
  BY <1>2, <1>3, <1>4


LEMMA TruthPay ==
    ASSUME TypeOK, TypeOK', MoneyInv, MoneyMovesOn, TruthInv, NEW h \in Handlers, Pay(h)
    PROVE  TruthInv'
<1> USE DEF TypeOK, TruthInv, Goto, Finish, Fetch, rows, cron, world
<1>1. /\ UNCHANGED <<batch, expiring>>
      /\ \A g \in Handlers : g # h => pc'[g] = pc[g] /\ op'[g] = op[g] /\ on'[g] = on[g]
      /\ on[h] \in Bookings /\ op[h] = "pay"
      /\ pc'[h] \in {"idle", "release"} \cup PayLabels /\ op'[h] = "pay"
  <2>1. on[h] \in Bookings /\ op[h] = "pay"
    BY PayMoves DEF LabelMatchesOp, PayLabels
  <2> QED
    BY <2>1, PayMoves
<1>2. pc'[h] = "confirm_tell" => Paid(on[h])' /\ on'[h] = on[h]
  BY DEF Pay, PayCheck, PayBegin, PayInsert, PayCommit, PayGateway, PaySettle, ConfirmFetch,
         ConfirmSave, ConfirmTell, PayDecline, FailFetch, FailSave, MoneyInv,
         RequestMatchesRow, Confirming, Paid
<1>3. pc'[h] = "release" => payment'[on[h]] = "FAILED" /\ on'[h] = on[h]
  BY DEF Pay, PayCheck, PayBegin, PayInsert, PayCommit, PayGateway, PaySettle, ConfirmFetch,
         ConfirmSave, ConfirmTell, PayDecline, FailFetch, FailSave, MoneyInv,
         RequestMatchesRow, Failing
<1>4. LabelMatchesOp'
  BY <1>1 DEF LabelMatchesOp, PayLabels, Refunding
<1>5. RequestKnows'
  BY <1>1, <1>2, <1>3 DEF RequestKnows, Ending, PayLabels, MoneyMovesOn
<1>6. SweepKnows'
  BY <1>1 DEF SweepKnows, MoneyMovesOn
<1>7. EventsTold'
  <2>1. CASE ConfirmTell(h)
    <3>1. Paid(on[h])
      BY <2>1 DEF ConfirmTell, RequestKnows
    <3>2. published' = [published EXCEPT ![on[h]] = published[on[h]] \cup {"booking.confirmed"}]
      BY <2>1 DEF ConfirmTell, Publish
    <3> QED
      BY <1>1, <3>1, <3>2 DEF EventsTold, MoneyMovesOn
  <2>2. CASE published' = published
    BY <2>2 DEF EventsTold, MoneyMovesOn
  <2> QED
    BY <2>1, <2>2
       DEF Pay, PayCheck, PayBegin, PayInsert, PayCommit, PayGateway, PaySettle,
           ConfirmFetch, ConfirmSave, PayDecline, FailFetch, FailSave
<1> QED
  BY <1>4, <1>5, <1>6, <1>7

LEMMA TruthCancelOrRefund ==
    ASSUME TypeOK, TypeOK', MoneyInv, MoneyMovesOn, TruthInv,
           NEW h \in Handlers, CancelOrRefund(h)
    PROVE  TruthInv'
<1> USE DEF TypeOK, TruthInv, Goto, Finish, rows, cron, world
<1>1. /\ UNCHANGED <<batch, expiring>>
      /\ \A g \in Handlers : g # h => pc'[g] = pc[g] /\ op'[g] = op[g] /\ on'[g] = on[g]
      /\ on[h] \in Bookings
      /\ \/ pc'[h] = "idle"
         \/ pc'[h] \in Ending \cup {"refund_gateway", "refund_commit"} /\ op'[h] = op[h] /\ on'[h] = on[h]
      /\ pc'[h] \in {"refund_gateway", "refund_commit"} => op[h] = "refund"
  BY DEF CancelOrRefund, CancelSave, RefundPayment, RefundGateway, RefundCommit,
         AdminCancelSave, ReleaseSeats, Tell, LabelMatchesOp, Refunding, Ending
<1>2. /\ pc'[h] \in Ending /\ op[h] = "pay" => payment[on[h]] = "FAILED"
      /\ pc'[h] \in Ending /\ op[h] = "refund" => GivenBack(on[h])'
      /\ pc'[h] \in Ending /\ op[h] = "adminCancel" => Paid(on[h])
  <2>1. CASE CancelSave(h)
    BY <1>1, <2>1 DEF CancelSave, LabelMatchesOp
  <2>2. CASE AdminCancelSave(h)
    BY <1>1, <2>2 DEF AdminCancelSave, LabelMatchesOp, RequestKnows
  <2>3. CASE ReleaseSeats(h)
    BY <1>1, <2>3 DEF ReleaseSeats, RequestKnows, Ending, MoneyMovesOn
  <2>4. CASE RefundCommit(h)
    BY <1>1, <2>4 DEF RefundCommit, LabelMatchesOp, Refunding, GivenBack, MoneyInv,
                      RequestMatchesRow
  <2>5. CASE RefundPayment(h) \/ RefundGateway(h) \/ Tell(h)
    BY <2>5 DEF RefundPayment, RefundGateway, Tell, Ending
  <2> QED
    BY <2>1, <2>2, <2>3, <2>4, <2>5 DEF CancelOrRefund
<1>3. LabelMatchesOp'
  BY <1>1 DEF LabelMatchesOp, PayLabels, Refunding, Ending
<1>4. RequestKnows'
  BY <1>1, <1>2 DEF RequestKnows, Ending, MoneyMovesOn
<1>5. SweepKnows'
  BY <1>1 DEF SweepKnows, MoneyMovesOn
<1>6. EventsTold'
  <2>1. CASE Tell(h)
    <3>1. published' = [published EXCEPT ![on[h]] = published[on[h]] \cup EventsOf(op[h])]
      BY <2>1 DEF Tell, Publish
    <3>2. /\ op[h] = "pay" => payment[on[h]] = "FAILED"
          /\ op[h] = "refund" => GivenBack(on[h])
          /\ op[h] = "adminCancel" => Paid(on[h])
      BY <2>1 DEF Tell, RequestKnows, Ending
    <3>3. /\ EventsOf(op[h]) \subseteq {"booking.cancelled", "payment.failed",
                                        "booking.refunded", "booking.cancelled_no_refund"}
          /\ "payment.failed" \in EventsOf(op[h]) => op[h] = "pay"
          /\ "booking.refunded" \in EventsOf(op[h]) => op[h] = "refund"
          /\ "booking.cancelled_no_refund" \in EventsOf(op[h]) => op[h] = "adminCancel"
      BY DEF EventsOf, Ops
    <3>4. ASSUME NEW b \in Bookings, NEW e \in published'[b]
          PROVE  e \in published[b] \/ (b = on[h] /\ e \in EventsOf(op[h]))
      <4>1. published'[b] = IF b = on[h] THEN published[b] \cup EventsOf(op[h]) ELSE published[b]
        BY <1>1, <3>1
      <4> HIDE DEF TypeOK
      <4> QED
        BY <3>4, <4>1
    <3>5. ASSUME NEW b \in Bookings PROVE
            /\ "booking.confirmed" \in published'[b] => Paid(b)
            /\ "payment.failed" \in published'[b] => payment[b] = "FAILED"
            /\ "booking.refunded" \in published'[b] => GivenBack(b)
            /\ "booking.cancelled_no_refund" \in published'[b] => Paid(b)
            /\ "booking.expired" \in published'[b] => aged[b]
      <4> HIDE DEF TypeOK
      <4> QED
        BY <3>2, <3>3, <3>4 DEF EventsTold
    <3> QED
      BY <3>5 DEF EventsTold, MoneyMovesOn
  <2>2. CASE published' = published
    BY <2>2 DEF EventsTold, MoneyMovesOn
  <2> QED
    BY <2>1, <2>2 DEF CancelOrRefund, CancelSave, RefundPayment, RefundGateway, RefundCommit,
                      AdminCancelSave, ReleaseSeats
<1> QED
  BY <1>3, <1>4, <1>5, <1>6

(* The sweep lists aged bookings only, and announces what it listed. *)
LEMMA TruthSweep ==
    ASSUME TypeOK, TypeOK', MoneyMovesOn, TruthInv, NEW s \in Sweeps, Sweep(s)
    PROVE  TruthInv'
<1> USE DEF TypeOK, TruthInv, rows, requests, world
<1>1. UNCHANGED <<op, pc, on>>
  BY DEF Sweep, SweepList, SweepExpire, SweepTell
<1>2. LabelMatchesOp' /\ RequestKnows'
  BY <1>1 DEF LabelMatchesOp, RequestKnows, MoneyMovesOn, Ending, PayLabels, Refunding
<1>3. SweepKnows'
  BY DEF Sweep, SweepList, SweepExpire, SweepTell, Expired, SweepKnows, MoneyMovesOn
<1>4. EventsTold'
  <2>1. CASE SweepTell(s)
    <3>1. aged[expiring[s]] /\ expiring[s] \in Bookings
      BY <2>1 DEF SweepTell, SweepKnows
    <3>2. published' =
            [published EXCEPT ![expiring[s]] = published[expiring[s]] \cup {"booking.expired"}]
      BY <2>1 DEF SweepTell, Publish
    <3> QED
      BY <3>1, <3>2 DEF EventsTold, MoneyMovesOn
  <2>2. CASE published' = published
    BY <2>2 DEF EventsTold, MoneyMovesOn
  <2> QED
    BY <2>1, <2>2 DEF Sweep, SweepList, SweepExpire
<1> QED
  BY <1>2, <1>3, <1>4

LEMMA TruthFaults ==
    ASSUME TypeOK, TypeOK', MoneyMovesOn, TruthInv,
           \/ \E b \in Bookings : Age(b)
           \/ \E h \in Handlers : Throw(h)
           \/ \E s \in Sweeps : SweepThrow(s)
           \/ Crash
           \/ UNCHANGED vars
    PROVE  TruthInv'
<1> USE DEF TypeOK, TruthInv, Finish, rows, requests, cron, world, vars
<1>1. /\ published' = published
      /\ \A h \in Handlers :
           \/ pc'[h] = pc[h] /\ op'[h] = op[h] /\ on'[h] = on[h]
           \/ pc'[h] = "idle"
      /\ \A s \in Sweeps :
           batch'[s] \subseteq batch[s] /\ expiring'[s] \in {expiring[s], None}
  BY DEF Age, Throw, SweepThrow, Crash
<1>2. LabelMatchesOp'
  BY <1>1 DEF LabelMatchesOp, PayLabels, Refunding
<1>3. RequestKnows'
  BY <1>1 DEF RequestKnows, Ending, MoneyMovesOn
<1>4. SweepKnows'
  BY <1>1 DEF SweepKnows, MoneyMovesOn
<1>5. EventsTold'
  BY <1>1 DEF EventsTold, MoneyMovesOn
<1> QED
  BY <1>2, <1>3, <1>4, <1>5

LEMMA TruthStep ==
    TypeOK /\ TypeOK' /\ MoneyInv /\ TruthInv /\ [Next]_vars => TruthInv'
<1> SUFFICES ASSUME TypeOK, TypeOK', MoneyInv, TruthInv, [Next]_vars PROVE TruthInv'
  OBVIOUS
<1>1. MoneyMovesOn
  BY MovesOn
<1>2. CASE \E h \in Handlers : Arrive(h) BY <1>1, <1>2, TruthArrive
<1>3. CASE \E h \in Handlers : Step(h)
  BY <1>1, <1>3, TruthPay, TruthCancelOrRefund DEF Step
<1>4. CASE \E s \in Sweeps : Sweep(s) BY <1>1, <1>4, TruthSweep
<1> QED
  BY <1>1, <1>2, <1>3, <1>4, TruthFaults DEF Next

(* What an event told the customer is true when it is told and stays true. *)
THEOREM EventsStayTrue == Spec => []EventsAreTrue
<1>1. MoneyInv /\ TruthInv => EventsAreTrue
  BY DEF MoneyInv, RowMatchesGateway, TruthInv, EventsTold, Paid, GivenBack, EventsAreTrue
<1>2. TypeOK /\ MoneyInv /\ TruthInv /\ [Next]_vars => TruthInv'
  BY TypeStep, TruthStep
<1> QED
  BY <1>1, <1>2, TruthInit, MoneyCorrect, PTL DEF Spec

-------------------------------------------------------------------------------
(* Every step of the code is one of PurchaseContract's steps or none. *)
Confirmed == {b \in Bookings : status[b] = "CONFIRMED"}

LEMMA ContractInit == Init => Contract!Init
BY DEF Init, Contract!Init

(* One contract action of one booking is a step of the contract. *)
LEMMA ContractIntro ==
    ASSUME NEW b \in Bookings,
           \/ Contract!Open(b) \/ Contract!Charge(b) \/ Contract!Settle(b)
           \/ Contract!Decline(b) \/ Contract!Confirm(b) \/ Contract!Withdraw(b)
           \/ Contract!Refund(b) \/ Contract!RecordRefund(b)
    PROVE  [Contract!Next]_(Contract!contractVars)
<1>1. Contract!Next
  BY Zenon DEF Contract!Next
<1> QED
  BY Zenon, <1>1

(* A step that leaves the money alone and confirms nothing withdraws the    *)
(* confirmation of at most one booking.                                     *)
LEMMA ContractHarmless ==
    ASSUME TypeOK, UNCHANGED <<payment, charges, refunds>>,
           NEW b \in Bookings,
           status' = status
             \/ \E v \in Statuses \ {"CONFIRMED"} : status' = [status EXCEPT ![b] = v]
    PROVE  [Contract!Next]_(Contract!contractVars)
<1>1. Confirmed' = Confirmed \/ Confirmed' = Confirmed \ {b}
  BY DEF TypeOK, Confirmed
<1>2. CASE Confirmed' = Confirmed
  BY <1>2 DEF Confirmed, Contract!contractVars
<1>3. CASE Confirmed' = Confirmed \ {b}
  <2>1. Contract!Withdraw(b)
    BY <1>3 DEF Confirmed, Contract!Withdraw
  <2> QED
    BY <2>1, ContractIntro
<1> QED
  BY <1>1, <1>2, <1>3

LEMMA ContractStutter ==
    ASSUME UNCHANGED <<payment, charges, refunds, status>>
    PROVE  [Contract!Next]_(Contract!contractVars)
BY DEF Contract!contractVars

LEMMA ContractPay ==
    ASSUME TypeOK, MoneyInv, NEW h \in Handlers, Pay(h)
    PROVE  [Contract!Next]_(Contract!contractVars)
<1> USE DEF Goto
<1>1. pc[h] # "idle" => on[h] \in Bookings
  BY DEF TypeOK
<1>2. CASE PayCheck(h) \/ PayBegin(h) \/ ConfirmFetch(h) \/ ConfirmTell(h) \/ FailFetch(h)
  BY <1>2, ContractStutter
     DEF PayCheck, PayBegin, ConfirmFetch, ConfirmTell, FailFetch, Fetch, rows, world
<1>3. CASE PayInsert(h)
  <2>1. CASE payment[on[h]] # "NONE"
    BY <1>3, <2>1, ContractStutter DEF PayInsert, world
  <2>2. CASE payment[on[h]] = "NONE"
    <3>1. on[h] \in Bookings /\ charges[on[h]] = 0
      BY <1>1, <1>3, <2>2 DEF PayInsert, MoneyInv, RowMatchesGateway
    <3>2. Contract!Open(on[h])
      BY <1>3, <2>2, <3>1 DEF PayInsert, world, Contract!Open
    <3> QED
      BY <3>1, <3>2, ContractIntro
  <2> QED
    BY <2>1, <2>2
<1>4. CASE PayCommit(h)
  BY <1>1, <1>4, ContractHarmless DEF PayCommit, world, Statuses
<1>5. CASE PayGateway(h)
  <2>1. on[h] \in Bookings /\ payment[on[h]] = "PENDING" /\ charges[on[h]] = 0
    BY <1>1, <1>5 DEF PayGateway, MoneyInv, RequestMatchesRow, Undecided
  <2>2. /\ UNCHANGED <<payment, refunds, status>>
        /\ \/ charges' = [charges EXCEPT ![on[h]] = charges[on[h]] + 1]
           \/ charges' = charges
    BY <1>5 DEF PayGateway, rows
  <2>3. CASE charges' = charges
    BY <2>2, <2>3, ContractStutter
  <2>4. CASE charges' = [charges EXCEPT ![on[h]] = charges[on[h]] + 1]
    <3>1. Contract!Charge(on[h])
      BY <2>1, <2>2, <2>4 DEF Contract!Charge
    <3> QED
      BY <2>1, <3>1, ContractIntro
  <2> QED
    BY <2>2, <2>3, <2>4
<1>6. CASE PaySettle(h)
  <2>1. on[h] \in Bookings /\ payment[on[h]] = "PENDING" /\ charges[on[h]] = 1
    BY <1>1, <1>6 DEF PaySettle, MoneyInv, RequestMatchesRow
  <2>2. Contract!Settle(on[h])
    BY <1>6, <2>1 DEF PaySettle, world, Contract!Settle
  <2> QED
    BY <2>1, <2>2, ContractIntro
<1>7. CASE PayDecline(h)
  <2>1. on[h] \in Bookings /\ payment[on[h]] = "PENDING" /\ charges[on[h]] = 0
    BY <1>1, <1>7 DEF PayDecline, MoneyInv, RequestMatchesRow, Undecided
  <2>2. Contract!Decline(on[h])
    BY <1>7, <2>1 DEF PayDecline, world, Contract!Decline
  <2> QED
    BY <2>1, <2>2, ContractIntro
<1>8. CASE ConfirmSave(h)
  <2>1. /\ on[h] \in Bookings /\ payment[on[h]] = "SUCCESS"
        /\ UNCHANGED <<payment, charges, refunds>>
        /\ status' = status \/ status' = [status EXCEPT ![on[h]] = "CONFIRMED"]
    BY <1>1, <1>8 DEF ConfirmSave, Save, world, MoneyInv, RequestMatchesRow, Confirming
  <2>2. CASE status' = status
    BY <2>1, <2>2, ContractStutter
  <2>3. CASE status' = [status EXCEPT ![on[h]] = "CONFIRMED"]
    <3>1. PICK b \in Bookings : b = on[h]
      BY <2>1
    <3>2. Confirmed' = Confirmed \cup {b}
      BY <2>1, <2>3, <3>1 DEF Confirmed, TypeOK
    <3>3. Contract!Confirm(b)
      BY <2>1, <3>1, <3>2 DEF Confirmed, Contract!Confirm
    <3> QED
      BY <3>3, ContractIntro
  <2> QED
    BY <2>1, <2>2, <2>3
<1>9. CASE FailSave(h)
  BY <1>1, <1>9, ContractHarmless DEF FailSave, Save, world, Statuses
<1> QED
  BY <1>2, <1>3, <1>4, <1>5, <1>6, <1>7, <1>8, <1>9 DEF Pay

LEMMA ContractCancelOrRefund ==
    ASSUME TypeOK, MoneyInv, NEW h \in Handlers, CancelOrRefund(h)
    PROVE  [Contract!Next]_(Contract!contractVars)
<1> USE DEF Goto
<1>1. pc[h] # "idle" => on[h] \in Bookings
  BY DEF TypeOK
<1>2. CASE RefundPayment(h) \/ ReleaseSeats(h) \/ Tell(h)
  BY <1>2, ContractStutter DEF RefundPayment, ReleaseSeats, Tell, rows, world
<1>3. CASE CancelSave(h) \/ AdminCancelSave(h)
  BY <1>1, <1>3, ContractHarmless DEF CancelSave, AdminCancelSave, world, Statuses
<1>4. CASE RefundGateway(h)
  <2>1. on[h] \in Bookings /\ payment[on[h]] \in {"SUCCESS", "REFUNDED"}
    BY <1>1, <1>4 DEF RefundGateway, MoneyInv, RequestMatchesRow, Refunding
  <2>2. Contract!Refund(on[h])
    BY <1>4, <2>1 DEF RefundGateway, rows, Contract!Refund
  <2> QED
    BY <2>1, <2>2, ContractIntro
<1>5. CASE RefundCommit(h)
  <2>1. /\ on[h] \in Bookings /\ payment[on[h]] \in {"SUCCESS", "REFUNDED"}
        /\ refunds[on[h]] > 0
    BY <1>1, <1>5 DEF RefundCommit, MoneyInv, RequestMatchesRow, Refunding
  <2>2. PICK b \in Bookings : b = on[h]
    BY <2>1
  <2>3. Confirmed' = Confirmed \ {b}
    BY <1>5, <2>2 DEF RefundCommit, Confirmed, TypeOK
  <2>4. Contract!RecordRefund(b)
    BY <1>5, <2>1, <2>2, <2>3 DEF RefundCommit, world, Confirmed, Contract!RecordRefund
  <2> QED
    BY <2>4, ContractIntro
<1> QED
  BY <1>2, <1>3, <1>4, <1>5 DEF CancelOrRefund

LEMMA ContractStep ==
    TypeOK /\ MoneyInv /\ [Next]_vars => [Contract!Next]_(Contract!contractVars)
<1> SUFFICES ASSUME TypeOK, MoneyInv, [Next]_vars
             PROVE  [Contract!Next]_(Contract!contractVars)
  OBVIOUS
<1>1. CASE \E h \in Handlers : Arrive(h)
  BY <1>1, ContractStutter
     DEF Arrive, PayLoad, CancelLoad, RefundLoad, AdminCancelLoad, Begin, rows, world
<1>2. CASE \E h \in Handlers : Step(h)
  BY <1>2, ContractPay, ContractCancelOrRefund DEF Step
<1>3. CASE \E s \in Sweeps : SweepExpire(s)
  <2>1. PICK b \in Bookings : status' = [status EXCEPT ![b] = "EXPIRED"]
    BY <1>3 DEF SweepExpire, TypeOK
  <2> QED
    BY <1>3, <2>1, ContractHarmless DEF SweepExpire, world, Statuses
<1>4. CASE \/ \E s \in Sweeps : SweepList(s) \/ SweepTell(s) \/ SweepThrow(s)
           \/ \E b \in Bookings : Age(b)
           \/ \E h \in Handlers : Throw(h)
           \/ Crash
           \/ UNCHANGED vars
  BY <1>4, ContractStutter
     DEF SweepList, SweepTell, SweepThrow, Age, Throw, Crash, vars, rows, world
<1> QED
  BY <1>1, <1>2, <1>3, <1>4 DEF Next, Sweep

(* The code implements the contract about money: one charge before SUCCESS, *)
(* FAILED only uncharged, CONFIRMED only paid, REFUNDED only refunded and   *)
(* in the same step as the cancellation.                                    *)
THEOREM ImplementsContract == Spec => KeepsContract
<1> QED
  BY ContractInit, ContractStep, MoneyCorrect, PTL DEF Spec, KeepsContract, Contract!Spec
===============================================================================
