------------------------------ MODULE BookingSaga ------------------------------
(***************************************************************************)
(* Creating a one-way or a round-trip booking across the two services, and *)
(* giving the seats back, as bookingService.createBooking and              *)
(* createBookingRound do it over the flight service of SeatInventory.      *)
(* Each client is one request and then the booking it made.  A call can    *)
(* be lost, and the client can give up on one that is still being served   *)
(* (axios timeout of 5 s) or die.                                          *)
(*                                                                         *)
(* Several requests may end one booking: the user's cancel, a refund, the  *)
(* administrator's cancel, a payment that fails.  Each checks the status   *)
(* on a row it loaded itself, saves CANCELLED whatever the row says by     *)
(* then, and gives the seats back with calls of its own.  Which of them    *)
(* pass their check when is BookingPayment's matter; here any request      *)
(* passes it while the booking stands.                                     *)
(* Requests refused on data that does not change (passenger count, airport *)
(* pair, layover) end before they touch anything and are left out.         *)
(***************************************************************************)
EXTENDS SeatInventory

CONSTANTS
    Outbound,   \* Outbound[k]: k's outbound flight
    Return,     \* Return[k]: k's return flight, NoFlight for a one-way trip
    NoFlight,
    Creation,   \* the request that made the booking
    Later,      \* Later[k]: the requests that may come to end k's booking
    MaxFaults   \* bound on lost calls, timeouts, failed transactions and deaths

ASSUME TripAssumption ==
    /\ NoFlight \notin Flights
    /\ Outbound \in [Clients -> Flights]
    /\ Return \in [Clients -> Flights \cup {NoFlight}]
    /\ \A k \in Clients : Return[k] # Outbound[k]
ASSUME RequestAssumption ==
    /\ Creation \in Requests
    /\ Later \in [Clients -> SUBSET (Requests \ {Creation})]
ASSUME SagaFaultAssumption == MaxFaults \in Nat

MaxParty == 10  \* noOfSeats of a request
ASSUME SagaClientAssumption ==
    IsFiniteSet(Clients) /\ \A k \in Clients : Party[k] <= MaxParty

VARIABLES
    pc,         \* pc[k]: where the creating request, and then the booking, is
    looked,     \* looked[k]: flights whose availability k has checked
    later,      \* later[<<k, r>>]: where a request to end k's booking is
    faults

vars == <<seatVars, pc, looked, later, faults>>

Waiting == {"lookup", "wait_out", "wait_return", "create", "undo"}
(* "revived": saved as CONFIRMED after it was cancelled *)
Resting == {"failed", "booked", "cancelled", "revived"}

LaterCalls == Clients \X Requests
Ending == {"checked", "saved", "release"}
LaterStates == {"none", "over"} \cup Ending

Legs(k) == {Outbound[k], Return[k]} \ {NoFlight}

Init ==
    /\ SeatInit
    /\ pc = [k \in Clients |-> "lookup"]
    /\ looked = [k \in Clients |-> {}]
    /\ later = [c \in LaterCalls |-> "none"]
    /\ faults = 0

Goto(k, l, m) ==
    /\ pc[k] = l
    /\ pc' = [pc EXCEPT ![k] = m]
    /\ UNCHANGED <<looked, later>>

Go(k, r, l, m) ==
    /\ later[<<k, r>>] = l
    /\ later' = [later EXCEPT ![<<k, r>>] = m]
    /\ UNCHANGED looked

Fault ==
    /\ faults < MaxFaults
    /\ faults' = faults + 1

-------------------------------------------------------------------------------
(* Creation *)

(* GET /flights/:id for each leg (in parallel), and the check on its answer. *)
LookUp(k, f) ==
    /\ pc[k] = "lookup" /\ f \in Legs(k) \ looked[k]
    /\ IF seats[f] >= Party[k]
       THEN looked' = [looked EXCEPT ![k] = @ \cup {f}] /\ UNCHANGED <<pc, later>>
       ELSE Goto(k, "lookup", "failed")
    /\ UNCHANGED <<seatVars, faults>>

ReserveOut(k) ==
    /\ Goto(k, "lookup", "wait_out")
    /\ looked[k] = Legs(k)
    /\ SendTake(k, Outbound[k])
    /\ UNCHANGED faults

(* Mutant: a call without a time limit: a lost one is never given up. *)
OutAnswered_NoLimit(k) ==
    /\ take[<<k, Outbound[k]>>] # "lost"
    /\ \/ /\ take[<<k, Outbound[k]>>] = "done" /\ Return[k] # NoFlight
          /\ Goto(k, "wait_out", "wait_return")
          /\ SendTake(k, Return[k])
       \/ /\ take[<<k, Outbound[k]>>] = "done" /\ Return[k] = NoFlight
          /\ Goto(k, "wait_out", "create")
          /\ UNCHANGED seatVars
       \/ /\ take[<<k, Outbound[k]>>] = "refused"
          /\ Goto(k, "wait_out", "failed")
          /\ UNCHANGED seatVars
    /\ UNCHANGED faults

(* The outbound decrement is not in a try block: a refusal just ends the request. *)
OutAnswered(k) ==
    /\ \/ /\ take[<<k, Outbound[k]>>] = "done" /\ Return[k] # NoFlight
          /\ Goto(k, "wait_out", "wait_return")
          /\ SendTake(k, Return[k])
       \/ /\ take[<<k, Outbound[k]>>] = "done" /\ Return[k] = NoFlight
          /\ Goto(k, "wait_out", "create")
          /\ UNCHANGED seatVars
       \/ /\ take[<<k, Outbound[k]>>] \in {"refused", "lost"}
          /\ Goto(k, "wait_out", "failed")
          /\ UNCHANGED seatVars
    /\ UNCHANGED faults

(* Mutant: no compensation when the return leg is refused. *)
ReturnAnswered_NoUndo(k) ==
    /\ \/ Goto(k, "wait_return", "create") /\ take[<<k, Return[k]>>] = "done"
       \/ /\ Goto(k, "wait_return", "failed")
          /\ take[<<k, Return[k]>>] \in {"refused", "lost"}
    /\ UNCHANGED <<seatVars, faults>>

ReturnAnswered(k) ==
    /\ \/ /\ Goto(k, "wait_return", "create")
          /\ take[<<k, Return[k]>>] = "done"
          /\ UNCHANGED seatVars
       \/ /\ Goto(k, "wait_return", "undo")
          /\ take[<<k, Return[k]>>] \in {"refused", "lost"}
          /\ SendGive(k, {Outbound[k]}, Creation)
    /\ UNCHANGED faults

(* Mutant: a timed-out return leg is taken for a success. *)
ReturnTimeout_Ignored(k) ==
    /\ Fault
    /\ Goto(k, "wait_return", "create")
    /\ take[<<k, Return[k]>>] \in {"sent", "done"}
    /\ UNCHANGED seatVars

(* The answer does not come in time: 503, whether or not the flight service *)
(* has taken the seats or will take them.                                   *)
OutTimeout(k) ==
    /\ Fault
    /\ take[<<k, Outbound[k]>>] \in {"sent", "done"}
    /\ Goto(k, "wait_out", "failed")
    /\ UNCHANGED seatVars

ReturnTimeout(k) ==
    /\ Fault
    /\ Goto(k, "wait_return", "undo")
    /\ take[<<k, Return[k]>>] \in {"sent", "done"}
    /\ SendGive(k, {Outbound[k]}, Creation)

Create(k) ==
    /\ Goto(k, "create", "booked")
    /\ UNCHANGED <<seatVars, faults>>

(* Mutant: booking and passengers are not one transaction: the booking stays. *)
CreateFails_NoRollback(k) ==
    /\ Fault
    /\ Goto(k, "create", "booked")
    /\ SendGive(k, Legs(k), Creation)

(* The transaction of booking and passengers rolls back: all legs go back. *)
CreateFails(k) ==
    /\ Fault
    /\ Goto(k, "create", "undo")
    /\ SendGive(k, Legs(k), Creation)

Answered(k, r) ==
    \A f \in Flights : give[<<k, f, r>>] \in {"none", "done", "refused", "lost"}

(* incrementSeats never throws: answered, refused and lost are all the same. *)
Undone(k) ==
    /\ Answered(k, Creation)
    /\ Goto(k, "undo", "failed")
    /\ UNCHANGED <<seatVars, faults>>

UndoTimeout(k) ==
    /\ Fault
    /\ ~Answered(k, Creation)
    /\ Goto(k, "undo", "failed")
    /\ UNCHANGED seatVars

-------------------------------------------------------------------------------
(* Ending a booking *)

(* A request loads the booking and finds it in a status it may end. *)
Check(k, r) ==
    /\ r \in Later[k] /\ pc[k] \in {"booked", "revived"}
    /\ Go(k, r, "none", "checked")
    /\ UNCHANGED <<seatVars, pc, faults>>

(* It ends without a save: the gateway refuses the refund. *)
Leave(k, r) ==
    /\ Go(k, r, "checked", "over")
    /\ UNCHANGED <<seatVars, pc, faults>>

(* A payment that checked the booking before it was cancelled confirms it. *)
Confirm(k, r) ==
    /\ Go(k, r, "checked", "over")
    /\ pc[k] = "cancelled"
    /\ pc' = [pc EXCEPT ![k] = "revived"]
    /\ UNCHANGED <<seatVars, faults>>

(* The row is saved as CANCELLED first, whatever it has become ... *)
Cancel(k, r) ==
    /\ Go(k, r, "checked", "saved")
    /\ pc' = [pc EXCEPT ![k] = "cancelled"]
    /\ UNCHANGED <<seatVars, faults>>

(* ... then the seats of all legs are released in parallel. *)
Release(k, r) ==
    /\ Go(k, r, "saved", "release")
    /\ SendGive(k, Legs(k), r)
    /\ UNCHANGED <<pc, faults>>

Released(k, r) ==
    /\ Answered(k, r)
    /\ Go(k, r, "release", "over")
    /\ UNCHANGED <<seatVars, pc, faults>>

ReleaseTimeout(k, r) ==
    /\ Fault
    /\ ~Answered(k, r)
    /\ Go(k, r, "release", "over")
    /\ UNCHANGED <<seatVars, pc>>

-------------------------------------------------------------------------------
(* Failures *)

LoseCall(k, f) ==
    /\ Fault
    /\ Drop(k, f)
    /\ UNCHANGED <<pc, looked, later>>

(* The booking service dies: nobody goes on with the request. *)
Die(k) ==
    /\ Fault
    /\ \/ (\E l \in Waiting : Goto(k, l, "failed"))
       \/ (\E r \in Later[k], l \in Ending : Go(k, r, l, "over")) /\ UNCHANGED pc
    /\ UNCHANGED seatVars

-------------------------------------------------------------------------------
Creating(k) ==
    \/ \E f \in Flights : LookUp(k, f)
    \/ ReserveOut(k) \/ OutAnswered(k) \/ ReturnAnswered(k) \/ Create(k) \/ Undone(k)

GoOn(k, r) ==
    Leave(k, r) \/ Confirm(k, r) \/ Cancel(k, r) \/ Release(k, r) \/ Released(k, r)

Failure(k) ==
    \/ OutTimeout(k) \/ ReturnTimeout(k) \/ CreateFails(k) \/ UndoTimeout(k) \/ Die(k)
    \/ \E r \in Later[k] : ReleaseTimeout(k, r)
    \/ \E f \in Flights : LoseCall(k, f)

FlightService(k, f) == Serve(k, f) /\ UNCHANGED <<pc, looked, later, faults>>

Next ==
    \E k \in Clients :
        \/ Creating(k) \/ Failure(k)
        \/ \E r \in Later[k] : Check(k, r) \/ GoOn(k, r)
        \/ \E f \in Flights : FlightService(k, f)

Spec == Init /\ [][Next]_vars

(* A service goes on with something it has begun.  Every request and every  *)
(* call takes finitely many steps, so this is all that has to be assumed.   *)
Fairness ==
    WF_vars(\E k \in Clients :
        \/ Creating(k)
        \/ \E r \in Later[k] : GoOn(k, r)
        \/ \E f \in Flights : FlightService(k, f))

FairSpec == Spec /\ Fairness

-------------------------------------------------------------------------------
TypeOK ==
    /\ SeatTypeOK
    /\ pc \in [Clients -> Waiting \cup Resting]
    /\ looked \in [Clients -> SUBSET Flights]
    /\ later \in [LaterCalls -> LaterStates]
    /\ faults \in 0..MaxFaults

\* Stored and never cancelled.
Live(k) == pc[k] = "booked"

\* The seats of the clients in K, counted one by one.
SeatsOf(K) == Cardinality({s \in K \X (1 .. MaxParty) : s[2] <= Party[s[1]]})
Sold(f) == SeatsOf({k \in Clients : Live(k) /\ f \in Legs(k)})

(* A stored booking that nobody has cancelled owns its seats: every leg was *)
(* granted, and no increment for it was ever sent, whatever was lost, timed *)
(* out or is being checked by requests that may still end it.               *)
LiveOwnsSeats ==
    \A k \in Clients : Live(k) =>
        \A f \in Legs(k) : /\ take[<<k, f>>] = "done"
                           /\ \A r \in Requests : give[<<k, f, r>>] = "none"

(* Unless an increment overwrote a write, a flight is oversold by no more   *)
(* than the seats that overlapping requests gave back a second time.        *)
NoOversellUnlessStale ==
    \A f \in Flights : ~stale[f] => Sold(f) + seats[f] <= Offered[f] + regiven[f]

AtRest ==
    /\ \A k \in Clients : pc[k] \in Resting
    /\ \A c \in LaterCalls : later[c] \notin Ending

(* If nothing failed, live bookings and seats left add up, once all         *)
(* requests have ended, to the seats offered and those given back again: a  *)
(* refused return leg, a failed request and a cancelled booking leave no    *)
(* seat behind.  Only after a second release can an increment be refused    *)
(* (the airplane would have too many seats) that should have been made.     *)
RestoredAtRest ==
    \A f \in Flights :
        AtRest /\ faults = 0 /\ ~stale[f] =>
            \/ Sold(f) + seats[f] = Offered[f] + regiven[f]
            \/ regiven[f] > 0 /\ \E c \in Gives : c[2] = f /\ give[c] = "refused"

(* Every request ends: nothing waits forever for an answer that was lost. *)
RequestsEnd == []<>AtRest

(* README.md:35: "Seat counts are locked on booking creation", and the       *)
(* comment in booking.service.js:30, "Reserve seats (atomic decrement in     *)
(* FlightSearch)": the live bookings of a flight and the seats it still      *)
(* offers never exceed what it was created with.                             *)
NoOversell == \A f \in Flights : Sold(f) + seats[f] <= Offered[f]
===============================================================================
