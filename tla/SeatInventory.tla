----------------------------- MODULE SeatInventory -----------------------------
(***************************************************************************)
(* The seat counter of the flight search service: flights.totalSeatsLeft   *)
(* under concurrent PATCH /internal/flights/:id/seats calls.  A decrement  *)
(* is one conditional UPDATE.  An increment reads the row, compares with   *)
(* the airplane's capacity and writes an absolute value: the repository    *)
(* drops the transaction and the row lock the service passes to it, so     *)
(* other writes can fall in between.                                       *)
(*                                                                         *)
(* A client is one booking: it takes its Party[k] seats of a flight with   *)
(* at most one decrement call, and several requests of the booking service *)
(* may give them back, each with an increment call of its own: the flight  *)
(* service does not know who took the seats nor that they are back.        *)
(***************************************************************************)
EXTENDS Integers, FiniteSets

CONSTANTS
    Flights,
    Clients,
    Requests,   \* the requests that may give a booking's seats back
    Party,      \* Party[k]: seats client k asks for, 1 to 10 in the code
    Capacity,   \* Capacity[f]: seats of the airplane
    Offered     \* Offered[f]: seats the flight was created with

ASSUME PartyAssumption == Party \in [Clients -> Nat \ {0}]
ASSUME CapacityAssumption ==
    /\ Capacity \in [Flights -> Nat]
    /\ Offered \in [Flights -> Nat]
    /\ \A f \in Flights : Offered[f] <= Capacity[f]

VARIABLES
    seats,  \* seats[f]: the row's totalSeatsLeft
    take,   \* take[<<k, f>>]: k's decrement call on f
    give,   \* give[<<k, f, r>>]: the increment call on f for k by request r
    seen,   \* seen[<<k, f, r>>]: the value that increment read
    held,   \* held[f]: seats granted minus seats given back, by the answers (history)
    regiven,\* regiven[f]: those given back for a booking that had done so (history)
    stale   \* stale[f]: an increment overwrote a value it had not read (history)

seatVars == <<seats, take, give, seen, held, regiven, stale>>

Calls == Clients \X Flights
Gives == Clients \X Flights \X Requests
TakeStates == {"none", "sent", "done", "refused", "lost"}
GiveStates == {"none", "sent", "read", "done", "refused", "lost"}

SeatInit ==
    /\ seats = Offered
    /\ take = [c \in Calls |-> "none"]
    /\ give = [c \in Gives |-> "none"]
    /\ seen = [c \in Gives |-> 0]
    /\ held = [f \in Flights |-> 0]
    /\ regiven = [f \in Flights |-> 0]
    /\ stale = [f \in Flights |-> FALSE]

(* The booking service sends a decrement, or increments for several flights. *)
SendTake(k, f) ==
    /\ take[<<k, f>>] = "none"
    /\ take' = [take EXCEPT ![<<k, f>>] = "sent"]
    /\ UNCHANGED <<seats, give, seen, held, regiven, stale>>

SendGive(k, F, r) ==
    /\ \A f \in F : give[<<k, f, r>>] = "none"
    /\ give' = [c \in Gives |-> IF c[1] = k /\ c[2] \in F /\ c[3] = r
                                 THEN "sent" ELSE give[c]]
    /\ UNCHANGED <<seats, take, seen, held, regiven, stale>>

(* Mutant: the availability condition of the UPDATE is off by one. *)
Decrement_OffByOne(k, f) ==
    /\ take[<<k, f>>] = "sent"
    /\ seats[f] >= Party[k] - 1
    /\ seats' = [seats EXCEPT ![f] = @ - Party[k]]
    /\ held' = [held EXCEPT ![f] = @ + Party[k]]
    /\ take' = [take EXCEPT ![<<k, f>>] = "done"]
    /\ UNCHANGED <<give, seen, regiven, stale>>

(* UPDATE ... SET totalSeatsLeft = totalSeatsLeft - n WHERE totalSeatsLeft >= n; *)
(* no row affected is answered with 400.                                         *)
Decrement(k, f) ==
    /\ take[<<k, f>>] = "sent"
    /\ \/ /\ seats[f] >= Party[k]
          /\ seats' = [seats EXCEPT ![f] = @ - Party[k]]
          /\ held' = [held EXCEPT ![f] = @ + Party[k]]
          /\ take' = [take EXCEPT ![<<k, f>>] = "done"]
       \/ /\ seats[f] < Party[k]
          /\ take' = [take EXCEPT ![<<k, f>>] = "refused"]
          /\ UNCHANGED <<seats, held>>
    /\ UNCHANGED <<give, seen, regiven, stale>>

IncrementRead(k, f, r) ==
    /\ give[<<k, f, r>>] = "sent"
    /\ seen' = [seen EXCEPT ![<<k, f, r>>] = seats[f]]
    /\ give' = [give EXCEPT ![<<k, f, r>>] = "read"]
    /\ UNCHANGED <<seats, take, held, regiven, stale>>

Given(k, f) == \E r \in Requests : give[<<k, f, r>>] = "done"

(* Mutant: the increment adds its seats twice (a retried UPDATE). *)
IncrementWrite_Twice(k, f, r) ==
    /\ give[<<k, f, r>>] = "read"
    /\ seats' = [seats EXCEPT ![f] = seen[<<k, f, r>>] + 2 * Party[k]]
    /\ give' = [give EXCEPT ![<<k, f, r>>] = "done"]
    /\ held' = [held EXCEPT ![f] = @ - Party[k]]
    /\ stale' = [stale EXCEPT ![f] = @ \/ seats[f] # seen[<<k, f, r>>]]
    /\ UNCHANGED <<take, seen, regiven>>

(* The capacity check and the absolute UPDATE use the value read before. *)
IncrementWrite(k, f, r) ==
    LET total == seen[<<k, f, r>>] + Party[k]
    IN  /\ give[<<k, f, r>>] = "read"
        /\ \/ /\ total > Capacity[f]
              /\ give' = [give EXCEPT ![<<k, f, r>>] = "refused"]
              /\ UNCHANGED <<seats, held, regiven, stale>>
           \/ /\ total <= Capacity[f]
              /\ seats' = [seats EXCEPT ![f] = total]
              /\ give' = [give EXCEPT ![<<k, f, r>>] = "done"]
              /\ held' = [held EXCEPT ![f] = @ - Party[k]]
              /\ regiven' = [regiven EXCEPT ![f] = IF Given(k, f) THEN @ + Party[k] ELSE @]
              /\ stale' = [stale EXCEPT ![f] = @ \/ seats[f] # seen[<<k, f, r>>]]
        /\ UNCHANGED <<take, seen>>

(* A call never arrives, or the flight service dies before it writes. *)
Drop(k, f) ==
    /\ \/ /\ take[<<k, f>>] = "sent"
          /\ take' = [take EXCEPT ![<<k, f>>] = "lost"]
          /\ UNCHANGED give
       \/ \E r \in Requests :
              /\ give[<<k, f, r>>] \in {"sent", "read"}
              /\ give' = [give EXCEPT ![<<k, f, r>>] = "lost"]
              /\ UNCHANGED take
    /\ UNCHANGED <<seats, seen, held, regiven, stale>>

Serve(k, f) ==
    Decrement(k, f) \/ \E r \in Requests : IncrementRead(k, f, r) \/ IncrementWrite(k, f, r)

SeatNext ==
    \E k \in Clients :
        \/ \E f \in Flights : SendTake(k, f) \/ Serve(k, f) \/ Drop(k, f)
        \/ \E F \in SUBSET Flights, r \in Requests : SendGive(k, F, r)

SeatSpec == SeatInit /\ [][SeatNext]_seatVars

-------------------------------------------------------------------------------
SeatTypeOK ==
    /\ seats \in [Flights -> Nat]
    /\ take \in [Calls -> TakeStates]
    /\ give \in [Gives -> GiveStates]
    /\ seen \in [Gives -> Nat]
    /\ held \in [Flights -> Int]
    /\ regiven \in [Flights -> Nat]
    /\ stale \in [Flights -> BOOLEAN]

(* Whatever calls overlap, a flight never shows a negative number of seats  *)
(* nor more than its airplane has: the decrement is conditional, and an     *)
(* increment checks the value it will write.                                *)
SeatsInRange == \A f \in Flights : 0 <= seats[f] /\ seats[f] <= Capacity[f]

(* The row and the answers agree (seats left plus seats granted are the     *)
(* seats offered) as long as no increment overwrote somebody's write.       *)
LedgerExact == \A f \in Flights : ~stale[f] => seats[f] + held[f] = Offered[f]
===============================================================================
