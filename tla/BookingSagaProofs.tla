--------------------------- MODULE BookingSagaProofs ---------------------------
(***************************************************************************)
(* The seat counter and the saga over it, for any flights, clients, trips, *)
(* party sizes, capacities and bounds.  SeatTypeOK, SeatsInRange and       *)
(* LedgerExact are inductive together: the type invariant says that what   *)
(* an increment read is not negative, which is what its capacity check     *)
(* needs to keep the counter in range.  Every step of the saga is a step   *)
(* of the counter or leaves it alone, so the saga inherits that; a stored  *)
(* booking owns its seats, because at every point of the request it is     *)
(* known which of its calls may have been sent (CallsMatch); and the seats *)
(* granted are those of the clients whose take was done and none of whose  *)
(* gives was, less what was given back a second time (HeldIsGranted), live *)
(* bookings among them.                                                    *)
(***************************************************************************)
EXTENDS BookingSaga, TLAPS, FiniteSetTheorems

-------------------------------------------------------------------------------
(* The seat counter *)

SeatInv == SeatTypeOK /\ SeatsInRange /\ LedgerExact

LEMMA SeatInvInit == SeatInit => SeatInv
  BY PartyAssumption, CapacityAssumption
     DEF SeatInit, SeatInv, SeatTypeOK, SeatsInRange, LedgerExact, TakeStates, GiveStates

(* Calls that are only sent, read or lost leave the counter and its ledger alone. *)
LEMMA SeatInvIdle ==
    ASSUME SeatInv, UNCHANGED <<seats, held, regiven, stale>>,
           take' \in [Calls -> TakeStates], give' \in [Gives -> GiveStates],
           seen' \in [Gives -> Nat]
    PROVE  SeatInv'
  BY DEF SeatInv, SeatTypeOK, SeatsInRange, LedgerExact

LEMMA SeatInvDecrement ==
    ASSUME SeatInv, NEW k \in Clients, NEW f \in Flights, Decrement(k, f)
    PROVE  SeatInv'
<1>1. <<k, f>> \in Calls /\ Party[k] \in Nat /\ Capacity[f] \in Nat
  BY PartyAssumption, CapacityAssumption DEF Calls
<1>2. CASE seats[f] < Party[k]
  BY <1>1, <1>2, SeatInvIdle
     DEF Decrement, SeatInv, SeatTypeOK, TakeStates
<1>3. CASE seats[f] >= Party[k]
  <2>1. /\ seats' = [seats EXCEPT ![f] = @ - Party[k]]
        /\ held' = [held EXCEPT ![f] = @ + Party[k]]
        /\ take' = [take EXCEPT ![<<k, f>>] = "done"]
        /\ UNCHANGED <<give, seen, regiven, stale>>
    BY <1>1, <1>3 DEF Decrement, SeatInv, SeatTypeOK
  <2>2. SeatTypeOK'
    BY <1>1, <1>3, <2>1 DEF SeatInv, SeatTypeOK, TakeStates
  <2>3. SeatsInRange' /\ LedgerExact'
    BY <1>1, <1>3, <2>1, CapacityAssumption
       DEF SeatInv, SeatTypeOK, SeatsInRange, LedgerExact
  <2> QED BY <2>2, <2>3 DEF SeatInv
<1> QED BY <1>1, <1>2, <1>3 DEF SeatInv, SeatTypeOK

LEMMA SeatInvWrite ==
    ASSUME SeatInv, NEW k \in Clients, NEW f \in Flights, NEW r \in Requests,
           IncrementWrite(k, f, r)
    PROVE  SeatInv'
<1> DEFINE total == seen[<<k, f, r>>] + Party[k]
<1>1. /\ <<k, f, r>> \in Gives /\ Party[k] \in Nat /\ Capacity[f] \in Nat
      /\ total \in Nat
  BY PartyAssumption, CapacityAssumption DEF Gives, SeatInv, SeatTypeOK
<1>2. CASE total > Capacity[f]
  BY <1>1, <1>2, SeatInvIdle DEF IncrementWrite, SeatInv, SeatTypeOK, GiveStates
<1>3. CASE total <= Capacity[f]
  <2>1. /\ seats' = [seats EXCEPT ![f] = total]
        /\ give' = [give EXCEPT ![<<k, f, r>>] = "done"]
        /\ held' = [held EXCEPT ![f] = @ - Party[k]]
        /\ regiven' = [regiven EXCEPT ![f] = IF Given(k, f) THEN @ + Party[k] ELSE @]
        /\ stale' = [stale EXCEPT ![f] = @ \/ seats[f] # seen[<<k, f, r>>]]
        /\ UNCHANGED <<take, seen>>
    BY <1>1, <1>3 DEF IncrementWrite
  <2>2. SeatTypeOK'
    BY <1>1, <2>1 DEF SeatInv, SeatTypeOK, GiveStates
  <2>3. SeatsInRange'
    BY <1>1, <1>3, <2>1, CapacityAssumption DEF SeatInv, SeatTypeOK, SeatsInRange
  <2>4. LedgerExact'
    <3>1. SUFFICES ASSUME NEW g \in Flights, ~stale'[g]
                   PROVE  seats'[g] + held'[g] = Offered[g]
      BY DEF LedgerExact
    <3>2. ~stale[g] /\ (g = f => seats[f] = seen[<<k, f, r>>])
      BY <2>1, <3>1 DEF SeatInv, SeatTypeOK
    <3>3. seats[g] + held[g] = Offered[g]
      BY <3>2 DEF SeatInv, LedgerExact
    <3> QED BY <1>1, <2>1, <3>2, <3>3 DEF SeatInv, SeatTypeOK
  <2> QED BY <2>2, <2>3, <2>4 DEF SeatInv
<1> QED BY <1>1, <1>2, <1>3

LEMMA SeatInvStep == SeatInv /\ [SeatNext]_seatVars => SeatInv'
<1> SUFFICES ASSUME SeatInv, [SeatNext]_seatVars PROVE SeatInv'
  OBVIOUS
<1> USE DEF SeatInv, SeatTypeOK
<1>1. CASE UNCHANGED seatVars
  BY <1>1, SeatInvIdle DEF seatVars
<1>2. ASSUME NEW k \in Clients, NEW f \in Flights, SendTake(k, f) PROVE SeatInv'
  BY <1>2, SeatInvIdle DEF SendTake, TakeStates
<1>3. ASSUME NEW k \in Clients, NEW F \in SUBSET Flights, NEW r \in Requests, SendGive(k, F, r)
      PROVE  SeatInv'
  BY <1>3, SeatInvIdle DEF SendGive, GiveStates
<1>4. ASSUME NEW k \in Clients, NEW f \in Flights, Drop(k, f) PROVE SeatInv'
  BY <1>4, SeatInvIdle DEF Drop, TakeStates, GiveStates
<1>5. ASSUME NEW k \in Clients, NEW f \in Flights, NEW r \in Requests, IncrementRead(k, f, r)
      PROVE  SeatInv'
  BY <1>5, SeatInvIdle DEF IncrementRead, GiveStates
<1> QED
  BY <1>1, <1>2, <1>3, <1>4, <1>5, SeatInvDecrement, SeatInvWrite DEF SeatNext, Serve

(* The counter stays between zero and the airplane's capacity, and as long  *)
(* as no increment overwrote somebody's write it agrees with the answers.   *)
THEOREM SeatsSafe == SeatSpec => [](SeatTypeOK /\ SeatsInRange /\ LedgerExact)
<1>1. SeatInv => SeatTypeOK /\ SeatsInRange /\ LedgerExact
  BY DEF SeatInv
<1> QED BY <1>1, SeatInvInit, SeatInvStep, PTL DEF SeatSpec

-------------------------------------------------------------------------------
(* The saga: where a request is, and which calls it has sent *)

Stored == {"booked", "cancelled", "revived"}

NoGive(k) == \A f \in Flights, r \in Requests : give[<<k, f, r>>] = "none"
AllTaken(k) == \A f \in Legs(k) : take[<<k, f>>] = "done"

Match(k) ==
    /\ pc[k] \in {"lookup", "wait_out", "wait_return", "create", "booked"} => NoGive(k)
    /\ pc[k] = "lookup" => \A f \in Flights : take[<<k, f>>] = "none"
    /\ pc[k] = "wait_out" => \A f \in Flights \ {Outbound[k]} : take[<<k, f>>] = "none"
    /\ pc[k] = "wait_return" => Return[k] # NoFlight /\ take[<<k, Outbound[k]>>] = "done"
    /\ pc[k] \in Stored \cup {"create"} => AllTaken(k)
    /\ \A r \in Requests :
         /\ later[<<k, r>>] \in Ending => pc[k] \in Stored
         /\ later[<<k, r>>] \in {"saved", "release"} => pc[k] \in {"cancelled", "revived"}

CallsMatch == \A k \in Clients : Match(k)

SagaInv == SeatInv /\ TypeOK /\ CallsMatch

LEMMA Trips ==
    ASSUME NEW k \in Clients
    PROVE  /\ Outbound[k] \in Flights
           /\ Return[k] \in Flights \cup {NoFlight}
           /\ Return[k] # Outbound[k]
           /\ Legs(k) \subseteq Flights
  BY TripAssumption DEF Legs

-------------------------------------------------------------------------------
(* The saga over the seat counter *)

LEMMA SagaStepIsSeatStep == [Next]_vars => [SeatNext]_seatVars
<1> SUFFICES ASSUME [Next]_vars PROVE [SeatNext]_seatVars
  OBVIOUS
<1>1. CASE UNCHANGED vars
  BY <1>1 DEF vars
<1>2. ASSUME NEW k \in Clients, Creating(k) PROVE [SeatNext]_seatVars
  BY <1>2, Trips, RequestAssumption DEF Creating, LookUp, ReserveOut, OutAnswered, ReturnAnswered,
     Create, Undone, SeatNext
<1>3. ASSUME NEW k \in Clients, Failure(k) PROVE [SeatNext]_seatVars
  BY <1>3, Trips, RequestAssumption DEF Failure, OutTimeout, ReturnTimeout, CreateFails,
     UndoTimeout, ReleaseTimeout, Die, LoseCall, SeatNext
<1>4. ASSUME NEW k \in Clients, NEW r \in Later[k], Check(k, r) \/ GoOn(k, r)
      PROVE  [SeatNext]_seatVars
  BY <1>4, Trips, RequestAssumption
     DEF Check, GoOn, Leave, Confirm, Cancel, Release, Released, SeatNext
<1>5. ASSUME NEW k \in Clients, NEW f \in Flights, FlightService(k, f)
      PROVE  [SeatNext]_seatVars
  BY <1>5 DEF FlightService, SeatNext
<1> QED BY <1>1, <1>2, <1>3, <1>4, <1>5 DEF Next

(* Whatever the booking service does, times out on or forgets, the flight  *)
(* service sees calls of the SeatInventory specification only.             *)
THEOREM SagaImplementsSeats == Spec => SeatSpec
<1>1. Init => SeatInit
  BY DEF Init
<1> QED BY <1>1, SagaStepIsSeatStep, PTL DEF Spec, SeatSpec

-------------------------------------------------------------------------------
(* Stored bookings own their seats *)

LEMMA SagaInit == Init => SagaInv
<1> SUFFICES ASSUME Init PROVE SagaInv
  OBVIOUS
<1>1. SeatInv
  BY SeatInvInit DEF Init
<1>2. TypeOK
  BY <1>1, SagaFaultAssumption DEF Init, TypeOK, SeatInv, Waiting, LaterStates
<1>3. CallsMatch
  BY DEF Init, SeatInit, CallsMatch, Match, NoGive, Calls, Gives, LaterCalls, Ending, Stored
<1> QED BY <1>1, <1>2, <1>3 DEF SagaInv

LEMMA TypeStep == SeatInv /\ TypeOK /\ [Next]_vars => TypeOK'
<1> SUFFICES ASSUME SeatInv, TypeOK, [Next]_vars PROVE TypeOK'
  OBVIOUS
<1>1. SeatTypeOK'
  BY SagaStepIsSeatStep, SeatInvStep DEF SeatInv
<1>2. CASE UNCHANGED vars
  BY <1>1, <1>2 DEF TypeOK, vars
<1>3. ASSUME NEW k \in Clients, Creating(k) PROVE TypeOK'
  BY <1>1, <1>3, Trips DEF TypeOK, Creating, LookUp, ReserveOut, OutAnswered, ReturnAnswered,
     Create, Undone, Goto, Waiting, Resting
<1>4. ASSUME NEW k \in Clients, Failure(k) PROVE TypeOK'
  <2>1. \A r \in Later[k] : r \in Requests
    BY RequestAssumption
  <2>2. CASE OutTimeout(k) \/ ReturnTimeout(k) \/ CreateFails(k) \/ UndoTimeout(k)
    BY <1>1, <2>2, SagaFaultAssumption DEF TypeOK, OutTimeout, ReturnTimeout, CreateFails,
       UndoTimeout, Goto, Fault, Waiting, Resting
  <2>3. CASE Die(k) \/ \E r \in Later[k] : ReleaseTimeout(k, r)
    <3>1. faults' \in 0 .. MaxFaults /\ looked' = looked
      <4>1. faults < MaxFaults /\ faults' = faults + 1 /\ looked' = looked
        BY <2>3 DEF Die, ReleaseTimeout, Goto, Go, Fault
      <4> QED BY <4>1, SagaFaultAssumption DEF TypeOK
    <3>2. pc' \in [Clients -> Waiting \cup Resting]
      BY <2>3 DEF TypeOK, Die, ReleaseTimeout, Goto, Go, Resting
    <3>3. later' \in [LaterCalls -> LaterStates]
      BY <2>1, <2>3 DEF TypeOK, Die, ReleaseTimeout, Goto, Go, LaterStates
    <3> QED BY <1>1, <3>1, <3>2, <3>3 DEF TypeOK
  <2>4. CASE \E f \in Flights : LoseCall(k, f)
    BY <1>1, <2>4, SagaFaultAssumption DEF TypeOK, LoseCall, Fault
  <2> QED BY <1>4, <2>2, <2>3, <2>4 DEF Failure
<1>5. ASSUME NEW k \in Clients, NEW r \in Later[k], Check(k, r) \/ GoOn(k, r) PROVE TypeOK'
  BY <1>1, <1>5, RequestAssumption DEF TypeOK, Check, GoOn, Leave, Confirm, Cancel, Release,
     Released, Go, Waiting, Resting, LaterStates, Ending, LaterCalls
<1>6. ASSUME NEW k \in Clients, NEW f \in Flights, FlightService(k, f) PROVE TypeOK'
  BY <1>1, <1>6 DEF TypeOK, FlightService
<1> QED BY <1>2, <1>3, <1>4, <1>5, <1>6 DEF Next

(* Serving or losing a call changes calls that were sent, and no others. *)
LEMMA CallsMatchServe ==
    ASSUME SeatTypeOK, CallsMatch, NEW k \in Clients, NEW f \in Flights,
           Serve(k, f) \/ Drop(k, f), UNCHANGED <<pc, later>>
    PROVE  CallsMatch'
<1>1. <<k, f>> \in Calls /\ \A r \in Requests : <<k, f, r>> \in Gives
  BY DEF Calls, Gives
<1>2. /\ \A c \in Calls : take[c] # "sent" => take'[c] = take[c]
      /\ \A c \in Gives : give[c] = "none" => give'[c] = "none"
  BY <1>1 DEF Serve, Drop, Decrement, IncrementRead, IncrementWrite, SeatTypeOK
<1>3. SUFFICES ASSUME NEW c \in Clients
      PROVE  /\ NoGive(c) => NoGive(c)'
             /\ \A g \in Flights : take[<<c, g>>] # "sent" => take'[<<c, g>>] = take[<<c, g>>]
  BY Trips DEF CallsMatch, Match, AllTaken, Legs
<1> QED BY <1>2 DEF NoGive, Calls, Gives

(* A step of client k leaves what is known of the others alone. *)
LEMMA MatchOthers ==
    ASSUME CallsMatch, NEW k \in Clients, Match(k)',
           \A j \in Clients \ {k} : pc'[j] = pc[j] /\ \A r \in Requests : later'[<<j, r>>] = later[<<j, r>>],
           \A c \in Calls : c[1] # k => take'[c] = take[c],
           \A c \in Gives : c[1] # k => give'[c] = give[c]
    PROVE  CallsMatch'
<1>1. SUFFICES ASSUME NEW j \in Clients \ {k} PROVE Match(j)'
  BY DEF CallsMatch
<1>2. Match(j)
  BY DEF CallsMatch
<1>3. /\ \A f \in Flights : take'[<<j, f>>] = take[<<j, f>>]
      /\ \A f \in Flights, r \in Requests : give'[<<j, f, r>>] = give[<<j, f, r>>]
      /\ pc'[j] = pc[j] /\ \A r \in Requests : later'[<<j, r>>] = later[<<j, r>>]
  BY DEF Calls, Gives
<1> QED BY <1>2, <1>3, Trips DEF Match, NoGive, AllTaken

(* A step of the request that creates k's booking. *)
LEMMA CallsMatchOwn ==
    ASSUME SeatTypeOK, TypeOK, CallsMatch, NEW k \in Clients, pc[k] \in Waiting, later' = later,
           NEW l \in Waiting \cup {"failed", "booked"}, pc' = [pc EXCEPT ![k] = l],
           \A c \in Calls : c[1] # k => take'[c] = take[c],
           \A c \in Gives : c[1] # k => give'[c] = give[c],
           l \in {"lookup", "wait_out", "wait_return", "create", "booked"} => NoGive(k)',
           l = "lookup" => \A f \in Flights : take'[<<k, f>>] = "none",
           l = "wait_out" => \A f \in Flights \ {Outbound[k]} : take'[<<k, f>>] = "none",
           l = "wait_return" => Return[k] # NoFlight /\ take'[<<k, Outbound[k]>>] = "done",
           l \in {"create", "booked"} => AllTaken(k)'
    PROVE  CallsMatch'
<1>1. pc'[k] = l /\ \A j \in Clients \ {k} : pc'[j] = pc[j]
  BY DEF TypeOK
<1>2. \A r \in Requests : later'[<<k, r>>] \notin Ending
  BY DEF CallsMatch, Match, Waiting, Stored
<1>3. Match(k)'
  BY <1>1, <1>2 DEF Match, Waiting, Stored, Ending
<1> QED BY <1>1, <1>3, MatchOthers

(* A step of a request that may end k's booking. *)
LEMMA CallsMatchLater ==
    ASSUME SeatTypeOK, TypeOK, CallsMatch, NEW k \in Clients, NEW r \in Requests, pc[k] \in Stored,
           NEW l \in Stored, pc'[k] = l, \A j \in Clients \ {k} : pc'[j] = pc[j],
           NEW m, later' = [later EXCEPT ![<<k, r>>] = m], take' = take,
           \A c \in Gives : c[1] # k => give'[c] = give[c],
           l = "booked" => pc[k] = "booked" /\ give' = give,
           m \in {"saved", "release"} => l # "booked"
    PROVE  CallsMatch'
<1>1. later'[<<k, r>>] = m /\ \A c \in LaterCalls : c # <<k, r>> => later'[c] = later[c]
  BY DEF TypeOK, LaterCalls
<1>2. Match(k)
  BY DEF CallsMatch
<1>3. NoGive(k)' \/ l # "booked"
  BY <1>2 DEF Match, NoGive
<1>4. AllTaken(k)'
  BY <1>2 DEF Match, AllTaken
<1>5. ASSUME NEW q \in Requests, later'[<<k, q>>] \in {"saved", "release"} PROVE l # "booked"
  BY <1>1, <1>2, <1>5 DEF Match, LaterCalls
<1>6. Match(k)'
  BY <1>3, <1>4, <1>5 DEF Match, Stored
<1>7. \A j \in Clients \ {k} : \A q \in Requests : later'[<<j, q>>] = later[<<j, q>>]
  BY <1>1 DEF LaterCalls
<1> QED BY <1>6, <1>7, MatchOthers

LEMMA CallsMatchStep == SagaInv /\ [Next]_vars => CallsMatch'
<1> SUFFICES ASSUME SagaInv, [Next]_vars PROVE CallsMatch'
  OBVIOUS
<1>0. SeatTypeOK /\ TypeOK /\ CallsMatch
  BY DEF SagaInv, TypeOK
<1>1. CASE UNCHANGED vars
  BY <1>0, <1>1 DEF vars, seatVars, CallsMatch, Match, NoGive, AllTaken
<1>2. ASSUME NEW k \in Clients, Creating(k) PROVE CallsMatch'
  <2>0. /\ Match(k) /\ pc \in [Clients -> Waiting \cup Resting]
        /\ take \in [Calls -> TakeStates] /\ give \in [Gives -> GiveStates]
        /\ \A f \in Flights : <<k, f>> \in Calls
    BY <1>0 DEF CallsMatch, SeatTypeOK, TypeOK, Calls
  <2>1. ASSUME NEW f \in Flights, LookUp(k, f) PROVE CallsMatch'
    <3>1. CASE UNCHANGED <<pc, later>>
      BY <1>0, <2>1, <3>1 DEF LookUp, seatVars, CallsMatch, Match, NoGive, AllTaken
    <3>2. CASE pc' = [pc EXCEPT ![k] = "failed"]
      <4>1. take' = take /\ give' = give /\ pc[k] \in Waiting /\ later' = later
        BY <2>1, <3>2 DEF LookUp, seatVars, Waiting, Goto
      <4> QED BY <1>0, <3>2, <4>1, CallsMatchOwn
    <3> QED BY <2>1, <3>1, <3>2 DEF LookUp, Goto
  <2>2. CASE ReserveOut(k)
    <3>1. /\ pc[k] = "lookup" /\ pc' = [pc EXCEPT ![k] = "wait_out"] /\ later' = later
          /\ take' = [take EXCEPT ![<<k, Outbound[k]>>] = "sent"] /\ give' = give
      BY <2>2 DEF ReserveOut, Goto, SendTake
    <3>2. NoGive(k)' /\ \A f \in Flights \ {Outbound[k]} : take'[<<k, f>>] = "none"
      BY <2>0, <3>1, Trips DEF Match, NoGive
    <3>3. \A c \in Calls : c[1] # k => take'[c] = take[c]
      BY <2>0, <3>1
    <3> QED BY <1>0, <3>1, <3>2, <3>3, CallsMatchOwn DEF Waiting
  <2>3. CASE OutAnswered(k)
    <3>0. pc[k] = "wait_out" /\ give' = give /\ later' = later
      BY <2>3 DEF OutAnswered, Goto, SendTake, seatVars
    <3>1. CASE pc' = [pc EXCEPT ![k] = "wait_return"]
      <4>1. /\ Return[k] # NoFlight /\ take[<<k, Outbound[k]>>] = "done"
            /\ take' = [take EXCEPT ![<<k, Return[k]>>] = "sent"]
        BY <2>0, <2>3, <3>1 DEF OutAnswered, Goto, SendTake
      <4>2. NoGive(k)' /\ take'[<<k, Outbound[k]>>] = "done"
        BY <2>0, <3>0, <4>1, Trips DEF Match, NoGive
      <4>3. \A c \in Calls : c[1] # k => take'[c] = take[c]
        BY <2>0, <4>1
      <4> QED BY <1>0, <3>0, <3>1, <4>1, <4>2, <4>3, CallsMatchOwn DEF Waiting
    <3>2. CASE pc' = [pc EXCEPT ![k] = "create"]
      <4>1. /\ Return[k] = NoFlight /\ take[<<k, Outbound[k]>>] = "done" /\ take' = take
        BY <2>0, <2>3, <3>2 DEF OutAnswered, Goto, seatVars
      <4>2. NoGive(k)' /\ AllTaken(k)'
        BY <2>0, <3>0, <4>1, Trips DEF Match, NoGive, AllTaken, Legs
      <4> QED BY <1>0, <3>0, <3>2, <4>1, <4>2, CallsMatchOwn DEF Waiting
    <3>3. CASE pc' = [pc EXCEPT ![k] = "failed"]
      <4>1. take' = take
        BY <2>0, <2>3, <3>3 DEF OutAnswered, Goto, seatVars
      <4> QED BY <1>0, <3>0, <3>3, <4>1, CallsMatchOwn DEF Waiting
    <3> QED BY <2>3, <3>1, <3>2, <3>3 DEF OutAnswered, Goto
  <2>4. CASE ReturnAnswered(k)
    <3>0. pc[k] = "wait_return" /\ take' = take /\ later' = later
      BY <2>4 DEF ReturnAnswered, Goto, SendGive, seatVars
    <3>1. CASE pc' = [pc EXCEPT ![k] = "create"]
      <4>1. take[<<k, Return[k]>>] = "done" /\ give' = give
        BY <2>0, <2>4, <3>1 DEF ReturnAnswered, Goto, seatVars
      <4>2. NoGive(k)' /\ AllTaken(k)'
        BY <2>0, <3>0, <4>1, Trips DEF Match, NoGive, AllTaken, Legs
      <4> QED BY <1>0, <3>0, <3>1, <4>1, <4>2, CallsMatchOwn DEF Waiting
    <3>2. CASE pc' = [pc EXCEPT ![k] = "undo"]
      <4>1. \A c \in Gives : c[1] # k => give'[c] = give[c]
        BY <2>0, <2>4, <3>2 DEF ReturnAnswered, Goto, SendGive
      <4> QED BY <1>0, <3>0, <3>2, <4>1, CallsMatchOwn DEF Waiting
    <3> QED BY <2>4, <3>1, <3>2 DEF ReturnAnswered, Goto
  <2>5. CASE Create(k)
    <3>1. /\ pc[k] = "create" /\ pc' = [pc EXCEPT ![k] = "booked"]
          /\ take' = take /\ give' = give /\ later' = later
      BY <2>5 DEF Create, Goto, seatVars
    <3>2. NoGive(k)' /\ AllTaken(k)'
      BY <2>0, <3>1 DEF Match, NoGive, AllTaken
    <3> QED BY <1>0, <3>1, <3>2, CallsMatchOwn DEF Waiting
  <2>6. CASE Undone(k)
    <3>1. /\ pc[k] = "undo" /\ pc' = [pc EXCEPT ![k] = "failed"]
          /\ take' = take /\ give' = give /\ later' = later
      BY <2>6 DEF Undone, Goto, seatVars
    <3> QED BY <1>0, <3>1, CallsMatchOwn DEF Waiting
  <2> QED BY <1>2, <2>1, <2>2, <2>3, <2>4, <2>5, <2>6 DEF Creating
<1>3. ASSUME NEW k \in Clients, Failure(k) PROVE CallsMatch'
  <2>1. ASSUME NEW f \in Flights, LoseCall(k, f) PROVE CallsMatch'
    BY <1>0, <2>1, CallsMatchServe DEF LoseCall
  <2>2. CASE OutTimeout(k) \/ ReturnTimeout(k) \/ CreateFails(k) \/ UndoTimeout(k)
    <3>1. PICK l \in {"failed", "undo"} : pc' = [pc EXCEPT ![k] = l] /\ pc[k] \in Waiting
      BY <2>2 DEF OutTimeout, ReturnTimeout, CreateFails, UndoTimeout, Goto, Waiting
    <3>2. take' = take /\ later' = later /\ \A c \in Gives : c[1] # k => give'[c] = give[c]
      BY <2>2 DEF OutTimeout, ReturnTimeout, CreateFails, UndoTimeout, SendGive, seatVars, Goto
    <3> QED BY <1>0, <3>1, <3>2, CallsMatchOwn DEF Waiting
  <2>3. CASE Die(k) /\ pc' # pc
    <3>1. pc' = [pc EXCEPT ![k] = "failed"] /\ pc[k] \in Waiting /\ later' = later
      BY <2>3 DEF Die, Goto
    <3>2. take' = take /\ give' = give
      BY <2>3 DEF Die, seatVars
    <3> QED BY <1>0, <3>1, <3>2, CallsMatchOwn
  <2>4. ASSUME pc' = pc, Die(k) \/ \E r \in Later[k] : ReleaseTimeout(k, r) PROVE CallsMatch'
    <3>0. CASE \E l \in Waiting : Goto(k, l, "failed")
      BY <1>0, <2>4, <3>0 DEF Goto, TypeOK, Waiting
    <3>1. CASE \E r \in Later[k], l \in Ending : Go(k, r, l, "over")
      <4>1. PICK r \in Requests : later[<<k, r>>] \in Ending /\ later' = [later EXCEPT ![<<k, r>>] = "over"]
        BY <3>1, RequestAssumption DEF Go
      <4>2. take' = take /\ give' = give
        BY <2>4 DEF Die, ReleaseTimeout, seatVars
      <4>3. pc[k] \in Stored
        BY <1>0, <4>1 DEF CallsMatch, Match
      <4> QED BY <1>0, <2>4, <4>1, <4>2, <4>3, CallsMatchLater
    <3> QED BY <2>4, <3>0, <3>1 DEF Die, ReleaseTimeout, Ending
  <2>5. ASSUME NEW r \in Later[k], ReleaseTimeout(k, r) PROVE CallsMatch'
    BY <2>4, <2>5 DEF ReleaseTimeout
  <2> QED BY <1>3, <2>1, <2>2, <2>3, <2>4, <2>5 DEF Failure
<1>4. ASSUME NEW k \in Clients, NEW r \in Later[k], Check(k, r) \/ GoOn(k, r) PROVE CallsMatch'
  <2>0. r \in Requests /\ Match(k) /\ pc \in [Clients -> Waiting \cup Resting]
    BY <1>0, RequestAssumption DEF CallsMatch, TypeOK
  <2>1. CASE Check(k, r) \/ Leave(k, r) \/ Released(k, r)
    <3>1. /\ pc' = pc /\ take' = take /\ give' = give
          /\ \E m \in {"checked", "over"} : later' = [later EXCEPT ![<<k, r>>] = m]
          /\ pc[k] \in Stored
      BY <2>0, <2>1 DEF Check, Leave, Released, Go, seatVars, Match, Stored, Ending
    <3> QED BY <1>0, <2>0, <3>1, CallsMatchLater
  <2>2. CASE Confirm(k, r) \/ Cancel(k, r)
    <3>1. PICK l \in {"revived", "cancelled"}, m \in {"over", "saved"} :
              /\ pc' = [pc EXCEPT ![k] = l] /\ later' = [later EXCEPT ![<<k, r>>] = m]
              /\ take' = take /\ give' = give /\ later[<<k, r>>] = "checked"
      BY <2>2 DEF Confirm, Cancel, Go, seatVars
    <3>2. pc[k] \in Stored /\ l \in Stored /\ pc'[k] = l /\ \A j \in Clients \ {k} : pc'[j] = pc[j]
      BY <2>0, <3>1 DEF Match, Stored, Ending
    <3> QED BY <1>0, <2>0, <3>1, <3>2, CallsMatchLater
  <2>3. CASE Release(k, r)
    <3>1. /\ pc' = pc /\ take' = take /\ later' = [later EXCEPT ![<<k, r>>] = "release"]
          /\ \A c \in Gives : c[1] # k => give'[c] = give[c]
          /\ later[<<k, r>>] = "saved"
      BY <2>3 DEF Release, Go, SendGive
    <3>2. pc[k] \in Stored /\ pc[k] # "booked"
      BY <2>0, <3>1 DEF Match, Stored
    <3> QED BY <1>0, <2>0, <3>1, <3>2, CallsMatchLater
  <2> QED BY <1>4, <2>1, <2>2, <2>3 DEF GoOn
<1>5. ASSUME NEW k \in Clients, NEW f \in Flights, FlightService(k, f) PROVE CallsMatch'
  BY <1>0, <1>5, CallsMatchServe DEF FlightService
<1> QED BY <1>1, <1>2, <1>3, <1>4, <1>5 DEF Next

LEMMA SagaInvInductive == Spec => []SagaInv
<1>1. SagaInv /\ [Next]_vars => SagaInv'
  BY SagaStepIsSeatStep, SeatInvStep, TypeStep, CallsMatchStep DEF SagaInv
<1> QED BY <1>1, SagaInit, PTL DEF Spec

(* Whatever is lost, times out or dies, a stored booking was granted the    *)
(* seats of every leg, and no compensation for them was ever sent.          *)
THEOREM LiveOwns == Spec => []LiveOwnsSeats
<1>1. ASSUME SagaInv PROVE LiveOwnsSeats
  <2>1. SUFFICES ASSUME NEW k \in Clients, pc[k] = "booked"
                 PROVE  NoGive(k) /\ AllTaken(k)
    BY Trips DEF LiveOwnsSeats, Live, NoGive, AllTaken
  <2>2. Match(k)
    BY <1>1 DEF SagaInv, CallsMatch
  <2> QED BY <2>1, <2>2 DEF Match, Stored
<1> QED BY <1>1, SagaInvInductive, PTL

THEOREM SagaTypeCorrect == Spec => []TypeOK
<1>1. SagaInv => TypeOK
  BY DEF SagaInv
<1> QED BY <1>1, SagaInvInductive, PTL

(* The counter stays in range under the whole saga, timeouts included. *)
THEOREM SagaSeatsInRange == Spec => []SeatsInRange
<1>1. SagaInv => SeatsInRange
  BY DEF SagaInv, SeatInv
<1> QED BY <1>1, SagaInvInductive, PTL

(* Seats left plus seats granted are the seats offered, until an increment  *)
(* overwrites a write it has not read.                                      *)
THEOREM SagaLedgerExact == Spec => []LedgerExact
<1>1. SagaInv => LedgerExact
  BY DEF SagaInv, SeatInv
<1> QED BY <1>1, SagaInvInductive, PTL

-------------------------------------------------------------------------------
(* Counting seats *)

SeatSet(K) == {s \in K \X (1 .. MaxParty) : s[2] <= Party[s[1]]}

LEMMA SeatSetFinite ==
    ASSUME NEW K \in SUBSET Clients
    PROVE  IsFiniteSet(SeatSet(K)) /\ SeatsOf(K) \in Nat /\ SeatsOf(K) = Cardinality(SeatSet(K))
<1>1. IsFiniteSet(K)
  BY SagaClientAssumption, FS_Subset
<1>2. IsFiniteSet(1 .. MaxParty)
  <2>1. 1 \in Int /\ MaxParty \in Int
    BY DEF MaxParty
  <2> QED BY <2>1, FS_Interval
<1>3. IsFiniteSet(K \X (1 .. MaxParty))
  BY <1>1, <1>2, FS_Product
<1>4. IsFiniteSet(SeatSet(K))
  BY <1>3, FS_Subset DEF SeatSet
<1>5. SeatsOf(K) = Cardinality(SeatSet(K))
  BY DEF SeatsOf, SeatSet
<1> QED BY <1>4, <1>5, FS_CardinalityType

LEMMA NobodysSeats == SeatsOf({}) = 0
<1>1. SeatSet({}) = {}
  BY DEF SeatSet
<1> QED BY <1>1, SeatSetFinite, FS_EmptySet

LEMMA FewerClients ==
    ASSUME NEW K \in SUBSET Clients, NEW L \in SUBSET K
    PROVE  SeatsOf(L) <= SeatsOf(K)
<1>1. SeatSet(L) \subseteq SeatSet(K)
  BY DEF SeatSet
<1> QED BY <1>1, SeatSetFinite, FS_Subset

LEMMA OneMoreClient ==
    ASSUME NEW K \in SUBSET Clients, NEW k \in Clients \ K
    PROVE  SeatsOf(K \cup {k}) = SeatsOf(K) + Party[k]
<1> DEFINE own == {k} \X (1 .. Party[k])
<1>1. Party[k] \in Nat /\ Party[k] <= MaxParty
  BY PartyAssumption, SagaClientAssumption
<1>2. IsFiniteSet(own) /\ Cardinality(own) = Party[k]
  <2>1. IsFiniteSet(1 .. Party[k]) /\ Cardinality(1 .. Party[k]) = Party[k]
    BY <1>1, FS_Interval, SMTT(30)
  <2>2. IsFiniteSet({k}) /\ Cardinality({k}) = 1
    BY FS_Singleton
  <2>3. Cardinality(own) = 1 * Party[k] /\ IsFiniteSet(own)
    BY <2>1, <2>2, FS_Product, ZenonT(60)
  <2> QED BY <1>1, <2>3
<1>3. SeatSet(K \cup {k}) = SeatSet(K) \cup own
  <2>1. \A n \in 1 .. MaxParty : n <= Party[k] <=> n \in 1 .. Party[k]
    BY <1>1
  <2>2. 1 .. Party[k] \subseteq 1 .. MaxParty
    BY <1>1 DEF MaxParty
  <2> QED BY <2>1, <2>2 DEF SeatSet
<1>4. SeatSet(K) \cap own = {}
  BY DEF SeatSet
<1> HIDE DEF own
<1>5. Cardinality(SeatSet(K) \cup own) = Cardinality(SeatSet(K)) + Cardinality(own) - Cardinality({})
  BY <1>2, <1>4, SeatSetFinite, FS_Union
<1>6. Cardinality({}) = 0
  BY FS_EmptySet
<1>7. SeatsOf(K \cup {k}) = Cardinality(SeatSet(K) \cup own)
  BY <1>3, SeatSetFinite
<1> QED BY <1>1, <1>2, <1>5, <1>6, <1>7, SeatSetFinite

-------------------------------------------------------------------------------
(* The seats granted are somebody's *)

GrantedTo(f) == {k \in Clients : take[<<k, f>>] = "done" /\ ~Given(k, f)}

HeldIsGranted == \A f \in Flights : held[f] + regiven[f] = SeatsOf(GrantedTo(f))

\* Only what was taken is given back.
GivesWereTaken == \A k \in Clients, f \in Flights, r \in Requests :
    give[<<k, f, r>>] # "none" => take[<<k, f>>] = "done"

\* The first increment for a booking fits if it has read the true number of seats.
ReadsFit ==
    \A k \in Clients, f \in Flights, r \in Requests : ~Given(k, f) =>
        /\ give[<<k, f, r>>] = "read" /\ ~stale[f] /\ regiven[f] = 0 =>
              seen[<<k, f, r>>] + Party[k] <= Offered[f]
        /\ give[<<k, f, r>>] = "refused" => stale[f] \/ regiven[f] # 0

GrantInv == HeldIsGranted /\ GivesWereTaken /\ ReadsFit

LEMMA GrantStart == SeatInit => GrantInv
<1> SUFFICES ASSUME SeatInit PROVE GrantInv
  OBVIOUS
<1>1. \A f \in Flights : GrantedTo(f) = {}
  BY DEF SeatInit, GrantedTo, Calls
<1>2. HeldIsGranted
  BY <1>1, NobodysSeats DEF SeatInit, HeldIsGranted
<1>3. GivesWereTaken /\ ReadsFit
  BY DEF SeatInit, GivesWereTaken, ReadsFit, Gives
<1> QED BY <1>2, <1>3 DEF GrantInv

\* The steps of the counter as the saga takes them.
SagaSeatStep ==
    \/ UNCHANGED seatVars
    \/ \E k \in Clients, f \in Flights : SendTake(k, f) \/ Serve(k, f) \/ Drop(k, f)
    \/ \E k \in Clients, F \in SUBSET Flights, r \in Requests :
          SendGive(k, F, r) /\ \A f \in F : take[<<k, f>>] = "done"

\* Calls that do not change the counter leave what is granted alone.
LEMMA GrantsKept ==
    ASSUME SeatInv, GrantInv, UNCHANGED <<held, regiven, stale>>,
           \A c \in Calls : take'[c] = "done" <=> take[c] = "done",
           \A k \in Clients, f \in Flights, r \in Requests :
              LET c == <<k, f, r>>
              IN  /\ give'[c] = "done" <=> give[c] = "done"
                  /\ give'[c] # "none" => give[c] # "none" \/ take[<<k, f>>] = "done"
                  /\ give'[c] = "refused" => give[c] = "refused"
                  /\ give'[c] = "read" => give[c] = "read" /\ seen'[c] = seen[c]
    PROVE  GrantInv'
<1>0. \A k \in Clients, f \in Flights : Given(k, f)' <=> Given(k, f)
  BY DEF Given
<1>1. \A f \in Flights : GrantedTo(f)' = GrantedTo(f)
  BY <1>0 DEF GrantedTo, Calls
<1>2. HeldIsGranted'
  BY <1>1 DEF GrantInv, HeldIsGranted
<1>3. GivesWereTaken'
  BY DEF GrantInv, GivesWereTaken, Calls
<1>4. ReadsFit'
  BY <1>0 DEF GrantInv, ReadsFit
<1> QED BY <1>2, <1>3, <1>4 DEF GrantInv

LEMMA GrantedTypes ==
    ASSUME NEW f \in Flights
    PROVE  GrantedTo(f) \subseteq Clients /\ GrantedTo(f)' \subseteq Clients
  BY DEF GrantedTo

LEMMA GrantsDecrement ==
    ASSUME SeatInv, GrantInv, NEW k \in Clients, NEW f \in Flights, Decrement(k, f)
    PROVE  GrantInv'
<1>1. /\ <<k, f>> \in Calls /\ take[<<k, f>>] = "sent" /\ UNCHANGED <<give, seen, regiven, stale>>
      /\ take \in [Calls -> TakeStates] /\ held \in [Flights -> Int] /\ regiven \in [Flights -> Nat]
  BY DEF Decrement, Calls, SeatInv, SeatTypeOK
<1>2. CASE UNCHANGED <<seats, held>> /\ take' = [take EXCEPT ![<<k, f>>] = "refused"]
  <2>1. \A c \in Calls : take'[c] = "done" <=> take[c] = "done"
    BY <1>1, <1>2
  <2> QED BY <1>1, <1>2, <2>1, GrantsKept
<1>3. CASE /\ held' = [held EXCEPT ![f] = @ + Party[k]]
           /\ take' = [take EXCEPT ![<<k, f>>] = "done"]
  <2>1. /\ take'[<<k, f>>] = "done" /\ \A c \in Calls : c # <<k, f>> => take'[c] = take[c]
        /\ held'[f] = held[f] + Party[k] /\ \A g \in Flights : g # f => held'[g] = held[g]
    BY <1>1, <1>3
  <2>2. \A r \in Requests : give[<<k, f, r>>] = "none"
    BY <1>1 DEF GrantInv, GivesWereTaken
  <2>0. \A j \in Clients, g \in Flights : Given(j, g)' <=> Given(j, g)
    BY <1>1 DEF Given
  <2>3. k \notin GrantedTo(f) /\ GrantedTo(f)' = GrantedTo(f) \cup {k}
    <3>1. k \notin GrantedTo(f)
      BY <1>1 DEF GrantedTo
    <3>2. ~Given(k, f)
      BY <2>2 DEF Given
    <3>3. \A j \in Clients : j # k => take'[<<j, f>>] = take[<<j, f>>]
      BY <2>1 DEF Calls
    <3> QED BY <2>0, <2>1, <3>1, <3>2, <3>3 DEF GrantedTo
  <2>4. \A g \in Flights : g # f => GrantedTo(g)' = GrantedTo(g)
    BY <1>1, <2>0, <2>1 DEF GrantedTo, Calls
  <2>5. HeldIsGranted'
    <3>1. SUFFICES ASSUME NEW g \in Flights PROVE held'[g] + regiven'[g] = SeatsOf(GrantedTo(g)')
      BY DEF HeldIsGranted, SeatsOf
    <3>2. CASE g = f
      <4>1. SeatsOf(GrantedTo(f) \cup {k}) = SeatsOf(GrantedTo(f)) + Party[k]
        BY <2>3, GrantedTypes, OneMoreClient
      <4>2. held[f] + regiven[f] = SeatsOf(GrantedTo(f))
        BY DEF GrantInv, HeldIsGranted
      <4>3. Party[k] \in Int /\ held[f] \in Int /\ regiven[f] \in Int /\ regiven'[f] = regiven[f]
        BY <1>1, PartyAssumption
      <4>4. held'[f] + regiven'[f] = SeatsOf(GrantedTo(f)) + Party[k]
        BY <2>1, <4>2, <4>3
      <4> QED BY <2>3, <3>2, <4>1, <4>4
    <3>3. CASE g # f
      BY <1>1, <2>1, <2>4, <3>3 DEF GrantInv, HeldIsGranted
    <3> QED BY <3>2, <3>3
  <2>6. GivesWereTaken'
    BY <1>1, <2>1 DEF GrantInv, GivesWereTaken, Calls
  <2>7. ReadsFit'
    BY <1>1, <2>0 DEF GrantInv, ReadsFit
  <2> QED BY <2>5, <2>6, <2>7 DEF GrantInv
<1> QED BY <1>2, <1>3 DEF Decrement

LEMMA GrantsRead ==
    ASSUME SeatInv, GrantInv, NEW k \in Clients, NEW f \in Flights, NEW r \in Requests,
           IncrementRead(k, f, r)
    PROVE  GrantInv'
<1>1. /\ <<k, f, r>> \in Gives /\ give[<<k, f, r>>] = "sent"
      /\ UNCHANGED <<seats, take, held, regiven, stale>>
      /\ give' = [give EXCEPT ![<<k, f, r>>] = "read"]
      /\ seen' = [seen EXCEPT ![<<k, f, r>>] = seats[f]]
      /\ give \in [Gives -> GiveStates] /\ seen \in [Gives -> Nat]
  BY DEF IncrementRead, Gives, SeatInv, SeatTypeOK
<1>2. /\ give'[<<k, f, r>>] = "read" /\ seen'[<<k, f, r>>] = seats[f]
      /\ \A c \in Gives : c # <<k, f, r>> => give'[c] = give[c] /\ seen'[c] = seen[c]
  BY <1>1
<1>0. \A j \in Clients, g \in Flights : Given(j, g)' <=> Given(j, g)
  BY <1>1, <1>2 DEF Given, Gives
<1>3. \A g \in Flights : GrantedTo(g)' = GrantedTo(g)
  BY <1>0, <1>1 DEF GrantedTo
<1>4. HeldIsGranted'
  BY <1>1, <1>3 DEF GrantInv, HeldIsGranted
<1>5. GivesWereTaken'
  BY <1>1, <1>2 DEF GrantInv, GivesWereTaken, Gives
<1>6. ~Given(k, f) /\ ~stale[f] /\ regiven[f] = 0 => seats[f] + Party[k] <= Offered[f]
  <2>1. SUFFICES ASSUME ~Given(k, f), ~stale[f], regiven[f] = 0
                 PROVE  seats[f] + Party[k] <= Offered[f]
    OBVIOUS
  <2>2. k \in GrantedTo(f)
    BY <1>1, <2>1 DEF GrantInv, GivesWereTaken, GrantedTo
  <2> DEFINE others == GrantedTo(f) \ {k}
  <2>3. others \subseteq Clients /\ k \notin others /\ GrantedTo(f) = others \cup {k}
    BY <2>2, GrantedTypes
  <2> HIDE DEF others
  <2>4. held[f] + regiven[f] = SeatsOf(others) + Party[k]
    BY <2>3, OneMoreClient DEF GrantInv, HeldIsGranted
  <2>5. /\ SeatsOf(others) \in Nat /\ Party[k] \in Nat /\ seats[f] \in Nat /\ Offered[f] \in Nat
        /\ held[f] \in Int
    BY <2>3, SeatSetFinite, PartyAssumption, CapacityAssumption DEF SeatInv, SeatTypeOK
  <2>6. seats[f] + held[f] = Offered[f]
    BY <2>1 DEF SeatInv, LedgerExact
  <2> QED BY <2>1, <2>4, <2>5, <2>6
<1>7. ReadsFit'
  <2>1. SUFFICES ASSUME NEW j \in Clients, NEW g \in Flights, NEW q \in Requests, ~Given(j, g)
                 PROVE  /\ give'[<<j, g, q>>] = "read" /\ ~stale[g] /\ regiven[g] = 0 =>
                              seen'[<<j, g, q>>] + Party[j] <= Offered[g]
                        /\ give'[<<j, g, q>>] = "refused" => stale[g] \/ regiven[g] # 0
    BY <1>0, <1>1 DEF ReadsFit
  <2>2. CASE j = k /\ g = f /\ q = r
    BY <1>2, <1>6, <2>1, <2>2
  <2>3. CASE j # k \/ g # f \/ q # r
    <3>1. give'[<<j, g, q>>] = give[<<j, g, q>>] /\ seen'[<<j, g, q>>] = seen[<<j, g, q>>]
      BY <1>2, <2>3 DEF Gives
    <3> QED BY <2>1, <3>1 DEF GrantInv, ReadsFit
  <2> QED BY <2>2, <2>3
<1> QED BY <1>4, <1>5, <1>7 DEF GrantInv

\* A refused increment leaves the counter alone: it was a second one, or the first
\* after a second release or an overwritten write.
LEMMA GrantsRefused ==
    ASSUME SeatInv, GrantInv, NEW k \in Clients, NEW f \in Flights, NEW r \in Requests,
           give[<<k, f, r>>] = "read", seen[<<k, f, r>>] + Party[k] > Capacity[f],
           UNCHANGED <<seats, take, seen, held, regiven, stale>>,
           give' = [give EXCEPT ![<<k, f, r>>] = "refused"]
    PROVE  GrantInv'
<1>1. /\ <<k, f, r>> \in Gives /\ give \in [Gives -> GiveStates]
      /\ Party[k] \in Nat /\ seen[<<k, f, r>>] \in Nat
  BY PartyAssumption DEF Gives, SeatInv, SeatTypeOK
<1>2. /\ give'[<<k, f, r>>] = "refused" /\ \A c \in Gives : c # <<k, f, r>> => give'[c] = give[c]
  BY <1>1
<1>3. Given(k, f) \/ stale[f] \/ regiven[f] # 0
  <2>1. Offered[f] <= Capacity[f] /\ Offered[f] \in Nat /\ Capacity[f] \in Nat
    BY CapacityAssumption
  <2>2. ~Given(k, f) /\ ~stale[f] /\ regiven[f] = 0 => seen[<<k, f, r>>] + Party[k] <= Offered[f]
    BY DEF GrantInv, ReadsFit
  <2> QED BY <1>1, <2>1, <2>2
<1>4. \A j \in Clients, g \in Flights : Given(j, g)' <=> Given(j, g)
  BY <1>1, <1>2 DEF Given, Gives
<1>5. HeldIsGranted'
  <2>1. \A g \in Flights : GrantedTo(g)' = GrantedTo(g)
    BY <1>4 DEF GrantedTo
  <2> QED BY <2>1 DEF GrantInv, HeldIsGranted
<1>6. GivesWereTaken'
  BY <1>1, <1>2 DEF GrantInv, GivesWereTaken, Gives
<1>7. ReadsFit'
  <2>1. SUFFICES ASSUME NEW j \in Clients, NEW g \in Flights, NEW q \in Requests, ~Given(j, g)
                 PROVE  /\ give'[<<j, g, q>>] = "read" /\ ~stale[g] /\ regiven[g] = 0 =>
                              seen[<<j, g, q>>] + Party[j] <= Offered[g]
                        /\ give'[<<j, g, q>>] = "refused" => stale[g] \/ regiven[g] # 0
    BY <1>4 DEF ReadsFit
  <2>2. CASE j = k /\ g = f /\ q = r
    BY <1>2, <1>3, <2>1, <2>2
  <2>3. CASE j # k \/ g # f \/ q # r
    <3>1. give'[<<j, g, q>>] = give[<<j, g, q>>]
      BY <1>2, <2>3 DEF Gives
    <3> QED BY <2>1, <3>1 DEF GrantInv, ReadsFit
  <2> QED BY <2>2, <2>3
<1> QED BY <1>5, <1>6, <1>7 DEF GrantInv

LEMMA GrantsWrite ==
    ASSUME SeatInv, GrantInv, NEW k \in Clients, NEW f \in Flights, NEW r \in Requests,
           IncrementWrite(k, f, r)
    PROVE  GrantInv'
<1>1. /\ <<k, f, r>> \in Gives /\ give[<<k, f, r>>] = "read" /\ UNCHANGED <<take, seen>>
      /\ give \in [Gives -> GiveStates] /\ held \in [Flights -> Int] /\ stale \in [Flights -> BOOLEAN]
      /\ regiven \in [Flights -> Nat] /\ Party[k] \in Nat \ {0} /\ seen[<<k, f, r>>] \in Nat
  BY PartyAssumption DEF IncrementWrite, Gives, SeatInv, SeatTypeOK
<1>2. CASE /\ seen[<<k, f, r>>] + Party[k] > Capacity[f] /\ UNCHANGED <<seats, held, regiven, stale>>
           /\ give' = [give EXCEPT ![<<k, f, r>>] = "refused"]
  BY <1>1, <1>2, GrantsRefused
<1>3. CASE /\ give' = [give EXCEPT ![<<k, f, r>>] = "done"] /\ held' = [held EXCEPT ![f] = @ - Party[k]]
           /\ regiven' = [regiven EXCEPT ![f] = IF Given(k, f) THEN @ + Party[k] ELSE @]
           /\ stale' = [stale EXCEPT ![f] = @ \/ seats[f] # seen[<<k, f, r>>]]
  <2>1. /\ give'[<<k, f, r>>] = "done" /\ \A c \in Gives : c # <<k, f, r>> => give'[c] = give[c]
        /\ held'[f] = held[f] - Party[k] /\ \A g \in Flights : g # f => held'[g] = held[g]
        /\ regiven'[f] = IF Given(k, f) THEN regiven[f] + Party[k] ELSE regiven[f]
        /\ \A g \in Flights : g # f => regiven'[g] = regiven[g]
        /\ \A g \in Flights : stale[g] => stale'[g]
    BY <1>1, <1>3
  <2>2. take[<<k, f>>] = "done"
    BY <1>1 DEF GrantInv, GivesWereTaken
  <2>3. /\ Given(k, f)'
        /\ \A j \in Clients, g \in Flights : j # k \/ g # f => (Given(j, g)' <=> Given(j, g))
    <3>1. Given(k, f)'
      BY <2>1 DEF Given
    <3>2. ASSUME NEW j \in Clients, NEW g \in Flights, j # k \/ g # f
          PROVE  \A q \in Requests : give'[<<j, g, q>>] = give[<<j, g, q>>]
      BY <2>1, <3>2 DEF Gives
    <3> QED BY <3>1, <3>2 DEF Given
  <2>4. /\ GrantedTo(f)' \subseteq Clients /\ k \notin GrantedTo(f)'
        /\ GrantedTo(f) = IF Given(k, f) THEN GrantedTo(f)' ELSE GrantedTo(f)' \cup {k}
    BY <1>1, <2>2, <2>3 DEF GrantedTo
  <2>5. \A g \in Flights : g # f => GrantedTo(g)' = GrantedTo(g)
    BY <1>1, <2>3 DEF GrantedTo
  <2>6. HeldIsGranted'
    <3>1. SUFFICES ASSUME NEW g \in Flights PROVE held'[g] + regiven'[g] = SeatsOf(GrantedTo(g)')
      BY DEF HeldIsGranted, SeatsOf
    <3>2. CASE g = f
      <4>1. SeatsOf(GrantedTo(f)' \cup {k}) = SeatsOf(GrantedTo(f)') + Party[k]
        BY <2>4, OneMoreClient
      <4>2. SeatsOf(GrantedTo(f)') \in Nat
        BY <2>4, SeatSetFinite
      <4>3. held[f] + regiven[f] = SeatsOf(GrantedTo(f)) /\ held[f] \in Int /\ regiven[f] \in Nat
        BY <1>1 DEF GrantInv, HeldIsGranted
      <4>4. CASE Given(k, f)
        BY <1>1, <2>1, <2>4, <3>2, <4>2, <4>3, <4>4
      <4>5. CASE ~Given(k, f)
        BY <1>1, <2>1, <2>4, <3>2, <4>1, <4>2, <4>3, <4>5
      <4> QED BY <4>4, <4>5
    <3>3. CASE g # f
      BY <2>1, <2>5, <3>3 DEF GrantInv, HeldIsGranted
    <3> QED BY <3>2, <3>3
  <2>7. GivesWereTaken'
    BY <1>1, <2>1, <2>2 DEF GrantInv, GivesWereTaken, Gives
  <2>8. \A g \in Flights : regiven[g] # 0 => regiven'[g] # 0
    BY <1>1, <2>1
  <2>9. ReadsFit'
    <3>1. SUFFICES ASSUME NEW j \in Clients, NEW g \in Flights, NEW q \in Requests, ~Given(j, g)'
                   PROVE  /\ give'[<<j, g, q>>] = "read" /\ ~stale'[g] /\ regiven'[g] = 0 =>
                                seen[<<j, g, q>>] + Party[j] <= Offered[g]
                          /\ give'[<<j, g, q>>] = "refused" => stale'[g] \/ regiven'[g] # 0
      BY <1>1 DEF ReadsFit
    <3>2. j # k \/ g # f
      BY <2>3, <3>1
    <3>3. ~Given(j, g) /\ give'[<<j, g, q>>] = give[<<j, g, q>>]
      BY <2>1, <2>3, <3>1, <3>2 DEF Gives
    <3> QED BY <2>1, <2>8, <3>3 DEF GrantInv, ReadsFit
  <2> QED BY <2>6, <2>7, <2>9 DEF GrantInv
<1> QED BY <1>2, <1>3 DEF IncrementWrite

LEMMA GrantStep == ASSUME SeatInv, GrantInv, SagaSeatStep PROVE GrantInv'
<1>0. /\ take \in [Calls -> TakeStates] /\ give \in [Gives -> GiveStates]
      /\ \A k \in Clients, f \in Flights : <<k, f>> \in Calls
      /\ \A k \in Clients, f \in Flights, r \in Requests : <<k, f, r>> \in Gives
  BY DEF SeatInv, SeatTypeOK, Calls, Gives
<1>1. CASE UNCHANGED seatVars
  BY <1>1, GrantsKept DEF seatVars
<1>2. ASSUME NEW k \in Clients, NEW f \in Flights, SendTake(k, f) PROVE GrantInv'
  <2>1. \A c \in Calls : take'[c] = "done" <=> take[c] = "done"
    BY <1>0, <1>2 DEF SendTake
  <2> QED BY <1>2, <2>1, GrantsKept DEF SendTake
<1>3. ASSUME NEW k \in Clients, NEW F \in SUBSET Flights, NEW r \in Requests, SendGive(k, F, r),
             \A f \in F : take[<<k, f>>] = "done"
      PROVE  GrantInv'
  <2>1. \A c \in Gives : give'[c] = IF c[1] = k /\ c[2] \in F /\ c[3] = r THEN "sent" ELSE give[c]
    BY <1>3 DEF SendGive
  <2>2. \A j \in Clients, f \in Flights, q \in Requests :
           \/ give'[<<j, f, q>>] = give[<<j, f, q>>]
           \/ give[<<j, f, q>>] = "none" /\ give'[<<j, f, q>>] = "sent" /\ take[<<j, f>>] = "done"
    BY <1>0, <1>3, <2>1 DEF SendGive
  <2>3. UNCHANGED <<held, regiven, stale, take, seen>>
    BY <1>3 DEF SendGive
  <2> QED BY <2>2, <2>3, GrantsKept
<1>4. ASSUME NEW k \in Clients, NEW f \in Flights, Drop(k, f) PROVE GrantInv'
  <2>1. \A c \in Calls : take'[c] = "done" <=> take[c] = "done"
    BY <1>0, <1>4 DEF Drop
  <2>2. \A c \in Gives : give'[c] = give[c] \/ (give'[c] = "lost" /\ give[c] \in {"sent", "read"})
    BY <1>0, <1>4 DEF Drop
  <2>3. UNCHANGED <<held, regiven, stale, seen>>
    BY <1>4 DEF Drop
  <2> QED BY <1>0, <2>1, <2>2, <2>3, GrantsKept
<1>5. ASSUME NEW k \in Clients, NEW f \in Flights, Serve(k, f) PROVE GrantInv'
  BY <1>5, GrantsDecrement, GrantsRead, GrantsWrite DEF Serve
<1> QED BY <1>1, <1>2, <1>3, <1>4, <1>5 DEF SagaSeatStep

LEMMA StepOfCounter == ASSUME SagaInv, [Next]_vars PROVE SagaSeatStep
<1>0. /\ CallsMatch /\ pc \in [Clients -> Waiting \cup Resting] /\ Creation \in Requests
      /\ \A k \in Clients : Later[k] \subseteq Requests
  BY RequestAssumption DEF SagaInv, TypeOK
<1>1. CASE UNCHANGED vars
  BY <1>1 DEF vars, SagaSeatStep
<1>2. ASSUME NEW k \in Clients, Creating(k) PROVE SagaSeatStep
  <2>1. CASE ReserveOut(k) \/ OutAnswered(k)
    BY <1>2, <2>1, Trips DEF ReserveOut, OutAnswered, SagaSeatStep
  <2>2. CASE ReturnAnswered(k)
    BY <1>0, <2>2, Trips DEF ReturnAnswered, Goto, CallsMatch, Match, SagaSeatStep
  <2>3. CASE (\E f \in Flights : LookUp(k, f)) \/ Create(k) \/ Undone(k)
    BY <2>3 DEF LookUp, Create, Undone, SagaSeatStep
  <2> QED BY <1>2, <2>1, <2>2, <2>3 DEF Creating
<1>3. ASSUME NEW k \in Clients, Failure(k) PROVE SagaSeatStep
  <2>1. CASE ReturnTimeout(k)
    BY <1>0, <2>1, Trips DEF ReturnTimeout, Goto, CallsMatch, Match, SagaSeatStep
  <2>2. CASE CreateFails(k)
    <3>1. /\ SendGive(k, Legs(k), Creation) /\ Legs(k) \in SUBSET Flights
          /\ \A f \in Legs(k) : take[<<k, f>>] = "done"
      BY <1>0, <2>2, Trips DEF CreateFails, Goto, CallsMatch, Match, AllTaken
    <3> QED BY <1>0, <3>1 DEF SagaSeatStep
  <2>3. CASE \/ OutTimeout(k) \/ UndoTimeout(k) \/ Die(k) \/ \E r \in Later[k] : ReleaseTimeout(k, r)
             \/ \E f \in Flights : LoseCall(k, f)
    BY <2>3 DEF OutTimeout, UndoTimeout, ReleaseTimeout, Die, LoseCall, SagaSeatStep
  <2> QED BY <1>3, <2>1, <2>2, <2>3 DEF Failure
<1>4. ASSUME NEW k \in Clients, NEW r \in Later[k], Check(k, r) \/ GoOn(k, r) PROVE SagaSeatStep
  <2>1. CASE Release(k, r)
    <3>1. later[<<k, r>>] = "saved" /\ SendGive(k, Legs(k), r) /\ r \in Requests
      BY <1>0, <2>1 DEF Release, Go
    <3>2. Match(k)
      BY <1>0 DEF CallsMatch
    <3>3. Legs(k) \in SUBSET Flights /\ \A f \in Legs(k) : take[<<k, f>>] = "done"
      BY <3>1, <3>2, Trips DEF Match, AllTaken, Stored
    <3> QED BY <3>1, <3>3 DEF SagaSeatStep
  <2>2. CASE Check(k, r) \/ Leave(k, r) \/ Confirm(k, r) \/ Cancel(k, r) \/ Released(k, r)
    BY <2>2 DEF Check, Leave, Confirm, Cancel, Released, SagaSeatStep
  <2> QED BY <1>4, <2>1, <2>2 DEF GoOn
<1>5. ASSUME NEW k \in Clients, NEW f \in Flights, FlightService(k, f) PROVE SagaSeatStep
  BY <1>5 DEF FlightService, SagaSeatStep
<1> QED BY <1>1, <1>2, <1>3, <1>4, <1>5 DEF Next

LEMMA GrantsInductive == Spec => [](SagaInv /\ GrantInv)
<1>1. SagaInv => SeatInv
  BY DEF SagaInv
<1>2. Init => GrantInv
  BY GrantStart DEF Init
<1>3. SagaInv /\ GrantInv /\ [Next]_vars => GrantInv'
  BY <1>1, GrantStep, StepOfCounter
<1> QED BY <1>2, <1>3, SagaInvInductive, PTL DEF Spec

(* As long as no increment overwrote a write it had not read, live bookings and   *)
(* seats left exceed the seats offered by at most the seats given back a second   *)
(* time by overlapping requests, whatever was lost or timed out: a live booking   *)
(* is among those that hold what was granted and not given back.                  *)
THEOREM LiveBookingsFit == Spec => []NoOversellUnlessStale
<1>1. ASSUME SagaInv, GrantInv PROVE NoOversellUnlessStale
  <2>1. SUFFICES ASSUME NEW f \in Flights, ~stale[f]
                 PROVE  Sold(f) + seats[f] <= Offered[f] + regiven[f]
    BY DEF NoOversellUnlessStale
  <2> DEFINE live == {k \in Clients : Live(k) /\ f \in Legs(k)}
  <2>2. live \subseteq GrantedTo(f)
    <3>1. SUFFICES ASSUME NEW k \in Clients, pc[k] = "booked", f \in Legs(k) PROVE k \in GrantedTo(f)
      BY DEF Live
    <3>2. Match(k)
      BY <1>1 DEF SagaInv, CallsMatch
    <3> QED BY <3>1, <3>2 DEF Match, NoGive, AllTaken, Stored, GrantedTo, Given
  <2>3. Sold(f) = SeatsOf(live)
    BY DEF Sold
  <2> HIDE DEF live
  <2>4. SeatsOf(live) <= SeatsOf(GrantedTo(f)) /\ SeatsOf(live) \in Nat /\ SeatsOf(GrantedTo(f)) \in Nat
    BY <2>2, GrantedTypes, FewerClients, SeatSetFinite
  <2>5. /\ seats[f] + held[f] = Offered[f] /\ held[f] + regiven[f] = SeatsOf(GrantedTo(f))
        /\ seats[f] \in Nat /\ held[f] \in Int /\ regiven[f] \in Nat
    BY <1>1, <2>1 DEF SagaInv, SeatInv, SeatTypeOK, LedgerExact, GrantInv, HeldIsGranted
  <2> QED BY <2>3, <2>4, <2>5
<1> QED BY <1>1, GrantsInductive, PTL

-------------------------------------------------------------------------------
(* Without failures nothing stays behind *)

(* What a request took is given back before it ends, and what a cancelled   *)
(* booking held is given back by one of the requests that cancelled it.     *)
Tidy(k) ==
    /\ \A f \in Flights \ Legs(k) : take[<<k, f>>] = "none"
    /\ pc[k] \in {"undo", "failed"} => \A f \in Flights :
          /\ take[<<k, f>>] \in {"none", "refused", "done"}
          /\ take[<<k, f>>] = "done" => give[<<k, f, Creation>>] # "none"
    /\ pc[k] = "failed" => \A f \in Flights :
          take[<<k, f>>] = "done" => give[<<k, f, Creation>>] \in {"done", "refused"}
    /\ pc[k] \in {"cancelled", "revived"} => \E r \in Requests :
          \/ later[<<k, r>>] \in {"saved", "release"}
          \/ \A f \in Legs(k) : give[<<k, f, r>>] \in {"done", "refused"}
    /\ \A r \in Requests : later[<<k, r>>] = "release" =>
          \A f \in Legs(k) : give[<<k, f, r>>] # "none"

Undisturbed ==
    faults = 0 =>
    /\ \A c \in Calls : take[c] # "lost"
    /\ \A c \in Gives : give[c] # "lost"
    /\ \A k \in Clients : Tidy(k)

LEMMA UndisturbedStart == Init => Undisturbed
  BY DEF Init, SeatInit, Undisturbed, Tidy, Calls, Gives, LaterCalls

\* What the flight service does to a call.
LEMMA UndisturbedServe ==
    ASSUME SagaInv, Undisturbed, NEW k \in Clients, NEW f \in Flights, FlightService(k, f)
    PROVE  Undisturbed'
<1>1. /\ <<k, f>> \in Calls /\ \A r \in Requests : <<k, f, r>> \in Gives
      /\ take \in [Calls -> TakeStates] /\ give \in [Gives -> GiveStates]
      /\ UNCHANGED <<pc, later, faults>> /\ Creation \in Requests
  BY RequestAssumption DEF Calls, Gives, SagaInv, SeatInv, SeatTypeOK, FlightService
<1>2. /\ \A c \in Calls : take'[c] # take[c] => take[c] = "sent" /\ take'[c] \in {"done", "refused"}
      /\ \A c \in Gives : give'[c] # give[c] =>
             give[c] \in {"sent", "read"} /\ give'[c] \in {"read", "done", "refused"}
  BY <1>1 DEF FlightService, Serve, Decrement, IncrementRead, IncrementWrite
<1>3. SUFFICES ASSUME faults = 0, NEW j \in Clients PROVE Tidy(j)'
  BY <1>1, <1>2 DEF Undisturbed
<1>4. Tidy(j)
  BY <1>3 DEF Undisturbed
<1>5. /\ \A g \in Flights : <<j, g>> \in Calls
      /\ \A g \in Flights, r \in Requests : <<j, g, r>> \in Gives
      /\ Legs(j) \subseteq Flights
  BY Trips DEF Calls, Gives
<1>6. /\ \A g \in Flights : take[<<j, g>>] # "sent" => take'[<<j, g>>] = take[<<j, g>>]
      /\ \A g \in Flights, r \in Requests :
            /\ give[<<j, g, r>>] # "none" => give'[<<j, g, r>>] # "none"
            /\ give[<<j, g, r>>] \in {"done", "refused"} => give'[<<j, g, r>>] = give[<<j, g, r>>]
  BY <1>2, <1>5
<1> QED BY <1>1, <1>4, <1>5, <1>6 DEF Tidy

\* A step about client k alone.
LEMMA UndisturbedOne ==
    ASSUME Undisturbed, NEW k \in Clients, faults' = faults,
           \A j \in Clients \ {k} : pc'[j] = pc[j] /\ \A r \in Requests : later'[<<j, r>>] = later[<<j, r>>],
           \A c \in Calls : c[1] # k => take'[c] = take[c],
           \A c \in Gives : c[1] # k => give'[c] = give[c],
           faults = 0 => /\ \A f \in Flights : take'[<<k, f>>] # "lost"
                         /\ \A f \in Flights, r \in Requests : give'[<<k, f, r>>] # "lost"
                         /\ Tidy(k)'
    PROVE  Undisturbed'
<1>1. SUFFICES ASSUME faults = 0
               PROVE  /\ \A c \in Calls : take'[c] # "lost"
                      /\ \A c \in Gives : give'[c] # "lost"
                      /\ \A j \in Clients : Tidy(j)'
  BY DEF Undisturbed
<1>2. \A c \in Calls : take'[c] # "lost"
  BY <1>1 DEF Undisturbed, Calls
<1>3. \A c \in Gives : give'[c] # "lost"
  BY <1>1 DEF Undisturbed, Gives
<1>4. ASSUME NEW j \in Clients \ {k} PROVE Tidy(j)'
  <2>1. Tidy(j) /\ Legs(j) \subseteq Flights /\ Creation \in Requests
    BY <1>1, Trips, RequestAssumption DEF Undisturbed
  <2>2. /\ \A f \in Flights : take'[<<j, f>>] = take[<<j, f>>]
        /\ \A f \in Flights, r \in Requests : give'[<<j, f, r>>] = give[<<j, f, r>>]
        /\ pc'[j] = pc[j] /\ \A r \in Requests : later'[<<j, r>>] = later[<<j, r>>]
    BY DEF Calls, Gives
  <2> QED BY <2>1, <2>2 DEF Tidy
<1> QED BY <1>1, <1>2, <1>3, <1>4

\* A step of the request that creates k's booking.
LEMMA UndisturbedOwn ==
    ASSUME SagaInv, Undisturbed, NEW k \in Clients, pc[k] \in Waiting,
           NEW l \in Waiting \cup {"failed", "booked"}, pc' = [pc EXCEPT ![k] = l],
           later' = later, faults' = faults,
           \A c \in Calls : c[1] # k => take'[c] = take[c],
           \A c \in Gives : c[1] # k => give'[c] = give[c],
           faults = 0 =>
              /\ \A f \in Flights : take'[<<k, f>>] # "lost"
              /\ \A f \in Flights, r \in Requests : give'[<<k, f, r>>] # "lost"
              /\ \A f \in Flights \ Legs(k) : take'[<<k, f>>] = "none"
              /\ l \in {"undo", "failed"} => \A f \in Flights :
                    /\ take'[<<k, f>>] \in {"none", "refused", "done"}
                    /\ take'[<<k, f>>] = "done" => give'[<<k, f, Creation>>] # "none"
              /\ l = "failed" => \A f \in Flights :
                    take'[<<k, f>>] = "done" => give'[<<k, f, Creation>>] \in {"done", "refused"}
    PROVE  Undisturbed'
<1>1. pc'[k] = l /\ \A j \in Clients \ {k} : pc'[j] = pc[j]
  BY DEF SagaInv, TypeOK
<1>2. Match(k)
  BY DEF SagaInv, CallsMatch
<1>3. \A r \in Requests : later'[<<k, r>>] # "release"
  BY <1>2 DEF Match, Stored, Ending, Waiting
<1>4. faults = 0 => Tidy(k)'
  BY <1>1, <1>3 DEF Tidy, Waiting
<1> QED BY <1>1, <1>4, UndisturbedOne

LEMMA UndisturbedCreating ==
    ASSUME SagaInv, GrantInv, Undisturbed, NEW k \in Clients, Creating(k)
    PROVE  Undisturbed'
<1>0. /\ Match(k) /\ pc \in [Clients -> Waiting \cup Resting]
      /\ take \in [Calls -> TakeStates] /\ give \in [Gives -> GiveStates]
      /\ \A f \in Flights : <<k, f>> \in Calls
      /\ \A f \in Flights, r \in Requests : <<k, f, r>> \in Gives
      /\ Outbound[k] \in Flights /\ Return[k] \in Flights \cup {NoFlight} /\ Return[k] # Outbound[k]
      /\ Legs(k) = {Outbound[k], Return[k]} \ {NoFlight} /\ NoFlight \notin Flights
      /\ Creation \in Requests
  BY Trips, TripAssumption, RequestAssumption
     DEF SagaInv, TypeOK, SeatInv, SeatTypeOK, CallsMatch, Calls, Gives, Legs
<1>u. faults = 0 => /\ \A f \in Flights : take[<<k, f>>] # "lost"
                    /\ \A f \in Flights, r \in Requests : give[<<k, f, r>>] # "lost"
                    /\ Tidy(k)
  BY <1>0 DEF Undisturbed
<1>1. ASSUME NEW f \in Flights, LookUp(k, f) PROVE Undisturbed'
  <2>1. CASE UNCHANGED <<pc, later>>
    BY <1>1, <2>1 DEF LookUp, seatVars, Undisturbed, Tidy
  <2>2. CASE pc' = [pc EXCEPT ![k] = "failed"]
    <3>1. /\ pc[k] = "lookup" /\ take' = take /\ give' = give /\ faults' = faults /\ later' = later
      BY <1>1, <2>2 DEF LookUp, seatVars, Goto
    <3>2. \A g \in Flights : take[<<k, g>>] = "none" /\ \A r \in Requests : give[<<k, g, r>>] = "none"
      BY <1>0, <3>1 DEF Match, NoGive
    <3> QED BY <2>2, <3>1, <3>2, UndisturbedOwn DEF Waiting
  <2> QED BY <1>1, <2>1, <2>2 DEF LookUp, Goto
<1>2. CASE ReserveOut(k)
  <2>1. /\ pc[k] = "lookup" /\ pc' = [pc EXCEPT ![k] = "wait_out"] /\ faults' = faults /\ later' = later
        /\ take' = [take EXCEPT ![<<k, Outbound[k]>>] = "sent"] /\ give' = give
    BY <1>2 DEF ReserveOut, Goto, SendTake
  <2>2. \A c \in Calls : c[1] # k => take'[c] = take[c]
    BY <1>0, <2>1
  <2>3. /\ \A f \in Flights : take'[<<k, f>>] # "lost" /\ (f # Outbound[k] => take'[<<k, f>>] = "none")
        /\ \A f \in Flights, r \in Requests : give'[<<k, f, r>>] = "none"
    BY <1>0, <2>1 DEF Match, NoGive
  <2>4. \A f \in Flights \ Legs(k) : take'[<<k, f>>] = "none"
    BY <1>0, <2>3
  <2> QED BY <2>1, <2>2, <2>3, <2>4, UndisturbedOwn DEF Waiting
<1>3. CASE OutAnswered(k)
  <2>1. /\ pc[k] = "wait_out" /\ faults' = faults /\ give' = give /\ later' = later
        /\ \A f \in Flights, r \in Requests : give[<<k, f, r>>] = "none"
        /\ \A f \in Flights \ {Outbound[k]} : take[<<k, f>>] = "none"
    BY <1>0, <1>3 DEF OutAnswered, Goto, SendTake, seatVars, Match, NoGive
  <2>2. CASE pc' = [pc EXCEPT ![k] = "wait_return"]
    <3>1. /\ Return[k] # NoFlight /\ take' = [take EXCEPT ![<<k, Return[k]>>] = "sent"]
          /\ take[<<k, Outbound[k]>>] = "done"
      BY <1>0, <1>3, <2>1, <2>2 DEF OutAnswered, Goto, SendTake
    <3>2. \A c \in Calls : c[1] # k => take'[c] = take[c]
      BY <1>0, <2>1, <3>1
    <3>3. \A f \in Flights : take'[<<k, f>>] # "lost" /\ (f \notin Legs(k) => take'[<<k, f>>] = "none")
      BY <1>0, <2>1, <3>1
    <3> QED BY <2>1, <2>2, <3>2, <3>3, UndisturbedOwn DEF Waiting
  <2>3. CASE pc' = [pc EXCEPT ![k] = "create"] \/ pc' = [pc EXCEPT ![k] = "failed"]
    <3>1. PICK l \in {"create", "failed"} : pc' = [pc EXCEPT ![k] = l]
      BY <2>3
    <3>2. /\ take' = take
          /\ l = "failed" => take[<<k, Outbound[k]>>] \in {"refused", "lost"}
      BY <1>0, <1>3, <2>1, <3>1 DEF OutAnswered, Goto, seatVars
    <3>3. faults = 0 => /\ \A f \in Flights : take[<<k, f>>] # "lost"
                        /\ \A f \in Flights \ Legs(k) : take[<<k, f>>] = "none"
      BY <1>u DEF Tidy
    <3>4. l = "failed" /\ faults = 0 => \A f \in Flights : take[<<k, f>>] \in {"none", "refused"}
      BY <2>1, <3>2, <3>3
    <3> QED BY <2>1, <3>1, <3>2, <3>3, <3>4, UndisturbedOwn DEF Waiting
  <2> QED BY <1>3, <2>2, <2>3 DEF OutAnswered, Goto
<1>4. CASE ReturnAnswered(k)
  <2>1. /\ pc[k] = "wait_return" /\ faults' = faults /\ take' = take /\ later' = later
        /\ \A f \in Flights, r \in Requests : give[<<k, f, r>>] = "none"
        /\ Return[k] # NoFlight /\ take[<<k, Outbound[k]>>] = "done"
    BY <1>0, <1>4 DEF ReturnAnswered, Goto, SendGive, seatVars, Match, NoGive
  <2>2. faults = 0 => /\ \A f \in Flights : take[<<k, f>>] # "lost"
                      /\ \A f \in Flights \ Legs(k) : take[<<k, f>>] = "none"
    BY <1>u DEF Tidy
  <2>3. CASE pc' = [pc EXCEPT ![k] = "create"]
    <3>1. give' = give
      BY <1>0, <1>4, <2>1, <2>3 DEF ReturnAnswered, Goto, seatVars
    <3> QED BY <2>1, <2>2, <2>3, <3>1, UndisturbedOwn DEF Waiting
  <2>4. CASE pc' = [pc EXCEPT ![k] = "undo"]
    <3>1. /\ take[<<k, Return[k]>>] \in {"refused", "lost"}
          /\ \A c \in Gives : give'[c] = IF c[1] = k /\ c[2] \in {Outbound[k]} /\ c[3] = Creation
                                         THEN "sent" ELSE give[c]
      BY <1>0, <1>4, <2>1, <2>4 DEF ReturnAnswered, Goto, SendGive
    <3>2. /\ \A c \in Gives : c[1] # k => give'[c] = give[c]
          /\ give'[<<k, Outbound[k], Creation>>] = "sent"
          /\ \A f \in Flights, r \in Requests : give'[<<k, f, r>>] \in {"none", "sent"}
      BY <1>0, <2>1, <3>1
    <3>3. faults = 0 => \A f \in Flights \ {Outbound[k]} : take[<<k, f>>] \in {"none", "refused"}
      BY <1>0, <2>2, <3>1
    <3>4. faults = 0 =>
            /\ \A f \in Flights : take'[<<k, f>>] # "lost"
            /\ \A f \in Flights \ Legs(k) : take'[<<k, f>>] = "none"
            /\ \A f \in Flights : take'[<<k, f>>] \in {"none", "refused", "done"}
            /\ \A f \in Flights : take'[<<k, f>>] = "done" => give'[<<k, f, Creation>>] # "none"
      BY <2>1, <2>2, <3>2, <3>3
    <3>5. \A f \in Flights, r \in Requests : give'[<<k, f, r>>] # "lost"
      BY <3>2
    <3> QED BY <2>1, <2>4, <3>2, <3>4, <3>5, UndisturbedOwn DEF Waiting
  <2> QED BY <1>4, <2>3, <2>4 DEF ReturnAnswered, Goto
<1>5. CASE Create(k)
  <2>1. /\ pc[k] = "create" /\ pc' = [pc EXCEPT ![k] = "booked"] /\ later' = later
        /\ take' = take /\ give' = give /\ faults' = faults
    BY <1>5 DEF Create, Goto, seatVars
  <2>2. faults = 0 => \A f \in Flights \ Legs(k) : take[<<k, f>>] = "none"
    BY <1>u DEF Tidy
  <2> QED BY <1>u, <2>1, <2>2, UndisturbedOwn DEF Waiting
<1>6. CASE Undone(k)
  <2>1. /\ pc[k] = "undo" /\ pc' = [pc EXCEPT ![k] = "failed"] /\ later' = later
        /\ take' = take /\ give' = give /\ faults' = faults
        /\ \A f \in Flights : give[<<k, f, Creation>>] \in {"none", "done", "refused", "lost"}
    BY <1>6 DEF Undone, Goto, seatVars, Answered
  <2>2. faults = 0 =>
          /\ \A f \in Flights \ Legs(k) : take[<<k, f>>] = "none"
          /\ \A f \in Flights : take[<<k, f>>] \in {"none", "refused", "done"}
          /\ \A f \in Flights : take[<<k, f>>] = "done" => give[<<k, f, Creation>>] # "none"
    BY <1>u, <2>1 DEF Tidy
  <2>3. faults = 0 => \A f \in Flights :
            take[<<k, f>>] = "done" => give[<<k, f, Creation>>] \in {"done", "refused"}
    BY <1>0, <1>u, <2>1, <2>2
  <2> QED BY <1>u, <2>1, <2>2, <2>3, UndisturbedOwn DEF Waiting
<1> QED BY <1>1, <1>2, <1>3, <1>4, <1>5, <1>6 DEF Creating

LEMMA UndisturbedLater ==
    ASSUME SagaInv, Undisturbed, NEW k \in Clients, NEW r \in Later[k], Check(k, r) \/ GoOn(k, r)
    PROVE  Undisturbed'
<1>0. /\ Match(k) /\ pc \in [Clients -> Waiting \cup Resting]
      /\ later \in [LaterCalls -> LaterStates] /\ give \in [Gives -> GiveStates]
      /\ r \in Requests /\ Creation \in Requests /\ Legs(k) \subseteq Flights
      /\ \A f \in Flights, q \in Requests : <<k, f, q>> \in Gives
      /\ \A j \in Clients, q \in Requests : <<j, q>> \in LaterCalls
  BY Trips, RequestAssumption
     DEF SagaInv, TypeOK, SeatInv, SeatTypeOK, CallsMatch, Gives, LaterCalls
<1>1. take' = take /\ faults' = faults
  BY DEF Check, GoOn, Leave, Confirm, Cancel, Release, Released, SendGive, seatVars
<1>2. PICK m \in {"checked", "over", "saved", "release"} : later' = [later EXCEPT ![<<k, r>>] = m]
  BY DEF Check, GoOn, Leave, Confirm, Cancel, Release, Released, Go
<1>3. later'[<<k, r>>] = m /\ \A c \in LaterCalls : c # <<k, r>> => later'[c] = later[c]
  BY <1>0, <1>2
<1>4. \A j \in Clients \ {k} : pc'[j] = pc[j] /\ \A q \in Requests : later'[<<j, q>>] = later[<<j, q>>]
  BY <1>0, <1>3 DEF Check, GoOn, Leave, Confirm, Cancel, Release, Released
<1>5. SUFFICES ASSUME faults = 0
               PROVE  /\ \A c \in Gives : c[1] # k => give'[c] = give[c]
                      /\ \A f \in Flights, q \in Requests : give'[<<k, f, q>>] # "lost"
                      /\ Tidy(k)'
  <2>1. \A c \in Gives : c[1] # k => give'[c] = give[c]
    BY DEF Check, GoOn, Leave, Confirm, Cancel, Release, Released, SendGive, seatVars
  <2>2. faults = 0 => \A f \in Flights : take'[<<k, f>>] # "lost"
    BY <1>1 DEF Undisturbed, Calls
  <2> QED BY <1>1, <1>4, <2>1, <2>2, UndisturbedOne
<1>6. Tidy(k) /\ \A f \in Flights, q \in Requests : give[<<k, f, q>>] # "lost"
  BY <1>0, <1>5 DEF Undisturbed
<1>7. CASE Check(k, r) \/ Leave(k, r) \/ Confirm(k, r) \/ Cancel(k, r) \/ Released(k, r)
  <2>1. give' = give
    BY <1>7 DEF Check, Leave, Confirm, Cancel, Released, seatVars
  <2>2. m # "release"
    BY <1>3, <1>7, <1>0 DEF Check, Leave, Confirm, Cancel, Released, Go
  <2>3. pc'[k] \notin {"undo", "failed"}
    BY <1>0, <1>7 DEF Check, Leave, Confirm, Cancel, Released, Go, Match, Stored, Ending
  <2>4. pc'[k] \in {"cancelled", "revived"} => \E q \in Requests :
           \/ later'[<<k, q>>] \in {"saved", "release"}
           \/ \A f \in Legs(k) : give[<<k, f, q>>] \in {"done", "refused"}
    <3>1. CASE Cancel(k, r)
      BY <1>0, <3>1 DEF Cancel, Go
    <3>2. CASE Check(k, r) \/ Leave(k, r) \/ Confirm(k, r)
      <4>1. pc'[k] \in {"cancelled", "revived"} => pc[k] \in {"cancelled", "revived"}
        BY <1>0, <3>2 DEF Check, Leave, Confirm
      <4>2. later[<<k, r>>] \notin {"saved", "release"}
        BY <3>2 DEF Check, Leave, Confirm, Go
      <4> QED BY <1>0, <1>3, <1>6, <4>1, <4>2 DEF Tidy
    <3>3. CASE Released(k, r)
      <4>1. pc' = pc /\ later[<<k, r>>] = "release" /\ Answered(k, r)
        BY <3>3 DEF Released, Go
      <4>2. \A f \in Legs(k) : give[<<k, f, r>>] \in {"done", "refused"}
        BY <1>0, <1>6, <4>1 DEF Tidy, Answered
      <4> QED BY <1>0, <4>2
    <3> QED BY <1>7, <3>1, <3>2, <3>3
  <2>5. \A q \in Requests : later'[<<k, q>>] = "release" => later[<<k, q>>] = "release"
    BY <1>0, <1>3, <2>2
  <2>6. Tidy(k)'
    BY <1>1, <1>6, <2>1, <2>3, <2>4, <2>5 DEF Tidy
  <2> QED BY <1>6, <2>1, <2>6
<1>8. CASE Release(k, r)
  <2>1. /\ pc' = pc /\ later[<<k, r>>] = "saved" /\ later'[<<k, r>>] = "release"
        /\ \A c \in Gives : give'[c] = IF c[1] = k /\ c[2] \in Legs(k) /\ c[3] = r THEN "sent" ELSE give[c]
    BY <1>0, <1>8 DEF Release, Go, SendGive
  <2>2. /\ \A c \in Gives : c[1] # k => give'[c] = give[c]
        /\ \A f \in Flights, q \in Requests : give'[<<k, f, q>>] \in {"sent", give[<<k, f, q>>]}
        /\ \A f \in Legs(k) : give'[<<k, f, r>>] = "sent"
    BY <1>0, <2>1
  <2>3. pc[k] \in {"cancelled", "revived"}
    BY <1>0, <2>1 DEF Match
  <2>4. \A q \in Requests : later'[<<k, q>>] = "release" => \A f \in Legs(k) : give'[<<k, f, q>>] # "none"
    BY <1>0, <1>3, <1>6, <2>1, <2>2 DEF Tidy
  <2>5. Tidy(k)'
    BY <1>0, <1>1, <1>6, <2>1, <2>3, <2>4 DEF Tidy
  <2>6. \A f \in Flights, q \in Requests : give'[<<k, f, q>>] # "lost"
    BY <1>6, <2>2
  <2> QED BY <2>2, <2>5, <2>6
<1> QED BY <1>7, <1>8 DEF GoOn

LEMMA UndisturbedStep == SagaInv /\ GrantInv /\ Undisturbed /\ [Next]_vars => Undisturbed'
<1> SUFFICES ASSUME SagaInv, GrantInv, Undisturbed, [Next]_vars PROVE Undisturbed'
  OBVIOUS
<1>1. CASE UNCHANGED vars
  BY <1>1 DEF vars, seatVars, Undisturbed, Tidy
<1>2. ASSUME NEW k \in Clients, Failure(k) PROVE Undisturbed'
  <2>1. faults \in Nat /\ faults' = faults + 1
    BY <1>2, SagaFaultAssumption
       DEF SagaInv, TypeOK, Failure, OutTimeout, ReturnTimeout, CreateFails, UndoTimeout,
           ReleaseTimeout, Die, LoseCall, Fault
  <2> QED BY <2>1 DEF Undisturbed
<1> QED BY <1>1, <1>2, UndisturbedServe, UndisturbedCreating, UndisturbedLater DEF Next

(* If nothing failed and no write was overwritten, the seats left and those of    *)
(* live bookings are, once all requests have ended, the seats offered and those   *)
(* given back a second time: a refused return leg, a failed request and a         *)
(* cancelled booking leave no seat behind, unless a second release made the       *)
(* airplane seem full so that an increment was refused.                           *)
THEOREM SeatsRestored == Spec => []RestoredAtRest
<1>1. ASSUME SagaInv, GrantInv, Undisturbed PROVE RestoredAtRest
  <2>0. SUFFICES ASSUME NEW f \in Flights, AtRest, faults = 0, ~stale[f],
                        ~(regiven[f] > 0 /\ \E c \in Gives : c[2] = f /\ give[c] = "refused")
                 PROVE  Sold(f) + seats[f] = Offered[f] + regiven[f]
    BY DEF RestoredAtRest
  <2>1. regiven[f] = 0 \/ ~ \E c \in Gives : c[2] = f /\ give[c] = "refused"
    BY <1>1, <2>0 DEF SagaInv, SeatInv, SeatTypeOK
  <2>2. ASSUME NEW k \in Clients, NEW r \in Requests, give[<<k, f, r>>] \in {"done", "refused"}
        PROVE  Given(k, f)
    <3>1. <<k, f, r>> \in Gives /\ <<k, f, r>>[2] = f
      BY DEF Gives
    <3>2. CASE give[<<k, f, r>>] = "done"
      BY <3>2 DEF Given
    <3>3. CASE give[<<k, f, r>>] = "refused"
      BY <1>1, <2>0, <2>1, <3>1, <3>3 DEF GrantInv, ReadsFit
    <3> QED BY <2>2, <3>2, <3>3
  <2>3. ASSUME NEW k \in Clients PROVE k \in GrantedTo(f) <=> Live(k) /\ f \in Legs(k)
    <3>0. Match(k) /\ Tidy(k) /\ pc[k] \in Resting /\ Creation \in Requests
          /\ \A r \in Requests : later[<<k, r>>] \notin Ending
      BY <1>1, <2>0, RequestAssumption DEF SagaInv, CallsMatch, Undisturbed, AtRest, LaterCalls
    <3>1. CASE pc[k] = "booked"
      <4>1. /\ ~Given(k, f)
            /\ \A g \in Legs(k) : take[<<k, g>>] = "done"
            /\ \A g \in Flights \ Legs(k) : take[<<k, g>>] = "none"
        BY <3>0, <3>1 DEF Match, NoGive, AllTaken, Stored, Tidy, Given
      <4> QED BY <3>1, <4>1 DEF GrantedTo, Live
    <3>2. CASE pc[k] = "failed"
      <4>1. take[<<k, f>>] = "done" => give[<<k, f, Creation>>] \in {"done", "refused"}
        BY <3>0, <3>2 DEF Tidy
      <4> QED BY <2>2, <3>0, <3>2, <4>1 DEF GrantedTo, Live
    <3>3. CASE pc[k] \in {"cancelled", "revived"}
      <4>1. PICK r \in Requests : \A g \in Legs(k) : give[<<k, g, r>>] \in {"done", "refused"}
        BY <3>0, <3>3 DEF Tidy, Ending
      <4>2. f \notin Legs(k) => take[<<k, f>>] = "none"
        BY <3>0 DEF Tidy
      <4>3. f \in Legs(k) => Given(k, f)
        BY <2>2, <4>1
      <4> QED BY <3>3, <4>2, <4>3 DEF GrantedTo, Live
    <3> QED BY <3>0, <3>1, <3>2, <3>3 DEF Resting
  <2>4. GrantedTo(f) = {k \in Clients : Live(k) /\ f \in Legs(k)}
    BY <2>3, GrantedTypes
  <2>5. Sold(f) = SeatsOf(GrantedTo(f))
    BY <2>4 DEF Sold
  <2>6. /\ seats[f] + held[f] = Offered[f] /\ held[f] + regiven[f] = SeatsOf(GrantedTo(f))
        /\ seats[f] \in Nat /\ held[f] \in Int /\ regiven[f] \in Nat
    BY <1>1, <2>0 DEF SagaInv, SeatInv, SeatTypeOK, LedgerExact, GrantInv, HeldIsGranted
  <2>7. SeatsOf(GrantedTo(f)) \in Nat
    BY GrantedTypes, SeatSetFinite
  <2> QED BY <2>5, <2>6, <2>7
<1> QED BY <1>1, UndisturbedStart, UndisturbedStep, GrantsInductive, PTL DEF Spec
================================================================================
