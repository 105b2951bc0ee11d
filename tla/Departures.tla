------------------------------ MODULE Departures ------------------------------
(***************************************************************************)
(* The times of flights and what goes by them: the duration that a search  *)
(* sorts by, the 24-hour rule of refunds, and the bookings that the hourly *)
(* reminder job is given.  The rule and the job read the snapshot of the   *)
(* flights that a booking carries, which was read some awaits before the   *)
(* booking was stored.  The clock counts hours; how a booking is paid, and *)
(* what a reminder goes through, is in BookingPayment and Notifications.   *)
(***************************************************************************)
EXTENDS Integers, FiniteSets

CONSTANTS
    Flights, Bookings,
    Day,          \* the 24 hours of the rule and of the job
    Times,        \* times that flights are given: <<departs, arrives>>
    Durations,    \* durations that a change of a flight may give it
    Horizon,      \* bound: the last hour
    MaxPatches,   \* bound: changes of flights
    MaxMissed,    \* bound: hours in which the job fails or does not run
    None

ASSUME DeparturesAssumption ==
    /\ Day \in Nat \ {0} /\ Horizon \in Nat /\ MaxPatches \in Nat /\ MaxMissed \in Nat
    /\ Times \subseteq Nat \X Nat /\ Durations \subseteq Nat /\ None \notin Flights

VARIABLES
    now,          \* the hour
    ran,          \* the job has had its run in this hour
    flight,       \* flight[f]: the row, or NoFlight
    booking,      \* booking[b]: the row with its snapshot, what is read for it, or NoBooking
    listed,       \* legs the job has been given: <<b, leg>>
    missed,       \* history: hours without a run that came through
    patches,      \* history: changes of flights
    patched,      \* history: flights that were changed
    half,         \* history: flights of which one time was changed alone
    moved,        \* history: bookings of a flight that got another departure, or was
                  \* deleted, after it was read for them
    late,         \* history: bookings refunded to a user less than a day before departure
    wrong         \* history: bookings listed when their flight did not leave within a day

flightVars == <<flight, patches, patched, half>>
jobVars == <<ran, listed, missed, wrong>>
departureVars == <<now, jobVars, flightVars, booking, moved, late>>

NoFlight == [departs |-> 0, arrives |-> 0, minutes |-> -1]
NoBooking == [status |-> "none", out |-> None, back |-> None,
              outAt |-> 0, outUntil |-> 0, backAt |-> 0, since |-> 0]
Flies(f) == flight[f] # NoFlight
Status(b) == booking[b].status

DeparturesInit ==
    /\ now = 0 /\ ran = FALSE
    /\ flight = [f \in Flights |-> NoFlight]
    /\ booking = [b \in Bookings |-> NoBooking]
    /\ listed = {} /\ missed = {} /\ patches = 0
    /\ patched = {} /\ half = {} /\ moved = {} /\ late = {} /\ wrong = {}

-------------------------------------------------------------------------------
(* Flights *)

(* The validator wants the arrival after the departure; the beforeSave hook *)
(* computes the duration.  An id is given out once.                         *)
CreateFlight(f, d, a) ==
    /\ ~Flies(f) /\ f \notin patched
    /\ a > d
    /\ flight' = [flight EXCEPT ![f] = [departs |-> d, arrives |-> a, minutes |-> a - d]]
    /\ UNCHANGED <<now, jobVars, patches, patched, half, booking, moved, late>>

Change(f) ==
    /\ Flies(f) /\ patches < MaxPatches
    /\ patches' = patches + 1
    /\ patched' = patched \cup {f}

BookedOn(f) == {b \in Bookings : f \in {booking[b].out, booking[b].back}}

(* A bulk update takes any field of the row, the duration too.  It validates *)
(* the fields it is given, so two times are compared and one alone is not,  *)
(* and runs no hook: a duration that is not given stays.                    *)
PatchFlight(f, fields, d, a, m) ==
    /\ Change(f)
    /\ {"departs", "arrives"} \subseteq fields => a > d
    /\ flight' = [flight EXCEPT ![f] =
           [departs |-> IF "departs" \in fields THEN d ELSE @.departs,
            arrives |-> IF "arrives" \in fields THEN a ELSE @.arrives,
            minutes |-> IF "minutes" \in fields THEN m ELSE @.minutes]]
    /\ half' = IF Cardinality(fields \cap {"departs", "arrives"}) = 1 THEN half \cup {f} ELSE half
    /\ moved' = IF "departs" \in fields THEN moved \cup BookedOn(f) ELSE moved
    /\ UNCHANGED <<now, jobVars, booking, late>>

DeleteFlight(f) ==
    /\ Change(f)
    /\ flight' = [flight EXCEPT ![f] = NoFlight]
    /\ moved' = moved \cup BookedOn(f)
    /\ UNCHANGED <<now, jobVars, half, booking, late>>

-------------------------------------------------------------------------------
(* Bookings *)

(* The flights of a trip are fetched concurrently. *)
ReadOut(b, f) ==
    /\ Status(b) \in {"none", "reading"} /\ booking[b].out = None
    /\ Flies(f) /\ booking[b].back # f
    /\ booking' = [booking EXCEPT ![b].status = "reading", ![b].out = f,
                       ![b].outAt = flight[f].departs, ![b].outUntil = flight[f].arrives]
    /\ UNCHANGED <<now, jobVars, flightVars, moved, late>>

ReadBack(b, f) ==
    /\ Status(b) \in {"none", "reading"} /\ booking[b].back = None
    /\ Flies(f) /\ booking[b].out # f
    /\ booking' = [booking EXCEPT ![b].status = "reading", ![b].back = f,
                       ![b].backAt = flight[f].departs]
    /\ UNCHANGED <<now, jobVars, flightVars, moved, late>>

(* The return leaves an hour or more after the arrival, by what was read;   *)
(* seats are taken of flights that are there.                               *)
Reserve(b) ==
    /\ Status(b) = "reading" /\ booking[b].out # None
    /\ booking[b].back # None => booking[b].backAt - booking[b].outUntil >= 1
    /\ \A f \in {booking[b].out, booking[b].back} \ {None} : Flies(f)
    /\ booking' = [booking EXCEPT ![b].status = "reserved"]
    /\ UNCHANGED <<now, jobVars, flightVars, moved, late>>

(* The booking is stored with what was read before.  A request that ends in *)
(* any other way leaves no booking.                                         *)
Book(b) ==
    /\ Status(b) = "reserved"
    /\ booking' = [booking EXCEPT ![b].status = "INITIATED"]
    /\ UNCHANGED <<now, jobVars, flightVars, moved, late>>

Confirm(b) ==
    /\ Status(b) = "INITIATED"
    /\ booking' = [booking EXCEPT ![b].status = "CONFIRMED", ![b].since = now]
    /\ UNCHANGED <<now, jobVars, flightVars, moved, late>>

(* Every other end of a booking: unpaid, declined, cancelled by an admin.   *)
Cancel(b) ==
    /\ Status(b) \in {"INITIATED", "CONFIRMED"}
    /\ booking' = [booking EXCEPT ![b].status = "CANCELLED"]
    /\ UNCHANGED <<now, jobVars, flightVars, moved, late>>

LeavesWithin(f) == Flies(f) /\ flight[f].departs - now < Day

(* Mutant: the rule goes by the last flight of the trip. *)
Refund_ByReturn(b) ==
    /\ Status(b) = "CONFIRMED"
    /\ (IF booking[b].back = None THEN booking[b].outAt ELSE booking[b].backAt) - now >= Day
    /\ booking' = [booking EXCEPT ![b].status = "CANCELLED"]
    /\ late' = IF LeavesWithin(booking[b].out) THEN late \cup {b} ELSE late
    /\ UNCHANGED <<now, jobVars, flightVars, moved>>

(* cancelAndRefundBooking for the user, at the moment when the 24-hour rule *)
(* lets it go on to the gateway.                                            *)
Refund(b) ==
    /\ Status(b) = "CONFIRMED"
    /\ booking[b].outAt - now >= Day
    /\ booking' = [booking EXCEPT ![b].status = "CANCELLED"]
    /\ late' = IF LeavesWithin(booking[b].out) THEN late \cup {b} ELSE late
    /\ UNCHANGED <<now, jobVars, flightVars, moved>>

-------------------------------------------------------------------------------
(* The job *)

TripType(b) == IF booking[b].back = None THEN "ONE_WAY" ELSE "ROUND_TRIP"

(* The legs that are looked at: the return only for a trip type that no     *)
(* booking has.                                                             *)
LegsOf(b) == {"out"} \cup (IF TripType(b) = "ROUND" THEN {"back"} ELSE {})

LegAt(b, leg) == IF leg = "out" THEN booking[b].outAt ELSE booking[b].backAt

(* Mutant: a flight that leaves in exactly 24 hours is not upcoming. *)
Upcoming_Strict(at) == 0 < at - now /\ at - now < Day

Upcoming(at) == 0 < at - now /\ at - now <= Day

GetUpcoming ==
    {leg \in Bookings \X {"out", "back"} :
        /\ Status(leg[1]) = "CONFIRMED" /\ leg[2] \in LegsOf(leg[1])
        /\ Upcoming(LegAt(leg[1], leg[2]))}

FlightOf(b, leg) == IF leg = "out" THEN booking[b].out ELSE booking[b].back

(* One run an hour.  Without the service, or the answer, the hour is missed. *)
Run ==
    /\ ~ran /\ ran' = TRUE
    /\ listed' = listed \cup GetUpcoming
    /\ wrong' = wrong \cup {b \in Bookings : \E leg \in {"out", "back"} :
           /\ <<b, leg>> \in GetUpcoming
           /\ LET f == FlightOf(b, leg)
              IN  ~Flies(f) \/ flight[f].departs \notin now + 1 .. now + Day}
    /\ UNCHANGED <<now, missed, flightVars, booking, moved, late>>

Miss ==
    /\ ~ran /\ ran' = TRUE
    /\ Cardinality(missed) < MaxMissed
    /\ missed' = missed \cup {now}
    /\ UNCHANGED <<now, listed, wrong, flightVars, booking, moved, late>>

Tick ==
    /\ ran /\ now < Horizon
    /\ now' = now + 1 /\ ran' = FALSE
    /\ UNCHANGED <<listed, missed, wrong, flightVars, booking, moved, late>>

-------------------------------------------------------------------------------
DeparturesNext ==
    \/ \E f \in Flights, t \in Times :
          \/ CreateFlight(f, t[1], t[2])
          \/ \E fields \in SUBSET {"departs", "arrives", "minutes"} \ {{}}, m \in Durations :
                PatchFlight(f, fields, t[1], t[2], m)
    \/ \E f \in Flights : DeleteFlight(f)
    \/ \E b \in Bookings, f \in Flights : ReadOut(b, f) \/ ReadBack(b, f)
    \/ \E b \in Bookings : Reserve(b) \/ Book(b) \/ Confirm(b) \/ Cancel(b) \/ Refund(b)
    \/ Run \/ Miss \/ Tick

DeparturesSpec == DeparturesInit /\ [][DeparturesNext]_departureVars

-------------------------------------------------------------------------------
(* Properties *)

DeparturesTypeOK ==
    /\ now \in 0 .. Horizon /\ ran \in BOOLEAN /\ patches \in 0 .. MaxPatches
    /\ \A f \in Flights : Flies(f) =>
          flight[f].departs \in Nat /\ flight[f].arrives \in Nat /\ flight[f].minutes \in Nat
    /\ \A b \in Bookings : booking[b] # NoBooking =>
          /\ Status(b) \in {"reading", "reserved", "INITIATED", "CONFIRMED", "CANCELLED"}
          /\ booking[b].out \in Flights \cup {None} /\ booking[b].back \in Flights \cup {None}
          /\ booking[b].out # booking[b].back
    /\ listed \subseteq Bookings \X {"out", "back"} /\ missed \subseteq 0 .. Horizon
    /\ patched \subseteq Flights /\ half \subseteq patched
    /\ moved \cup late \cup wrong \subseteq Bookings

\* In hour h the job came through, b was confirmed before and is still, and its leg
\* was to leave within a day.
WasDue(b, leg, h) ==
    /\ h < now /\ h \notin missed
    /\ Status(b) = "CONFIRMED" /\ booking[b].since < h
    /\ FlightOf(b, leg) # None
    /\ 0 < LegAt(b, leg) - h /\ LegAt(b, leg) - h <= Day

(* A departure that was confirmed in time is in the list of every run that   *)
(* comes through on its last day, the first hour and the last one included:  *)
(* as many runs may fail as leave one.                                       *)
RemindedInTime ==
    \A b \in Bookings, h \in 0 .. Horizon : WasDue(b, "out", h) => <<b, "out">> \in listed

(* A flight arrives after it departs unless one time was changed alone, and  *)
(* its duration is that of its times unless the flight was changed.         *)
TimesExplained ==
    \A f \in Flights : Flies(f) =>
        /\ f \in half \/ flight[f].arrives > flight[f].departs
        /\ f \in patched \/ flight[f].minutes = flight[f].arrives - flight[f].departs

(* What is wrong about times takes a change of a flight: its own times as in *)
(* TimesExplained, and by a snapshot read before another departure or the    *)
(* deletion, a refund less than a day before departure or a reminder of a    *)
(* flight that does not leave within a day.                                  *)
OnlyChangesMislead == late \cup wrong \subseteq moved /\ TimesExplained
================================================================================
