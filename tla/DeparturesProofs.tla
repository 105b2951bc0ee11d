--------------------------- MODULE DeparturesProofs ---------------------------
(***************************************************************************)
(* Who is reminded, what an outdated snapshot can mislead, and which times *)
(* of flights can be wrong, for any flights, bookings, hours and changes.  *)
(***************************************************************************)
EXTENDS Departures, FiniteSetTheorems, TLAPS

FlightRow == [departs : Nat, arrives : Nat, minutes : Int]
BookingRow ==
    [status : {"none", "reading", "reserved", "INITIATED", "CONFIRMED", "CANCELLED"},
     out : Flights \cup {None}, back : Flights \cup {None},
     outAt : Nat, outUntil : Nat, backAt : Nat, since : Nat]

Rows ==
    /\ flight \in [Flights -> FlightRow] /\ booking \in [Bookings -> BookingRow]
    /\ \A f \in Flights : Flies(f) => flight[f].minutes \in Nat
    /\ \A b \in Bookings : Status(b) = "none" => booking[b] = NoBooking
    /\ \A b \in Bookings : Status(b) # "none" => booking[b].back # booking[b].out
    /\ \A b \in Bookings : Status(b) \notin {"none", "reading"} => booking[b].out \in Flights

Histories ==
    /\ now \in 0 .. Horizon /\ ran \in BOOLEAN /\ patches \in 0 .. MaxPatches
    /\ listed \subseteq Bookings \X {"out", "back"} /\ missed \subseteq 0 .. Horizon
    /\ patched \subseteq Flights /\ half \subseteq patched
    /\ moved \cup late \cup wrong \subseteq Bookings

\* What was read of the outbound flight is what it is, unless its departure changed.
SnapshotTrue ==
    \A b \in Bookings : booking[b].out # None /\ b \notin moved =>
        Flies(booking[b].out) /\ flight[booking[b].out].departs = booking[b].outAt

\* WasDue for the outbound leg, in an hour that may be the one that is on.
Due(b, h) ==
    /\ h \notin missed
    /\ Status(b) = "CONFIRMED" /\ booking[b].since < h
    /\ 0 < booking[b].outAt - h /\ booking[b].outAt - h <= Day

Over(h) == h < now \/ (h = now /\ ran)

\* RemindedInTime with the hour that is on, once it had its run.
ListedInTime == \A b \in Bookings, h \in Nat : Over(h) /\ Due(b, h) => <<b, "out">> \in listed

DepInv == Rows /\ Histories /\ SnapshotTrue /\ ListedInTime /\ OnlyChangesMislead

LEMMA DepInvInit == DeparturesInit => DepInv
<1> SUFFICES ASSUME DeparturesInit PROVE DepInv
  OBVIOUS
<1>1. \A f \in Flights : ~Flies(f)
  BY DEF DeparturesInit, Flies
<1>2. \A b \in Bookings : booking[b] = NoBooking /\ Status(b) = "none"
  BY DEF DeparturesInit, Status, NoBooking
<1>3. NoFlight \in FlightRow /\ NoBooking \in BookingRow
  BY DEF NoFlight, FlightRow, NoBooking, BookingRow
<1>4. Rows
  BY <1>1, <1>2, <1>3 DEF DeparturesInit, Rows
<1>5. Histories
  <2>1. 0 \in 0 .. Horizon /\ 0 \in 0 .. MaxPatches
    BY DeparturesAssumption
  <2>2. now = 0 /\ patches = 0 /\ ran = FALSE
    BY DEF DeparturesInit
  <2>3. listed = {} /\ missed = {} /\ patched = {} /\ half = {} /\ moved \cup late \cup wrong = {}
    BY DEF DeparturesInit
  <2> QED BY <2>1, <2>2, <2>3 DEF Histories
<1>6. OnlyChangesMislead
  BY <1>1 DEF DeparturesInit, OnlyChangesMislead, TimesExplained
<1> QED
  BY <1>2, <1>4, <1>5, <1>6 DEF DepInv, SnapshotTrue, ListedInTime, Due, NoBooking

-------------------------------------------------------------------------------
(* Flights *)

(* A new flight leaves the bookings alone: none is of a flight that is not there, unless
   it was changed. *)
LEMMA StepCreate ==
    ASSUME DepInv, NEW f \in Flights, NEW d \in Nat, NEW a \in Nat, CreateFlight(f, d, a)
    PROVE  DepInv'
<1> DEFINE r == [departs |-> d, arrives |-> a, minutes |-> a - d]
<1>1. a - d \in Nat /\ a > d /\ a - d > 0
  BY DEF CreateFlight
<1>2. r \in FlightRow /\ r # NoFlight /\ r.arrives > r.departs /\ r.minutes = r.arrives - r.departs
      /\ r.minutes \in Nat
  BY <1>1 DEF FlightRow, NoFlight
<1>3. /\ UNCHANGED <<now, jobVars, patches, patched, half, booking, moved, late>>
      /\ ~Flies(f) /\ f \notin patched
      /\ flight' = [flight EXCEPT ![f] = r]
  BY DEF CreateFlight
<1> HIDE DEF r
<1>4. /\ flight' \in [Flights -> FlightRow] /\ flight'[f] = r
      /\ \A g \in Flights : g # f => flight'[g] = flight[g]
  BY <1>2, <1>3 DEF DepInv, Rows
<1>5. \A b \in Bookings : Status(b)' = Status(b)
  BY <1>3 DEF Status
<1>6. Rows'
  BY <1>2, <1>3, <1>4, <1>5 DEF DepInv, Rows, Flies
<1>7. Histories'
  BY <1>3 DEF DepInv, Histories, jobVars
<1>8. SnapshotTrue'
  BY <1>3, <1>4, <1>5 DEF DepInv, Rows, SnapshotTrue, Flies
<1>9. ListedInTime'
  BY <1>3, <1>5 DEF DepInv, ListedInTime, Due, Over, jobVars
<1>10. TimesExplained'
  BY <1>2, <1>3, <1>4 DEF DepInv, OnlyChangesMislead, TimesExplained, Flies
<1>11. OnlyChangesMislead'
  BY <1>3, <1>10 DEF DepInv, OnlyChangesMislead, jobVars
<1> QED BY <1>6, <1>7, <1>8, <1>9, <1>11 DEF DepInv

(* What a PATCH makes of a row. *)
LEMMA PatchWrites ==
    ASSUME DepInv, NEW f \in Flights, NEW fields \in SUBSET {"departs", "arrives", "minutes"},
           NEW d \in Nat, NEW a \in Nat, NEW m \in Nat, PatchFlight(f, fields, d, a, m)
    PROVE  /\ flight' \in [Flights -> FlightRow]
           /\ \A g \in Flights : g # f => flight'[g] = flight[g]
           /\ flight'[f].minutes \in Nat
           /\ "departs" \notin fields => flight'[f].departs = flight[f].departs
           /\ f \in half' \/ flight'[f].arrives > flight'[f].departs
<1> DEFINE x == IF "departs" \in fields THEN d ELSE flight[f].departs
           y == IF "arrives" \in fields THEN a ELSE flight[f].arrives
           z == IF "minutes" \in fields THEN m ELSE flight[f].minutes
           r == [departs |-> x, arrives |-> y, minutes |-> z]
<1>1. flight \in [Flights -> FlightRow] /\ flight[f] \in FlightRow /\ Flies(f)
  BY DEF DepInv, Rows, PatchFlight, Change
<1>2. flight[f].departs \in Nat /\ flight[f].arrives \in Nat /\ flight[f].minutes \in Nat
  BY <1>1 DEF FlightRow, DepInv, Rows
<1>3. x \in Nat /\ y \in Nat /\ z \in Nat /\ ("departs" \notin fields => x = flight[f].departs)
  BY <1>2
<1>4. flight' = [flight EXCEPT ![f] = r]
  BY DEF PatchFlight
<1>5. f \in half' \/ y > x
  <2>1. CASE {"departs", "arrives"} \subseteq fields
    BY <2>1 DEF PatchFlight
  <2>2. CASE "departs" \in fields /\ "arrives" \notin fields
    <3>1. fields \cap {"departs", "arrives"} = {"departs"}
      BY <2>2
    <3>2. Cardinality({"departs"}) = 1
      BY FS_Singleton
    <3> QED BY <3>1, <3>2 DEF PatchFlight
  <2>3. CASE "departs" \notin fields /\ "arrives" \in fields
    <3>1. fields \cap {"departs", "arrives"} = {"arrives"}
      BY <2>3
    <3>2. Cardinality({"arrives"}) = 1
      BY FS_Singleton
    <3> QED BY <3>1, <3>2 DEF PatchFlight
  <2>4. CASE "departs" \notin fields /\ "arrives" \notin fields
    <3>1. x = flight[f].departs /\ y = flight[f].arrives
      BY <2>4
    <3>2. f \in half \/ flight[f].arrives > flight[f].departs
      BY <1>1 DEF DepInv, OnlyChangesMislead, TimesExplained
    <3>3. half \subseteq half'
      BY DEF PatchFlight
    <3> QED BY <3>1, <3>2, <3>3
  <2> QED BY <2>1, <2>2, <2>3, <2>4
<1>6. r \in FlightRow /\ r.departs = x /\ r.arrives = y /\ r.minutes = z
  BY <1>3 DEF FlightRow
<1> HIDE DEF x, y, z, r
<1> QED BY <1>1, <1>3, <1>4, <1>5, <1>6

(* A change of a flight: it is there with its departure, or the bookings on it are moved. *)
LEMMA StepChange ==
    ASSUME DepInv, NEW f \in Flights, Change(f),
           flight' \in [Flights -> FlightRow],
           \A g \in Flights : g # f => flight'[g] = flight[g],
           Flies(f)' =>
              /\ flight'[f].minutes \in Nat
              /\ f \in half' \/ flight'[f].arrives > flight'[f].departs,
           \/ moved' = moved \cup BookedOn(f)
           \/ moved' = moved /\ Flies(f)' /\ flight'[f].departs = flight[f].departs,
           half \subseteq half', half' \subseteq half \cup {f},
           UNCHANGED <<now, jobVars, booking, late>>
    PROVE  DepInv'
<1>1. /\ Flies(f) /\ patches' = patches + 1 /\ patches < MaxPatches
      /\ patched' = patched \cup {f}
      /\ moved \subseteq moved' /\ moved' \subseteq moved \cup BookedOn(f)
      /\ UNCHANGED <<now, ran, listed, missed, wrong, booking, late>>
  BY DEF Change, jobVars
<1>2. \A b \in Bookings : Status(b)' = Status(b)
  BY <1>1 DEF Status
<1>3. Rows'
  BY <1>1, <1>2 DEF DepInv, Rows, Flies
<1>4. Histories'
  <2>1. patches' \in 0 .. MaxPatches
    BY <1>1, DeparturesAssumption DEF DepInv, Histories
  <2>2. moved' \subseteq Bookings /\ patched' \subseteq Flights /\ half' \subseteq patched'
    BY <1>1 DEF DepInv, Histories, BookedOn
  <2> QED BY <1>1, <2>1, <2>2 DEF DepInv, Histories
<1>5. SnapshotTrue'
  <2> SUFFICES ASSUME NEW b \in Bookings, booking[b].out # None, b \notin moved'
        PROVE  Flies(booking[b].out)' /\ flight'[booking[b].out].departs = booking[b].outAt
    BY <1>1 DEF SnapshotTrue, Flies
  <2>1. b \notin moved /\ booking[b].out \in Flights
    BY <1>1 DEF DepInv, Rows, BookingRow
  <2>2. Flies(booking[b].out) /\ flight[booking[b].out].departs = booking[b].outAt
    BY <2>1 DEF DepInv, SnapshotTrue
  <2>3. CASE booking[b].out = f
    BY <2>2, <2>3 DEF BookedOn
  <2>4. CASE booking[b].out # f
    BY <2>1, <2>2, <2>4 DEF Flies
  <2> QED BY <2>3, <2>4
<1>6. ListedInTime'
  BY <1>1, <1>2 DEF DepInv, ListedInTime, Due, Over
<1>7. TimesExplained'
  BY <1>1 DEF DepInv, OnlyChangesMislead, TimesExplained, Flies
<1>8. OnlyChangesMislead'
  BY <1>1, <1>7 DEF DepInv, OnlyChangesMislead
<1> QED BY <1>3, <1>4, <1>5, <1>6, <1>8 DEF DepInv

-------------------------------------------------------------------------------
(* Bookings *)

(* One booking is written: its snapshot is true or not trusted, and it was not due in an
   hour that is over unless it was before. *)
LEMMA StepBooking ==
    ASSUME DepInv, NEW b \in Bookings, NEW r \in BookingRow,
           booking' = [booking EXCEPT ![b] = r],
           r.status # "none", r.status # "reading" => r.out \in Flights, r.back # r.out,
           r.out # None /\ b \notin moved => Flies(r.out) /\ flight[r.out].departs = r.outAt,
           r.status = "CONFIRMED" => r.since >= now,
           late' \subseteq late \cup (IF b \in moved THEN {b} ELSE {}),
           UNCHANGED <<now, jobVars, flightVars, moved>>
    PROVE  DepInv'
<1>1. /\ UNCHANGED <<now, ran, listed, missed, wrong, flight, patches, patched, half, moved>>
      /\ booking' \in [Bookings -> BookingRow] /\ booking'[b] = r
      /\ \A c \in Bookings : c # b => booking'[c] = booking[c]
  BY DEF DepInv, Rows, jobVars, flightVars
<1>2. Status(b)' = r.status /\ \A c \in Bookings : c # b => Status(c)' = Status(c)
  BY <1>1 DEF Status
<1>3. Rows'
  BY <1>1, <1>2 DEF DepInv, Rows, Flies
<1>4. Histories'
  BY <1>1 DEF DepInv, Histories
<1>5. SnapshotTrue'
  <2> SUFFICES ASSUME NEW c \in Bookings, booking'[c].out # None, c \notin moved
        PROVE  Flies(booking'[c].out) /\ flight[booking'[c].out].departs = booking'[c].outAt
    BY <1>1 DEF SnapshotTrue, Flies
  <2>1. CASE c = b
    BY <2>1, <1>1
  <2>2. CASE c # b
    BY <2>2, <1>1, <1>2 DEF DepInv, SnapshotTrue
  <2> QED BY <2>1, <2>2
<1>6. ListedInTime'
  <2> SUFFICES ASSUME NEW c \in Bookings, NEW h \in Nat, Over(h), Due(c, h)'
        PROVE  <<c, "out">> \in listed
    BY <1>1 DEF ListedInTime, Over
  <2>1. h <= now /\ now \in Nat
    BY DeparturesAssumption DEF Over, DepInv, Histories
  <2>2. c # b
    <3> SUFFICES ASSUME c = b PROVE FALSE
      OBVIOUS
    <3>1. r.status = "CONFIRMED" /\ r.since < h
      BY <1>1, <1>2 DEF Due
    <3>2. r.since \in Nat
      BY DEF BookingRow
    <3> QED BY <2>1, <3>1, <3>2
  <2>3. Due(c, h)
    BY <2>2, <1>1, <1>2 DEF Due
  <2> QED BY <2>3 DEF DepInv, ListedInTime
<1>7. OnlyChangesMislead'
  BY <1>1 DEF DepInv, OnlyChangesMislead, TimesExplained, Flies
<1> QED BY <1>3, <1>4, <1>5, <1>6, <1>7 DEF DepInv

LEMMA StepRead ==
    ASSUME DepInv, NEW b \in Bookings, NEW f \in Flights, ReadOut(b, f) \/ ReadBack(b, f)
    PROVE  DepInv'
<1> DEFINE old == booking[b]
           out == [old EXCEPT !.status = "reading", !.out = f,
                      !.outAt = flight[f].departs, !.outUntil = flight[f].arrives]
           back == [old EXCEPT !.status = "reading", !.back = f, !.backAt = flight[f].departs]
<1>1. old \in BookingRow /\ flight[f] \in FlightRow /\ Flies(f) /\ f # None
  BY DeparturesAssumption DEF DepInv, Rows, ReadOut, ReadBack
<1>2. flight[f].departs \in Nat /\ flight[f].arrives \in Nat
  BY <1>1 DEF FlightRow
<1>3. UNCHANGED <<now, jobVars, flightVars, moved, late>>
  BY DEF ReadOut, ReadBack
<1>4. late' \subseteq late \cup (IF b \in moved THEN {b} ELSE {})
  BY <1>3
<1>5. old.out # None /\ b \notin moved => Flies(old.out) /\ flight[old.out].departs = old.outAt
  BY DEF DepInv, SnapshotTrue
<1>6. CASE ReadOut(b, f)
  <2>1. booking' = [booking EXCEPT ![b] = out] /\ old.back # f
    BY <1>6 DEF ReadOut, DepInv, Rows
  <2> HIDE DEF old
  <2>2. /\ out \in BookingRow /\ out.status = "reading" /\ out.out = f /\ out.back = old.back
        /\ out.outAt = flight[f].departs
    BY <1>1, <1>2 DEF BookingRow
  <2> HIDE DEF out
  <2> QED BY <1>1, <1>3, <1>4, <2>1, <2>2, StepBooking
<1>7. CASE ReadBack(b, f)
  <2>1. booking' = [booking EXCEPT ![b] = back] /\ old.out # f
    BY <1>7 DEF ReadBack, DepInv, Rows
  <2> HIDE DEF old
  <2>2. /\ back \in BookingRow /\ back.status = "reading" /\ back.out = old.out /\ back.back = f
        /\ back.outAt = old.outAt
    BY <1>1, <1>2 DEF BookingRow
  <2> HIDE DEF back
  <2> QED BY <1>1, <1>3, <1>4, <1>5, <2>1, <2>2, StepBooking
<1> QED BY <1>6, <1>7

(* The status of a booking that is there, and the hour of its confirmation, are written. *)
LEMMA StepStatus ==
    ASSUME DepInv, NEW b \in Bookings, Status(b) # "none", booking[b].out \in Flights,
           NEW to \in {"reserved", "INITIATED", "CONFIRMED", "CANCELLED"}, NEW at \in Nat,
           booking' = [booking EXCEPT ![b] = [@ EXCEPT !.status = to, !.since = at]],
           to = "CONFIRMED" => at >= now,
           late' \subseteq late \cup (IF b \in moved THEN {b} ELSE {}),
           UNCHANGED <<now, jobVars, flightVars, moved>>
    PROVE  DepInv'
<1> DEFINE old == booking[b]
           r == [old EXCEPT !.status = to, !.since = at]
<1>1. old \in BookingRow
  BY DEF DepInv, Rows
<1>2. booking' = [booking EXCEPT ![b] = r]
  BY DEF DepInv, Rows
<1>3. old.out \in Flights /\ old.back # old.out
      /\ (b \notin moved => Flies(old.out) /\ flight[old.out].departs = old.outAt)
  BY DeparturesAssumption DEF DepInv, Rows, SnapshotTrue
<1> HIDE DEF old
<1>4. r \in BookingRow /\ r.status = to /\ r.since = at /\ r.out = old.out /\ r.back = old.back
      /\ r.outAt = old.outAt
  BY <1>1 DEF BookingRow
<1> HIDE DEF r
<1> QED BY <1>2, <1>3, <1>4, StepBooking

LEMMA StepBookings ==
    ASSUME DepInv, NEW b \in Bookings,
           Reserve(b) \/ Book(b) \/ Confirm(b) \/ Cancel(b) \/ Refund(b)
    PROVE  DepInv'
<1> DEFINE old == booking[b]
<1>1. old \in BookingRow /\ now \in Nat
  BY DeparturesAssumption DEF DepInv, Rows, Histories
<1>2. old.since \in Nat /\ old.status = Status(b)
  BY <1>1 DEF BookingRow, Status
<1>0. booking[b].out \in Flights
  BY <1>1 DEF BookingRow, Reserve, Book, Confirm, Cancel, Refund, DepInv, Rows
<1>3. CASE Confirm(b)
  <2>1. booking' = [booking EXCEPT ![b] = [@ EXCEPT !.status = "CONFIRMED", !.since = now]]
    BY <1>3 DEF Confirm, DepInv, Rows
  <2>2. Status(b) # "none" /\ UNCHANGED <<now, jobVars, flightVars, moved>> /\ late' = late
    BY <1>3 DEF Confirm
  <2>3. late' \subseteq late \cup (IF b \in moved THEN {b} ELSE {})
    BY <2>2
  <2> DEFINE at == now
             to == "CONFIRMED"
  <2>4. booking' = [booking EXCEPT ![b] = [@ EXCEPT !.status = to, !.since = at]]
    BY <2>1
  <2>5. at \in Nat /\ at >= now /\ to \in {"CONFIRMED", "CANCELLED"}
    BY <1>1
  <2> HIDE DEF at, to
  <2> QED BY <1>0, <2>2, <2>3, <2>4, <2>5, StepStatus
<1>4. CASE Cancel(b) \/ Refund(b)
  <2>1. booking' = [booking EXCEPT ![b].status = "CANCELLED"]
    BY <1>4 DEF Cancel, Refund
  <2>2. [old EXCEPT !.status = "CANCELLED"] = [old EXCEPT !.status = "CANCELLED", !.since = old.since]
    BY <1>1 DEF BookingRow
  <2>3. booking' = [booking EXCEPT ![b] = [@ EXCEPT !.status = "CANCELLED", !.since = old.since]]
    BY <2>1, <2>2 DEF DepInv, Rows
  <2>4. Status(b) # "none" /\ UNCHANGED <<now, jobVars, flightVars, moved>>
    BY <1>4 DEF Cancel, Refund
  <2>5. late' \subseteq late \cup (IF b \in moved THEN {b} ELSE {})
    <3>1. CASE Cancel(b)
      BY <3>1 DEF Cancel
    <3>2. CASE Refund(b) /\ b \in moved
      BY <3>2 DEF Refund
    <3>3. CASE Refund(b) /\ b \notin moved
      <4>1. flight[booking[b].out].departs = booking[b].outAt /\ booking[b].outAt - now >= Day
        BY <1>0, <3>3, DeparturesAssumption DEF Refund, DepInv, SnapshotTrue
      <4>2. booking[b].outAt \in Nat
        BY <1>1 DEF BookingRow
      <4>3. ~LeavesWithin(booking[b].out)
        BY <4>1, <4>2, <1>1, DeparturesAssumption DEF LeavesWithin
      <4> QED BY <3>3, <4>3 DEF Refund
    <3> QED BY <1>4, <3>1, <3>2, <3>3
  <2> DEFINE at == old.since
  <2>6. booking' = [booking EXCEPT ![b] = [@ EXCEPT !.status = "CANCELLED", !.since = at]]
    BY <2>3
  <2>7. at \in Nat
    BY <1>2
  <2> HIDE DEF at
  <2> QED BY <1>0, <2>4, <2>5, <2>6, <2>7, StepStatus
<1>5. CASE Reserve(b) \/ Book(b)
  <2> DEFINE to == IF Reserve(b) THEN "reserved" ELSE "INITIATED"
             at == old.since
  <2>1. booking' = [booking EXCEPT ![b].status = to]
    BY <1>5 DEF Reserve, Book
  <2>2. to \in {"reserved", "INITIATED"} /\ at \in Nat
    BY <1>2
  <2>3. Status(b) # "none" /\ UNCHANGED <<now, jobVars, flightVars, moved>> /\ late' = late
    BY <1>5 DEF Reserve, Book
  <2>4. late' \subseteq late \cup (IF b \in moved THEN {b} ELSE {})
    BY <2>3
  <2>5. [old EXCEPT !.status = to] = [old EXCEPT !.status = to, !.since = at]
    BY <1>1 DEF BookingRow
  <2> HIDE DEF to
  <2>6. booking' = [booking EXCEPT ![b] = [@ EXCEPT !.status = to, !.since = at]]
    BY <2>1, <2>5 DEF DepInv, Rows
  <2> HIDE DEF at, old
  <2> QED BY <1>0, <2>2, <2>3, <2>4, <2>6, StepStatus
<1> QED BY <1>3, <1>4, <1>5

-------------------------------------------------------------------------------
(* The job and the clock *)

(* A run lists the outbound legs that are due in its hour, and no return leg. *)
LEMMA RunLists ==
    ASSUME DepInv, Run
    PROVE  /\ \A b \in Bookings : Due(b, now) => <<b, "out">> \in GetUpcoming
           /\ GetUpcoming \subseteq Bookings \X {"out"}
           /\ wrong' \subseteq wrong \cup moved
<1>1. \A b \in Bookings : LegsOf(b) = {"out"}
  BY DEF LegsOf, TripType
<1>2. \A b \in Bookings : Due(b, now) => <<b, "out">> \in GetUpcoming
  BY <1>1 DEF Due, GetUpcoming, Upcoming, LegAt
<1>3. GetUpcoming \subseteq Bookings \X {"out"}
  BY <1>1 DEF GetUpcoming
<1>4. wrong' \subseteq wrong \cup moved
  <2> SUFFICES ASSUME NEW b \in wrong', b \notin wrong, b \notin moved PROVE FALSE
    OBVIOUS
  <2>1. PICK leg \in {"out", "back"} :
           /\ b \in Bookings /\ <<b, leg>> \in GetUpcoming
           /\ ~Flies(FlightOf(b, leg)) \/ flight[FlightOf(b, leg)].departs \notin now + 1 .. now + Day
    BY DEF Run
  <2>2. leg = "out" /\ Status(b) = "CONFIRMED" /\ Upcoming(booking[b].outAt)
    BY <2>1, <1>3 DEF GetUpcoming, LegAt
  <2>3. Flies(booking[b].out) /\ flight[booking[b].out].departs = booking[b].outAt
    BY <2>1, <2>2, DeparturesAssumption DEF DepInv, Rows, SnapshotTrue
  <2>4. now \in Nat /\ Day \in Nat /\ booking[b].outAt \in Nat
    BY <2>1, DeparturesAssumption DEF DepInv, Histories, Rows, BookingRow
  <2>5. booking[b].outAt \in now + 1 .. now + Day
    BY <2>2, <2>4 DEF Upcoming
  <2>6. FlightOf(b, leg) = booking[b].out
    BY <2>2 DEF FlightOf
  <2> QED BY <2>1, <2>3, <2>5, <2>6
<1> QED BY <1>2, <1>3, <1>4

LEMMA StepRun == ASSUME DepInv, Run PROVE DepInv'
<1>1. /\ ~ran /\ ran' = TRUE /\ listed' = listed \cup GetUpcoming
      /\ UNCHANGED <<now, missed, flightVars, booking, moved, late>>
  BY DEF Run
<1>2. /\ \A b \in Bookings : Due(b, now) => <<b, "out">> \in GetUpcoming
      /\ GetUpcoming \subseteq Bookings \X {"out"}
      /\ wrong' \subseteq wrong \cup moved
  BY RunLists
<1>3. Rows'
  BY <1>1 DEF DepInv, Rows, Flies, Status, flightVars
<1>4. Histories'
  BY <1>1, <1>2 DEF DepInv, Histories, flightVars
<1>5. SnapshotTrue'
  BY <1>1 DEF DepInv, SnapshotTrue, Flies, Status, flightVars
<1>6. ListedInTime'
  <2> SUFFICES ASSUME NEW b \in Bookings, NEW h \in Nat, Over(h)', Due(b, h)'
        PROVE  <<b, "out">> \in listed'
    BY DEF ListedInTime
  <2>1. Due(b, h)
    BY <1>1 DEF Due, Status
  <2>2. CASE h = now
    BY <1>1, <1>2, <2>1, <2>2
  <2>3. CASE h < now
    BY <1>1, <2>1, <2>3 DEF DepInv, ListedInTime, Over
  <2> QED BY <1>1, <2>2, <2>3 DEF Over
<1>7. OnlyChangesMislead'
  BY <1>1, <1>2 DEF DepInv, OnlyChangesMislead, TimesExplained, Flies, flightVars
<1> QED BY <1>3, <1>4, <1>5, <1>6, <1>7 DEF DepInv

LEMMA StepClock == ASSUME DepInv, Miss \/ Tick PROVE DepInv'
<1>1. UNCHANGED <<listed, wrong, flight, patches, patched, half, booking, moved, late>>
  BY DEF Miss, Tick, flightVars
<1>2. now \in Nat /\ missed' \subseteq missed \cup {now} /\ missed \subseteq missed'
  BY DeparturesAssumption DEF DepInv, Histories, Miss, Tick
<1>3. Rows'
  BY <1>1 DEF DepInv, Rows, Flies, Status
<1>4. Histories'
  <2>1. now' \in 0 .. Horizon /\ ran' \in BOOLEAN /\ missed' \subseteq 0 .. Horizon
    <3>1. CASE Miss
      BY <3>1 DEF DepInv, Histories, Miss
    <3>2. CASE Tick
      <4>1. ran' = FALSE /\ missed' = missed /\ missed \subseteq 0 .. Horizon
        BY <3>2 DEF Tick, DepInv, Histories
      <4>2. now' = now + 1 /\ now < Horizon /\ now \in 0 .. Horizon
        BY <3>2 DEF Tick, DepInv, Histories
      <4>3. now' \in 0 .. Horizon
        BY <4>2, DeparturesAssumption
      <4> QED BY <4>1, <4>3
    <3> QED BY <3>1, <3>2
  <2> QED BY <1>1, <2>1 DEF DepInv, Histories
<1>5. SnapshotTrue'
  BY <1>1 DEF DepInv, SnapshotTrue, Flies, Status
<1>6. ListedInTime'
  <2> SUFFICES ASSUME NEW b \in Bookings, NEW h \in Nat, Over(h)', Due(b, h)'
        PROVE  <<b, "out">> \in listed
    BY <1>1 DEF ListedInTime
  <2>1. Due(b, h)
    BY <1>1, <1>2 DEF Due, Status
  <2>2. Over(h)
    <3>1. CASE Miss
      BY <3>1 DEF Over, Due, Miss
    <3>2. CASE Tick
      BY <3>2, <1>2 DEF Over, Tick
    <3> QED BY <3>1, <3>2
  <2> QED BY <2>1, <2>2 DEF DepInv, ListedInTime
<1>7. OnlyChangesMislead'
  BY <1>1 DEF DepInv, OnlyChangesMislead, TimesExplained, Flies
<1> QED BY <1>3, <1>4, <1>5, <1>6, <1>7 DEF DepInv

-------------------------------------------------------------------------------
LEMMA DepInvStep == ASSUME DepInv, [DeparturesNext]_departureVars PROVE DepInv'
<1>1. ASSUME NEW f \in Flights, NEW t \in Times, CreateFlight(f, t[1], t[2]) PROVE DepInv'
  BY <1>1, StepCreate, DeparturesAssumption
<1>2. ASSUME NEW f \in Flights, NEW t \in Times, NEW m \in Durations,
             NEW fields \in SUBSET {"departs", "arrives", "minutes"} \ {{}},
             PatchFlight(f, fields, t[1], t[2], m)
      PROVE  DepInv'
  <2>1. t[1] \in Nat /\ t[2] \in Nat /\ m \in Nat
    BY DeparturesAssumption
  <2>2. /\ flight' \in [Flights -> FlightRow]
        /\ \A g \in Flights : g # f => flight'[g] = flight[g]
        /\ flight'[f].minutes \in Nat
        /\ "departs" \notin fields => flight'[f].departs = flight[f].departs
        /\ f \in half' \/ flight'[f].arrives > flight'[f].departs
    BY <1>2, <2>1, PatchWrites
  <2>3. /\ Change(f) /\ half \subseteq half' /\ half' \subseteq half \cup {f}
        /\ IF "departs" \in fields THEN moved' = moved \cup BookedOn(f) ELSE moved' = moved
        /\ UNCHANGED <<now, jobVars, booking, late>>
    BY <1>2 DEF PatchFlight
  <2>4. Flies(f)'
    BY <2>2 DEF Flies, NoFlight
  <2>5. \/ moved' = moved \cup BookedOn(f)
        \/ moved' = moved /\ Flies(f)' /\ flight'[f].departs = flight[f].departs
    BY <2>2, <2>3, <2>4
  <2> QED BY <2>2, <2>3, <2>5, StepChange
<1>3. ASSUME NEW f \in Flights, DeleteFlight(f) PROVE DepInv'
  <2>1. NoFlight \in FlightRow
    BY DEF NoFlight, FlightRow
  <2>2. /\ flight' \in [Flights -> FlightRow] /\ flight'[f] = NoFlight
        /\ \A g \in Flights : g # f => flight'[g] = flight[g]
    BY <1>3, <2>1 DEF DeleteFlight, DepInv, Rows
  <2>3. ~Flies(f)'
    BY <2>2 DEF Flies, NoFlight
  <2>4. Change(f) /\ half' = half /\ moved' = moved \cup BookedOn(f)
        /\ UNCHANGED <<now, jobVars, booking, late>>
    BY <1>3 DEF DeleteFlight
  <2> QED BY <2>2, <2>3, <2>4, StepChange
<1>4. ASSUME NEW b \in Bookings, NEW f \in Flights, ReadOut(b, f) \/ ReadBack(b, f) PROVE DepInv'
  BY <1>4, StepRead
<1>5. ASSUME NEW b \in Bookings, Reserve(b) \/ Book(b) \/ Confirm(b) \/ Cancel(b) \/ Refund(b)
      PROVE  DepInv'
  BY <1>5, StepBookings
<1>6. CASE Run
  BY <1>6, StepRun
<1>7. CASE Miss \/ Tick
  BY <1>7, StepClock
<1>8. CASE UNCHANGED departureVars
  BY <1>8 DEF departureVars, jobVars, flightVars, DepInv, Rows, Histories, SnapshotTrue, ListedInTime,
              Due, Over, Status, Flies, OnlyChangesMislead, TimesExplained
<1> QED
  BY <1>1, <1>2, <1>3, <1>4, <1>5, <1>6, <1>7, <1>8 DEF DeparturesNext

LEMMA DepAlways == DeparturesSpec => []DepInv
  BY DepInvInit, DepInvStep, PTL DEF DeparturesSpec

(* Types: rows of flights and bookings, and histories, are what they should be. *)
THEOREM DeparturesTypeCorrect == DeparturesSpec => []DeparturesTypeOK
<1>1. DepInv => DeparturesTypeOK
  <2> SUFFICES ASSUME DepInv PROVE DeparturesTypeOK
    OBVIOUS
  <2>1. \A f \in Flights : Flies(f) =>
           flight[f].departs \in Nat /\ flight[f].arrives \in Nat /\ flight[f].minutes \in Nat
    BY DEF DepInv, Rows, FlightRow
  <2>2. \A b \in Bookings : booking[b] # NoBooking =>
           /\ Status(b) \in {"reading", "reserved", "INITIATED", "CONFIRMED", "CANCELLED"}
           /\ booking[b].out \in Flights \cup {None} /\ booking[b].back \in Flights \cup {None}
           /\ booking[b].out # booking[b].back
    BY DEF DepInv, Rows, BookingRow, Status
  <2> QED BY <2>1, <2>2 DEF DepInv, Histories, DeparturesTypeOK
<1> QED BY <1>1, DepAlways, PTL

(* A departure confirmed in time is in the list of every run of its last day, whatever
   the length of the day and however many hours are missed. *)
THEOREM DueIsListed == DeparturesSpec => []RemindedInTime
<1>1. DepInv => RemindedInTime
  <2> SUFFICES ASSUME DepInv, NEW b \in Bookings, NEW h \in 0 .. Horizon, WasDue(b, "out", h)
        PROVE  <<b, "out">> \in listed
    BY DEF RemindedInTime
  <2>1. h \in Nat /\ Over(h) /\ Due(b, h)
    BY DEF WasDue, Over, Due, LegAt
  <2> QED BY <2>1 DEF DepInv, ListedInTime
<1> QED BY <1>1, DepAlways, PTL

(* Late refunds, wrong reminders, reversed times and wrong durations take a change of a
   flight. *)
THEOREM MisledByChange == DeparturesSpec => []OnlyChangesMislead
<1>1. DepInv => OnlyChangesMislead
  BY DEF DepInv
<1> QED BY <1>1, DepAlways, PTL

================================================================================
