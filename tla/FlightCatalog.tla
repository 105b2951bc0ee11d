----------------------------- MODULE FlightCatalog -----------------------------
(***************************************************************************)
(* The tables that the flight service administers: cities, airports,       *)
(* airplanes and flights, with the foreign keys of the migrations, and the *)
(* seats of a flight that bookings take and give back meanwhile.  Rows     *)
(* keep the fields that refer to other rows, the capacity, the seats and,  *)
(* of a name, only the table it was typed for.  Whatever validation or a   *)
(* unique key objects to beyond that is a rejection that may always happen.*)
(***************************************************************************)
EXTENDS Integers, FiniteSets

CONSTANTS
    Ids,        \* ids of rows
    Capacities, \* capacities and numbers of seats that are typed in
    Seeded,     \* the id of the seeded rows
    MaxSales    \* bound: seats taken in a behaviour

ASSUME CatalogAssumption ==
    /\ Ids \subseteq Nat \ {0} /\ Seeded \in Ids
    /\ Capacities \subseteq Nat \ {0} /\ \E c \in Capacities : \A d \in Capacities : d <= c
    /\ MaxSales \in Nat

VARIABLES
    db,          \* db[t][i]: the row with id i of table t
    used,        \* used[t]: ids that the sequence of table t has given out
    returning,   \* returning[f]: seats an increment of f has read, or NotReturning
    offered,     \* history: seats the staff put on offer, per flight
    sold,        \* history: seats taken less seats returned
    sales,       \* history: seats taken
    stale,       \* history: stale[f]: copies of f's seats that are out of date
    overwritten  \* history: flights whose seats were written from such a copy

catalogVars == <<db, used, returning, offered, sold, sales, stale, overwritten>>

Tables == {"city", "airport", "airplane", "flight"}
Blank == [name |-> "none", city |-> 0, plane |-> 0, from |-> 0, to |-> 0, capacity |-> 0, seats |-> 0]
NoRow == [Blank EXCEPT !.name = "no row"]
NotReturning == -1
Copies == {"table", "form", "request", "return"}

Rows(t) == {i \in Ids : db[t][i] # NoRow}
MaxCapacity == CHOOSE c \in Capacities : \A d \in Capacities : d <= c

\* One row of each table, or no flight yet; a flight has the seats of its airplane or
\* fewer.
SeededRow(t, seats) ==
    CASE t = "city" -> [Blank EXCEPT !.name = "city"]
      [] t = "airport" -> [Blank EXCEPT !.name = "airport", !.city = Seeded]
      [] t = "airplane" -> [Blank EXCEPT !.capacity = MaxCapacity]
      [] t = "flight" -> [Blank EXCEPT !.plane = Seeded, !.from = Seeded, !.to = Seeded,
                                       !.seats = seats]

CatalogInit ==
    \E seats \in Capacities, seeded \in {Tables, Tables \ {"flight"}} :
        /\ db = [t \in Tables |->
                    [i \in Ids |-> IF i = Seeded /\ t \in seeded THEN SeededRow(t, seats) ELSE NoRow]]
        /\ used = [t \in Tables |-> IF t \in seeded THEN {Seeded} ELSE {}]
        /\ returning = [i \in Ids |-> NotReturning]
        /\ offered = [i \in Ids |-> IF i = Seeded THEN seats ELSE 0]
        /\ sold = [i \in Ids |-> 0] /\ sales = 0
        /\ stale = [i \in Ids |-> Copies] /\ overwritten = {}

-------------------------------------------------------------------------------
(* The foreign keys: flights RESTRICT, the airports of a city CASCADE *)

RefersToRows(t, row) ==
    CASE t = "airport" -> row.city \in Rows("city")
      [] t = "flight" -> row.plane \in Rows("airplane") /\ {row.from, row.to} \subseteq Rows("airport")
      [] OTHER -> TRUE

Holding(t, i) ==
    {f \in Rows("flight") : \/ t = "airplane" /\ db["flight"][f].plane = i
                            \/ t = "airport" /\ i \in {db["flight"][f].from, db["flight"][f].to}}
AirportsOf(i) == {a \in Rows("airport") : db["airport"][a].city = i}

-------------------------------------------------------------------------------
(* CrudRepository: each is one statement *)

(* create: the sequence gives out every id once. *)
Insert(t, i, row) ==
    /\ i \notin used[t]
    /\ RefersToRows(t, row)
    /\ db' = [db EXCEPT ![t][i] = row]
    /\ used' = [used EXCEPT ![t] = @ \cup {i}]

(* update: no row with the id is no error. *)
Update(t, i, row) ==
    /\ i \in Rows(t) => RefersToRows(t, row)
    /\ db' = IF i \in Rows(t) THEN [db EXCEPT ![t][i] = row] ELSE db
    /\ UNCHANGED used

Destroy(t, i) ==
    LET lost == IF t = "city" THEN AirportsOf(i) ELSE {} IN
    /\ Holding(t, i) = {} /\ \A a \in lost : Holding("airport", a) = {}
    /\ db' = [u \in Tables |->
                 [j \in Ids |-> IF (u = t /\ j = i) \/ (u = "airport" /\ j \in lost) THEN NoRow
                                ELSE db[u][j]]]
    /\ UNCHANGED used

-------------------------------------------------------------------------------
(* FlightService.create and update: 0 seats count as none given *)

CapacityOf(p) == IF p \in Rows("airplane") THEN db["airplane"][p].capacity ELSE 0

\* Whether the airplane is read before the write.
ReadsPlane(op, seats) == op = "create" \/ seats # 0

\* Without an airplane there is a TypeError; more seats than it has are refused.
SeatsAllowed(seats, capacity) == capacity # 0 /\ seats <= capacity

\* What create stores.
SeatsOnCreate(seats, capacity) == IF seats = 0 THEN capacity ELSE seats

(* Mutant: update has create's default. *)
SeatsOnUpdate_Default(given, seats, capacity, row) ==
    IF given /\ seats # 0 THEN seats ELSE CapacityOf(row.plane)

\* What update stores: a field that is undefined is not part of the statement.
SeatsOnUpdate(given, seats, capacity, row) == IF given THEN seats ELSE row.seats

-------------------------------------------------------------------------------
(* PATCH /internal/flights/:id/seats, for bookings made and cancelled *)

(* Mutant: a seat is taken of a flight that has none. *)
TakeSeat_Unguarded(f) ==
    /\ sales < MaxSales /\ f \in Rows("flight")
    /\ db' = [db EXCEPT !["flight"][f].seats = @ - 1]
    /\ sold' = [sold EXCEPT ![f] = @ + 1]
    /\ sales' = sales + 1
    /\ stale' = [stale EXCEPT ![f] = Copies]
    /\ UNCHANGED <<used, returning, offered, overwritten>>

TakeSeat(f) ==
    /\ sales < MaxSales
    /\ f \in Rows("flight") /\ db["flight"][f].seats >= 1
    /\ db' = [db EXCEPT !["flight"][f].seats = @ - 1]
    /\ sold' = [sold EXCEPT ![f] = @ + 1]
    /\ sales' = sales + 1
    /\ stale' = [stale EXCEPT ![f] = Copies]
    /\ UNCHANGED <<used, returning, offered, overwritten>>

(* incrementSeats reads the flight and its airplane; too many seats are an error. *)
ReturnRead(f) ==
    LET row == db["flight"][f] IN
    /\ f \in Rows("flight") /\ sold[f] > 0 /\ returning[f] = NotReturning
    /\ row.seats + 1 <= CapacityOf(row.plane)
    /\ returning' = [returning EXCEPT ![f] = row.seats]
    /\ stale' = [stale EXCEPT ![f] = @ \ {"return"}]
    /\ UNCHANGED <<db, used, offered, sold, sales, overwritten>>

(* It then writes what it read plus the seat, without a lock in between. *)
ReturnWrite(f) ==
    /\ returning[f] # NotReturning
    /\ returning' = [returning EXCEPT ![f] = NotReturning]
    /\ db' = IF f \in Rows("flight") THEN [db EXCEPT !["flight"][f].seats = returning[f] + 1] ELSE db
    /\ sold' = [sold EXCEPT ![f] = @ - 1]
    /\ overwritten' = IF "return" \in stale[f] THEN overwritten \cup {f} ELSE overwritten
    /\ stale' = [stale EXCEPT ![f] = Copies]
    /\ UNCHANGED <<used, offered, sales>>

-------------------------------------------------------------------------------
RowType ==
    [name : {"none", "no row", "city", "airport", "user"}, city : Ids \cup {0}, plane : Ids \cup {0},
     from : Ids \cup {0}, to : Ids \cup {0}, capacity : Capacities \cup {0}, seats : Nat]

CatalogTypeOK ==
    /\ db \in [Tables -> [Ids -> RowType]] /\ used \in [Tables -> SUBSET Ids]
    /\ returning \in [Ids -> Nat \cup {NotReturning}]
    /\ offered \in [Ids -> Int] /\ sold \in [Ids -> 0 .. MaxSales] /\ sales \in 0 .. MaxSales
    /\ stale \in [Ids -> SUBSET Copies] /\ overwritten \subseteq Ids

(* The seats of a flight are those the staff offered less those that bookings *)
(* hold, whatever the staff saves meanwhile, unless a number of seats was     *)
(* written back that had changed since it was read: update stores absolute    *)
(* numbers, and so does incrementSeats.                                       *)
SalesSurvive ==
    \A f \in Rows("flight") \ overwritten : db["flight"][f].seats = offered[f] - sold[f]
================================================================================
