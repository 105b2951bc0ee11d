------------------------------- MODULE AdminPage -------------------------------
(***************************************************************************)
(* The admin dashboard over the tables of FlightCatalog.  The page keeps   *)
(* the rows of a tab as it last loaded them, one id that is being edited   *)
(* and one form, whatever tab they were started in: a row of another table *)
(* with the same id shows the same form.  Save sends the whole form.       *)
(***************************************************************************)
EXTENDS FlightCatalog

CONSTANTS
    Plans,     \* what an admin is up to: the tabs worked in, and the bounds on
               \*   requests that write, seats taken and loads on their way
    MaxWrites  \* bound: the largest number of writes in Plans

ASSUME AdminAssumption ==
    /\ MaxWrites \in Nat
    /\ \A p \in Plans : p.writes \in 0 .. MaxWrites /\ p.sales \in 0 .. MaxSales

VARIABLES
    plan,
    tab,        \* activeTab
    loads,      \* tabs that loadData has asked for
    loading,
    shown,      \* shown[t]: the rows of table t as they were loaded
    editingId,  \* 0 for none
    form,       \* editFormData: the row, the table it was started from,
                \*   and whether the number of seats was typed
    write,      \* the request that is on its way, one at a time
    writes,     \* how many were sent
    switched    \* history: the tab was switched while a row was edited

pageVars == <<plan, tab, loads, loading, shown, editingId, form, writes, switched>>
adminVars == <<plan, tab, loads, loading, shown, editingId, form, write, writes, switched>>

Tabs == Tables \cup {"user", "booking"}
NoForm == [table |-> "none", row |-> Blank, typed |-> FALSE]
NoWrite == [at |-> "none", op |-> "none", table |-> "none", id |-> 0, row |-> Blank,
            given |-> FALSE, typed |-> FALSE, capacity |-> 0]

\* The one user of the users tab is a row of the authentication service.
UserRow == [Blank EXCEPT !.name = "user"]
Shown(t, i) == CASE t \in Tables -> shown[t][i]
                 [] t = "user" /\ i = Seeded -> UserRow
                 [] OTHER -> NoRow

AdminInit ==
    /\ CatalogInit
    /\ plan \in Plans
    /\ tab = "city" /\ loads = {"city"} /\ loading = TRUE
    /\ shown = [t \in Tables |-> [i \in Ids |-> NoRow]]
    /\ editingId = 0 /\ form = NoForm
    /\ write = NoWrite /\ writes = 0 /\ switched = FALSE

-------------------------------------------------------------------------------
(* Tabs and loadData *)

Load(t) ==
    /\ loads' = loads \cup {t}
    /\ loading' = TRUE

SwitchTab(t) ==
    /\ t # tab /\ t \in plan.tabs
    /\ Cardinality(loads \cup {t}) <= plan.loads
    /\ tab' = t
    /\ Load(t)
    /\ switched' = (switched \/ editingId # 0)
    /\ UNCHANGED <<catalogVars, plan, shown, editingId, form, write, writes>>

(* The answer, or an error; the first one of several ends the loading. *)
Loaded(t) ==
    /\ t \in loads
    /\ loads' = loads \ {t} /\ loading' = FALSE
    /\ \/ /\ t \in Tables
          /\ shown' = [shown EXCEPT ![t] = db[t]]
          /\ stale' = IF t = "flight" THEN [f \in Ids |-> stale[f] \ {"table"}] ELSE stale
       \/ UNCHANGED <<shown, stale>>
    /\ UNCHANGED <<plan, tab, editingId, form, write, writes, switched,
                   db, used, returning, offered, sold, sales, overwritten>>

-------------------------------------------------------------------------------
(* Editing a row *)

StartEdit(i) ==
    /\ ~loading /\ tab \in plan.tabs /\ Shown(tab, i) # NoRow /\ editingId # i
    /\ editingId' = i
    /\ form' = [table |-> tab, row |-> Shown(tab, i), typed |-> FALSE]
    /\ stale' = IF tab = "flight" /\ "table" \notin stale[i]
                THEN [stale EXCEPT ![i] = @ \ {"form"}]
                ELSE [stale EXCEPT ![i] = @ \cup {"form"}]
    /\ UNCHANGED <<plan, tab, loads, loading, shown, write, writes, switched,
                   db, used, returning, offered, sold, sales, overwritten>>

CancelEdit ==
    /\ ~loading /\ editingId # 0 /\ Shown(tab, editingId) # NoRow
    /\ editingId' = 0 /\ form' = NoForm
    /\ UNCHANGED <<catalogVars, plan, tab, loads, loading, shown, write, writes, switched>>

(* Typing into the columns of the tab the row is shown in. *)
Edited ==
    /\ ~loading /\ editingId # 0 /\ Shown(tab, editingId) # NoRow
    /\ UNCHANGED <<catalogVars, plan, tab, loads, loading, shown, editingId, write, writes, switched>>

EditName ==
    /\ tab \in {"city", "airport"} /\ form.row.name # tab
    /\ form' = [form EXCEPT !.row.name = tab]
    /\ Edited

EditCity ==
    /\ tab = "airport"
    /\ \E c \in Ids : form' = [form EXCEPT !.row.city = c]
    /\ Edited

EditCapacity ==
    /\ tab = "airplane"
    /\ \E c \in Capacities : form' = [form EXCEPT !.row.capacity = c]
    /\ Edited

EditFlight ==
    /\ tab = "flight"
    /\ \/ \E p \in Ids : form' = [form EXCEPT !.row.plane = p]
       \/ \E s \in Capacities \cup {0} : form' = [form EXCEPT !.row.seats = s, !.typed = TRUE]
    /\ Edited

-------------------------------------------------------------------------------
(* Requests *)

Request(op, t, i, row, given, typed) ==
    /\ ~loading /\ tab \in plan.tabs /\ write = NoWrite /\ writes < plan.writes
    /\ write' = [NoWrite EXCEPT !.at = "sent", !.op = op, !.table = t, !.id = i, !.row = row,
                                !.given = given, !.typed = typed]
    /\ writes' = writes + 1
    /\ UNCHANGED <<plan, tab, loads, loading, shown, editingId, form, switched>>

(* handleUpdate: seats that are still the number 0 of the row are not sent. *)
Save ==
    /\ editingId # 0 /\ Shown(tab, editingId) # NoRow
    /\ Request("update", tab, editingId, form.row, form.typed \/ form.row.seats # 0, form.typed)
    /\ stale' = IF "form" \in stale[editingId]
                THEN [stale EXCEPT ![editingId] = @ \cup {"request"}]
                ELSE [stale EXCEPT ![editingId] = @ \ {"request"}]
    /\ UNCHANGED <<db, used, returning, offered, sold, sales, overwritten>>

\* What the form of a new row may hold.
NewRows(t) ==
    CASE t = "city" -> {[Blank EXCEPT !.name = "city"]}
      [] t = "airport" -> {[Blank EXCEPT !.name = "airport", !.city = c] : c \in Ids}
      [] t = "airplane" -> {[Blank EXCEPT !.capacity = c] : c \in Capacities}
      [] t = "flight" -> {[Blank EXCEPT !.plane = new.plane, !.from = new.airport, !.to = new.airport,
                                        !.seats = new.seats] :
                             new \in [plane : Ids, airport : Ids, seats : Capacities \cup {0}]}

Create ==
    /\ tab \in Tables
    /\ \E row \in NewRows(tab) : Request("create", tab, 0, row, TRUE, TRUE)
    /\ UNCHANGED catalogVars

Delete(i) ==
    /\ Shown(tab, i) # NoRow /\ editingId # i
    /\ Request("delete", tab, i, Blank, FALSE, FALSE)
    /\ UNCHANGED catalogVars

(* handleAdminBookingAction *)
OverrideBooking ==
    /\ tab = "booking"
    /\ Request("override", tab, 0, Blank, FALSE, FALSE)
    /\ UNCHANGED catalogVars

-------------------------------------------------------------------------------
(* The services *)

Served == write' = [write EXCEPT !.at = "done"]

(* Validation, a constraint, a TypeError, a refusal, no answer.  No airplane can *)
(* be created: the request must name modelNo, the column is ModelNo.             *)
ServeReject ==
    /\ write.at \in {"sent", "read"}
    /\ write' = [write EXCEPT !.at = "failed"]
    /\ UNCHANGED <<catalogVars, pageVars>>

ServeRead ==
    /\ write.at = "sent" /\ write.table = "flight" /\ write.op \in {"create", "update"}
    /\ ReadsPlane(write.op, IF write.given THEN write.row.seats ELSE 0)
    /\ SeatsAllowed(write.row.seats, CapacityOf(write.row.plane))
    /\ write' = [write EXCEPT !.at = "read", !.capacity = CapacityOf(write.row.plane)]
    /\ UNCHANGED <<catalogVars, pageVars>>

ServeCreate ==
    /\ write.op = "create" /\ write.table # "airplane"
    /\ write.at = IF write.table = "flight" THEN "read" ELSE "sent"
    /\ \E i \in Ids :
          LET seats == IF write.table = "flight"
                       THEN SeatsOnCreate(write.row.seats, write.capacity) ELSE 0 IN
          /\ Insert(write.table, i, [write.row EXCEPT !.seats = seats])
          /\ offered' = IF write.table = "flight" THEN [offered EXCEPT ![i] = seats] ELSE offered
    /\ Served
    /\ UNCHANGED <<pageVars, returning, sold, sales, stale, overwritten>>

\* What the statement leaves in a row, by the fields that were sent: a missing name
\* is left out, a missing number makes the statement fail.
UpdatedRow(old) ==
    LET new == write.row IN
    CASE write.table \in {"city", "airport"} ->
            [old EXCEPT !.name = IF new.name = "none" THEN @ ELSE new.name,
                        !.city = IF write.table = "airport" THEN new.city ELSE @]
      [] write.table = "airplane" -> [old EXCEPT !.capacity = new.capacity]
      [] write.table = "flight" ->
            [new EXCEPT !.seats = SeatsOnUpdate(write.given, @, write.capacity, old)]

Complete ==
    CASE write.table = "airport" -> write.row.city # 0
      [] write.table = "airplane" -> write.row.capacity # 0
      [] write.table = "flight" -> write.row.plane # 0 /\ write.row.from # 0
      [] OTHER -> TRUE

ServeUpdate ==
    LET i == write.id
        old == db[write.table][i]
        isFlight == write.table = "flight" /\ i \in Rows("flight") IN
    /\ write.op = "update" /\ write.table \in Tables /\ Complete
    /\ write.at = IF /\ write.table = "flight"
                     /\ ReadsPlane("update", IF write.given THEN write.row.seats ELSE 0)
                  THEN "read" ELSE "sent"
    /\ Update(write.table, i, UpdatedRow(old))
    /\ offered' = IF isFlight /\ write.typed THEN [offered EXCEPT ![i] = write.row.seats + sold[i]]
                  ELSE offered
    /\ overwritten' = IF isFlight /\ write.given /\ ~write.typed /\ "request" \in stale[i]
                      THEN overwritten \cup {i} ELSE overwritten
    /\ stale' = IF isFlight /\ write.given THEN [stale EXCEPT ![i] = Copies] ELSE stale
    /\ Served
    /\ UNCHANGED <<pageVars, returning, sold, sales>>

ServeDelete ==
    /\ write.op = "delete" /\ write.at = "sent" /\ write.table \in Tables
    /\ Destroy(write.table, write.id)
    /\ Served
    /\ UNCHANGED <<pageVars, returning, offered, sold, sales, stale, overwritten>>

(* The authentication and the booking service: roles, users, overrides.  A role *)
(* goes to the address in the form, which only the row of a user has.           *)
ServeOther ==
    /\ write.table \in {"user", "booking"} /\ write.at = "sent"
    /\ write.op = "update" => write.row.name = "user"
    /\ Served
    /\ UNCHANGED <<catalogVars, pageVars>>

(* A toast; after a success the edit ends and the tab of the table is loaded. *)
Answered ==
    /\ write.at \in {"done", "failed"}
    /\ write' = NoWrite
    /\ IF write.at = "done" /\ write.op # "override"
       THEN /\ Load(write.table)
            /\ editingId' = IF write.op = "update" THEN 0 ELSE editingId
       ELSE UNCHANGED <<loads, loading, editingId>>
    /\ UNCHANGED <<catalogVars, plan, tab, shown, form, writes, switched>>

-------------------------------------------------------------------------------
Booking(f) ==
    /\ \/ sales < plan.sales /\ TakeSeat(f)
       \/ ReturnRead(f) \/ ReturnWrite(f)
    /\ UNCHANGED adminVars

AdminNext ==
    \/ \E t \in Tabs : SwitchTab(t) \/ Loaded(t)
    \/ \E i \in Ids : StartEdit(i) \/ Delete(i) \/ Booking(i)
    \/ EditName \/ EditCity \/ EditCapacity \/ EditFlight
    \/ CancelEdit \/ Save \/ Create \/ OverrideBooking
    \/ ServeReject \/ ServeRead \/ ServeCreate \/ ServeUpdate \/ ServeDelete \/ ServeOther
    \/ Answered

-------------------------------------------------------------------------------
AdminTypeOK ==
    /\ CatalogTypeOK /\ plan \in Plans
    /\ tab \in Tabs /\ loads \subseteq Tabs /\ loading \in BOOLEAN
    /\ shown \in [Tables -> [Ids -> RowType]]
    /\ editingId \in Ids \cup {0}
    /\ form \in [table : Tabs \cup {"none"}, row : RowType, typed : BOOLEAN]
    /\ write \in [at : {"none", "sent", "read", "done", "failed"},
                  op : {"none", "create", "update", "delete", "override"},
                  table : Tabs \cup {"none"}, id : Ids \cup {0}, row : RowType,
                  given : BOOLEAN, typed : BOOLEAN, capacity : Capacities \cup {0}]
    /\ writes \in 0 .. MaxWrites /\ switched \in BOOLEAN

(* A city has a name that was typed for a city, although the form that Save   *)
(* sends may have been started from another table's row with the same id,     *)
(* unless the tab was switched while a row was being edited.                  *)
CityNamesAreCityNames ==
    ~switched => \A i \in Rows("city") : db["city"][i].name = "city"
================================================================================
