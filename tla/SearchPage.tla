------------------------------- MODULE SearchPage -------------------------------
(***************************************************************************)
(* The home page: two boxes that suggest cities, the search form, and the  *)
(* flights that were found.  The form stays open while a search is on its  *)
(* way and after it, so what the page shows and what the form says are two *)
(* things.  Both boxes filter one list of cities, asked for once; whatever *)
(* becomes of that request is kept until the page is loaded again.         *)
(*                                                                         *)
(* Dates are left out but for the return date, which is set or not; so are *)
(* the number of passengers and the text of a box, of which only matters   *)
(* that it is no longer, or again, empty.                                  *)
(***************************************************************************)
EXTENDS Naturals, FiniteSets

CONSTANTS
    Cities,
    NoCity

ASSUME SearchAssumption == NoCity \notin Cities

VARIABLES
    value,       \* value[b]: the city chosen in box b: fromCity, toCity
    open,        \* the box whose list is open
    awaiting,    \* boxes that wait for the list of cities
    cities,      \* fetchPromise and globalCitiesCache
    tripType, returnDate, sortBy, moreFlights,
    lastSearch,  \* lastSearchRef
    searches,    \* searches on their way
    searching, searched, \* loading and searched of useFlightSearch
    flights,     \* the answer that is kept and what it answers
    selected     \* selected[leg]: the search a selected flight is from

boxVars == <<value, open, awaiting, cities>>
formVars == <<tripType, returnDate, sortBy, moreFlights>>
resultVars == <<lastSearch, searches, searching, searched, flights, selected>>
searchVars == <<boxVars, formVars, resultVars>>

Boxes == {"from", "to"}
Legs == {"outbound", "return"}
Searches == [from : Cities, to : Cities, trip : {"one-way", "round"},
             sort : {"price", "duration"}, more : BOOLEAN]
NoSearch == [trip |-> "none"]
NoFlights == [found |-> "none", by |-> NoSearch]

IsRoundTrip == tripType = "round" /\ flights.by.trip = "round"
HasResults == flights.found # "none" /\ (flights.by.trip = "round" => IsRoundTrip)
ShowMoreButton == ~moreFlights /\ HasResults /\ ~IsRoundTrip /\ flights.found = "five"
CanContinue == IsRoundTrip /\ HasResults /\ \A leg \in Legs : selected[leg] # NoSearch

SearchInit ==
    /\ value = [b \in Boxes |-> NoCity]
    /\ open = "none" /\ awaiting = {} /\ cities = "none"
    /\ tripType = "one-way" /\ returnDate = FALSE
    /\ sortBy = "price" /\ moreFlights = FALSE
    /\ lastSearch = NoSearch /\ searches = {} /\ searching = FALSE /\ searched = FALSE
    /\ flights = NoFlights /\ selected = [leg \in Legs |-> NoSearch]

-------------------------------------------------------------------------------
(* CityAutocomplete *)

(* Opening one box is a click outside of the other. *)
Focus(b) ==
    /\ open # b
    /\ open' = b
    /\ UNCHANGED <<value, awaiting, cities, formVars, resultVars>>

ClickOutside ==
    /\ open # "none"
    /\ open' = "none"
    /\ UNCHANGED <<value, awaiting, cities, formVars, resultVars>>

(* Only an empty text forgets the city that was chosen: with any other text in *)
(* the box the search is still for that city.                                  *)
TypeCity(b) ==
    /\ \E text \in {"empty", "other"} :
          value' = IF text = "empty" THEN [value EXCEPT ![b] = NoCity] ELSE value
    /\ open' = b
    /\ UNCHANGED <<awaiting, cities, formVars, resultVars>>

(* The timer of an open box: the first lookup asks for the cities, later ones share the answer. *)
Lookup(b) ==
    /\ open = b /\ b \notin awaiting /\ cities \in {"none", "asked"}
    /\ cities' = "asked" /\ awaiting' = awaiting \cup {b}
    /\ UNCHANGED <<value, open, formVars, resultVars>>

(* A promise that was rejected stays: no city is suggested from then on. *)
CitiesAnswered ==
    /\ cities = "asked"
    /\ cities' \in {"known", "broken"}
    /\ awaiting' = {}
    /\ UNCHANGED <<value, open, formVars, resultVars>>

(* The list holds the cities that match this or, for a moment, an earlier text. *)
SelectCity(b, c) ==
    /\ open = b /\ b \notin awaiting /\ cities = "known"
    /\ value' = [value EXCEPT ![b] = c]
    /\ open' = "none"
    /\ UNCHANGED <<awaiting, cities, formVars, resultVars>>

-------------------------------------------------------------------------------
(* The form *)

SetTrip(trip) ==
    /\ tripType # trip
    /\ tripType' = trip
    /\ returnDate' = IF trip = "one-way" THEN FALSE ELSE returnDate
    /\ UNCHANGED <<boxVars, sortBy, moreFlights, resultVars>>

(* Typed, or cleared, or not after the departure. *)
SetReturnDate ==
    /\ tripType = "round"
    /\ returnDate' = ~returnDate
    /\ UNCHANGED <<boxVars, tripType, sortBy, moreFlights, resultVars>>

SearchFlights(params) ==
    /\ lastSearch' = params
    /\ searches' = searches \cup {params}
    /\ searching' = TRUE /\ searched' = TRUE
    /\ UNCHANGED flights

Search ==
    /\ ~searching
    /\ value["from"] # NoCity /\ value["to"] # NoCity /\ value["from"] # value["to"]
    /\ tripType = "round" => returnDate
    /\ SearchFlights([from |-> value["from"], to |-> value["to"], trip |-> tripType,
                      sort |-> sortBy, more |-> moreFlights])
    /\ selected' = [leg \in Legs |-> NoSearch]
    /\ UNCHANGED <<boxVars, formVars>>

(* Sorting and Show all repeat the last search, whatever the form says by now. *)
SortChange(sort) ==
    /\ ~searching /\ HasResults
    /\ sortBy' = sort
    /\ SearchFlights([lastSearch EXCEPT !.sort = sort])
    /\ UNCHANGED <<boxVars, tripType, returnDate, moreFlights, selected>>

ShowMore ==
    /\ ~searching /\ ShowMoreButton
    /\ moreFlights' = TRUE
    /\ SearchFlights([lastSearch EXCEPT !.more = TRUE])
    /\ UNCHANGED <<boxVars, tripType, returnDate, sortBy, selected>>

(* The flights, or an error that leaves none; loading ends with any answer. *)
FlightsAnswered(params) ==
    /\ params \in searches
    /\ searches' = searches \ {params}
    /\ searching' = FALSE
    /\ flights' \in {NoFlights} \cup
                    [found : {"some"} \cup IF params.more THEN {} ELSE {"five"}, by : {params}]
    /\ UNCHANGED <<boxVars, formVars, lastSearch, searched, selected>>

-------------------------------------------------------------------------------
(* The lists *)

Select(leg) ==
    /\ ~searching /\ HasResults /\ IsRoundTrip
    /\ selected' = [selected EXCEPT ![leg] = flights.by]
    /\ UNCHANGED <<boxVars, formVars, lastSearch, searches, searching, searched, flights>>

SearchNext ==
    \/ \E b \in Boxes : \/ Focus(b) \/ TypeCity(b) \/ Lookup(b)
                        \/ \E c \in Cities : SelectCity(b, c)
    \/ ClickOutside \/ CitiesAnswered
    \/ \E trip \in {"one-way", "round"} : SetTrip(trip)
    \/ SetReturnDate \/ Search \/ ShowMore
    \/ \E sort \in {"price", "duration"} : SortChange(sort)
    \/ \E params \in searches : FlightsAnswered(params)
    \/ \E leg \in Legs : Select(leg)

-------------------------------------------------------------------------------
SearchTypeOK ==
    /\ value \in [Boxes -> Cities \cup {NoCity}]
    /\ open \in Boxes \cup {"none"} /\ awaiting \subseteq Boxes
    /\ cities \in {"none", "asked", "known", "broken"}
    /\ tripType \in {"one-way", "round"} /\ returnDate \in BOOLEAN
    /\ sortBy \in {"price", "duration"} /\ moreFlights \in BOOLEAN
    /\ lastSearch \in Searches \cup {NoSearch} /\ searches \subseteq Searches
    /\ searching \in BOOLEAN /\ searched \in BOOLEAN
    /\ flights \in [found : {"none", "some", "five"}, by : Searches \cup {NoSearch}]
    /\ selected \in [Legs -> Searches \cup {NoSearch}]

(* When no search runs, the flights on the page answer the last search that     *)
(* was started, in the order that is marked, and the flights selected so far    *)
(* are of its route and trip, also while it is sorted again; the two that can   *)
(* be booked together are both of one round trip.                               *)
SameTrip(s) == \A f \in {"from", "to", "trip"} : s[f] = lastSearch[f]
ResultsOfLastSearch ==
    /\ ~searching /\ flights.found # "none" => flights.by = lastSearch /\ lastSearch.sort = sortBy
    /\ \A leg \in Legs : selected[leg] # NoSearch => SameTrip(selected[leg])
    /\ CanContinue => lastSearch.trip = "round"
================================================================================
