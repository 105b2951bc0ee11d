------------------------------ MODULE BrowserProofs ------------------------------
(***************************************************************************)
(* Proofs about Browser: what the pages show, what the interceptors leave  *)
(* behind and what the dashboard saves, for any number of calls, tokens,   *)
(* bookings, cities, rows, loads and writes.  One inductive invariant for  *)
(* each part; a visit changes the state of one.                            *)
(***************************************************************************)
EXTENDS Browser, TLAPS, FiniteSetTheorems

-------------------------------------------------------------------------------
(* The password page *)

(* A request is about the email on the page unless that was typed meanwhile;  *)
(* nothing follows the last step.                                             *)
PasswordInv ==
    /\ PasswordTypeOK
    /\ awaited.of = "none" => awaited = NoRequest
    /\ Loading => awaited.email \in Emails
    /\ step = "otp" => otpId \in Emails
    /\ step = "reset" => resetToken \in Emails
    /\ step = "login" => ~Loading
    /\ reset # {} => step = "login"
    /\ ~meddled /\ Loading => awaited.email = email
    /\ ResetsItsEmail

LEMMA PasswordStart == PasswordInit => PasswordInv
<1> SUFFICES ASSUME PasswordInit PROVE PasswordInv
  OBVIOUS
<1>1. PasswordTypeOK
  BY DEF PasswordInit, PasswordTypeOK, NoRequest
<1> QED BY <1>1 DEF PasswordInit, PasswordInv, ResetsItsEmail, Loading, NoRequest

LEMMA PasswordSent ==
    ASSUME PasswordInv, Submit
    PROVE  PasswordInv'
<1> USE DEF PasswordInv, PasswordTypeOK, Loading
<1>1. /\ step \in {"email", "otp", "reset"} /\ reset = {}
      /\ UNCHANGED <<signedIn, step, email, otpId, resetToken, reset, meddled>>
  BY DEF Submit
<1>2. /\ awaited'.of = step /\ awaited'.email \in Emails
      /\ awaited' = [of |-> step, email |-> awaited'.email]
      /\ ~meddled => awaited'.email = email
  <2>1. CASE step = "email"
    BY <2>1 DEF Submit
  <2>2. CASE step = "otp"
    BY <2>2 DEF Submit, ResetsItsEmail
  <2>3. CASE step = "reset"
    BY <2>3 DEF Submit, ResetsItsEmail
  <2> QED BY <1>1, <2>1, <2>2, <2>3
<1>3. PasswordTypeOK'
  BY <1>1, <1>2
<1> QED BY <1>1, <1>2, <1>3 DEF ResetsItsEmail, NoRequest

LEMMA PasswordStep ==
    ASSUME PasswordInv, [PasswordNext]_passwordVars
    PROVE  PasswordInv'
<1> USE DEF PasswordInv, PasswordTypeOK, ResetsItsEmail, Loading, NoRequest
<1>1. CASE UNCHANGED passwordVars
  BY <1>1 DEF passwordVars
<1>2. ASSUME NEW e \in Emails, TypeEmail(e) PROVE PasswordInv'
  BY <1>2 DEF TypeEmail
<1>3. CASE UseDifferentEmail
  BY <1>3 DEF UseDifferentEmail
<1>4. CASE Submit
  BY <1>4, PasswordSent
<1>5. CASE CodeSent
  BY <1>5 DEF CodeSent
<1>6. CASE CodeVerified
  BY <1>6 DEF CodeVerified
<1>7. CASE PasswordReset
  <2>1. /\ Loading /\ reset = {} /\ reset' = {awaited.email}
        /\ step' = "login" /\ awaited' = NoRequest
        /\ UNCHANGED <<signedIn, email, otpId, resetToken, meddled>>
    BY <1>7 DEF PasswordReset
  <2> QED BY <2>1
<1>8. CASE PasswordRefused
  BY <1>8 DEF PasswordRefused
<1> QED BY <1>1, <1>2, <1>3, <1>4, <1>5, <1>6, <1>7, <1>8 DEF PasswordNext

-------------------------------------------------------------------------------
(* The search page *)

(* The one search on its way is the last one, and the flights are its answer  *)
(* or, until it comes, an earlier one's.                                      *)
SearchInv ==
    /\ SearchTypeOK
    /\ searches \subseteq {lastSearch} /\ (searching <=> searches # {})
    /\ lastSearch = NoSearch => flights = NoFlights
    /\ lastSearch = NoSearch => \A leg \in Legs : selected[leg] = NoSearch
    /\ lastSearch # NoSearch => lastSearch.sort = sortBy
    /\ flights.found # "none" => flights.by # NoSearch
    /\ ~searching /\ flights.found # "none" => flights.by = lastSearch
    /\ \A leg \in Legs : selected[leg] # NoSearch =>
          SameTrip(selected[leg]) /\ selected[leg].trip = "round"

LEMMA SearchFields ==
    ASSUME NEW s \in Searches
    PROVE  /\ s # NoSearch
           /\ \A sort \in {"price", "duration"} :
                 LET new == [s EXCEPT !.sort = sort] IN
                 /\ new \in Searches /\ new.sort = sort
                 /\ \A f \in {"from", "to", "trip"} : new[f] = s[f]
           /\ LET new == [s EXCEPT !.more = TRUE] IN
                 /\ new \in Searches /\ new.sort = s.sort
                 /\ \A f \in {"from", "to", "trip"} : new[f] = s[f]
<1>1. s # NoSearch
  <2>1. DOMAIN s = {"from", "to", "trip", "sort", "more"} /\ DOMAIN NoSearch = {"trip"}
    BY DEF Searches, NoSearch
  <2> QED BY <2>1
<1> QED BY <1>1 DEF Searches

LEMMA SearchStart == SearchInit => SearchInv
<1> SUFFICES ASSUME SearchInit PROVE SearchInv
  OBVIOUS
<1>1. SearchTypeOK
  BY DEF SearchInit, SearchTypeOK, NoFlights
<1> QED BY <1>1 DEF SearchInit, SearchInv, NoFlights

(* What the boxes and the form change is not what the results are about. *)
LEMMA SearchAside ==
    ASSUME SearchInv, SearchTypeOK', UNCHANGED <<sortBy, resultVars>>
    PROVE  SearchInv'
  BY DEF SearchInv, resultVars, SameTrip

LEMMA SearchSent ==
    ASSUME SearchInv, ~searching, NEW params \in Searches, SearchFlights(params),
           params.sort = sortBy', sortBy' \in {"price", "duration"}, moreFlights' \in BOOLEAN,
           UNCHANGED <<boxVars, tripType, returnDate>>,
           \/ selected' = [leg \in Legs |-> NoSearch]
           \/ /\ lastSearch # NoSearch /\ UNCHANGED selected
              /\ \A f \in {"from", "to", "trip"} : params[f] = lastSearch[f]
    PROVE  SearchInv'
<1>1. /\ lastSearch' = params /\ searches' = {params} /\ searching' /\ flights' = flights
      /\ params # NoSearch
  BY SearchFields DEF SearchFlights, SearchInv
<1>2. SearchTypeOK'
  BY <1>1 DEF SearchInv, SearchTypeOK, SearchFlights, boxVars
<1>3. \A leg \in Legs : selected'[leg] # NoSearch =>
          SameTrip(selected[leg])' /\ selected'[leg].trip = "round"
  BY <1>1 DEF SearchInv, SameTrip
<1> QED BY <1>1, <1>2, <1>3 DEF SearchInv

LEMMA SearchResults ==
    ASSUME SearchInv, ~searching, HasResults
    PROVE  lastSearch \in Searches /\ flights.by = lastSearch
  BY DEF SearchInv, SearchTypeOK, HasResults

LEMMA SearchStep ==
    ASSUME SearchInv, [SearchNext]_searchVars
    PROVE  SearchInv'
<1> USE DEF SearchInv
<1>1. CASE UNCHANGED searchVars
  BY <1>1 DEF searchVars, boxVars, formVars, resultVars, SearchTypeOK, SameTrip
<1>2. ASSUME NEW b \in Boxes, Focus(b) \/ TypeCity(b) \/ Lookup(b) PROVE SearchInv'
  <2>1. SearchTypeOK'
    BY <1>2 DEF Focus, TypeCity, Lookup, SearchTypeOK, boxVars, formVars, resultVars
  <2> QED BY <1>2, <2>1, SearchAside DEF Focus, TypeCity, Lookup, formVars
<1>3. ASSUME NEW b \in Boxes, NEW c \in Cities, SelectCity(b, c) PROVE SearchInv'
  <2>1. SearchTypeOK'
    BY <1>3 DEF SelectCity, SearchTypeOK, formVars, resultVars
  <2> QED BY <1>3, <2>1, SearchAside DEF SelectCity, formVars
<1>4. CASE ClickOutside \/ CitiesAnswered
  <2>1. SearchTypeOK'
    BY <1>4 DEF ClickOutside, CitiesAnswered, SearchTypeOK, formVars, resultVars
  <2> QED BY <1>4, <2>1, SearchAside DEF ClickOutside, CitiesAnswered, formVars
<1>5. ASSUME NEW trip \in {"one-way", "round"}, SetTrip(trip) PROVE SearchInv'
  <2>1. SearchTypeOK'
    BY <1>5, ZenonT(60) DEF SetTrip, SearchTypeOK, boxVars, resultVars
  <2> QED BY <1>5, <2>1, SearchAside DEF SetTrip
<1>6. CASE SetReturnDate
  <2>1. SearchTypeOK'
    BY <1>6 DEF SetReturnDate, SearchTypeOK, boxVars, resultVars
  <2> QED BY <1>6, <2>1, SearchAside DEF SetReturnDate
<1>7. CASE Search
  <2> DEFINE params == [from |-> value["from"], to |-> value["to"], trip |-> tripType,
                        sort |-> sortBy, more |-> moreFlights]
  <2>1. params \in Searches /\ params.sort = sortBy
    BY <1>7 DEF Search, SearchTypeOK, Searches, Boxes
  <2>2. /\ ~searching /\ SearchFlights(params)
        /\ UNCHANGED <<boxVars, tripType, returnDate, sortBy, moreFlights>>
        /\ selected' = [leg \in Legs |-> NoSearch]
    BY <1>7 DEF Search, formVars
  <2> HIDE DEF params
  <2> QED BY <2>1, <2>2, SearchSent DEF SearchTypeOK
<1>8. CASE ShowMore
  <2> DEFINE params == [lastSearch EXCEPT !.more = TRUE]
  <2>1. /\ ~searching /\ HasResults /\ SearchFlights(params) /\ moreFlights' = TRUE
        /\ UNCHANGED <<boxVars, tripType, returnDate, sortBy, selected>>
    BY <1>8 DEF ShowMore, ShowMoreButton
  <2>2. lastSearch \in Searches
    BY <2>1, SearchResults
  <2>3. /\ params \in Searches /\ params.sort = sortBy /\ lastSearch # NoSearch
        /\ \A f \in {"from", "to", "trip"} : params[f] = lastSearch[f]
    BY <2>2, SearchFields
  <2> HIDE DEF params
  <2> QED BY <2>1, <2>3, SearchSent DEF SearchTypeOK
<1>9. ASSUME NEW sort \in {"price", "duration"}, SortChange(sort) PROVE SearchInv'
  <2> DEFINE params == [lastSearch EXCEPT !.sort = sort]
  <2>1. /\ ~searching /\ HasResults /\ SearchFlights(params) /\ sortBy' = sort
        /\ UNCHANGED <<boxVars, tripType, returnDate, moreFlights, selected>>
    BY <1>9 DEF SortChange
  <2>2. lastSearch \in Searches
    BY <2>1, SearchResults
  <2>3. /\ params \in Searches /\ params.sort = sortBy' /\ lastSearch # NoSearch
        /\ \A f \in {"from", "to", "trip"} : params[f] = lastSearch[f]
    BY <2>1, <2>2, SearchFields
  <2> HIDE DEF params
  <2> QED BY <2>1, <2>3, SearchSent DEF SearchTypeOK
<1>10. ASSUME NEW params \in searches, FlightsAnswered(params) PROVE SearchInv'
  <2>1. /\ params = lastSearch /\ params \in Searches /\ params # NoSearch
        /\ searches' = {} /\ searching' = FALSE
        /\ UNCHANGED <<boxVars, formVars, lastSearch, searched, selected>>
    BY <1>10, SearchFields DEF FlightsAnswered, SearchTypeOK
  <2>2. \/ flights' = NoFlights
        \/ \E found \in {"some", "five"} : flights' = [found |-> found, by |-> params]
    BY <1>10 DEF FlightsAnswered
  <2>3. SearchTypeOK'
    <3>1. flights' \in [found : {"none", "some", "five"}, by : Searches \cup {NoSearch}]
      BY <2>1, <2>2 DEF NoFlights
    <3> QED BY <2>1, <3>1 DEF SearchTypeOK, boxVars, formVars
  <2>4. /\ flights'.found # "none" => flights'.by = params
    BY <2>2 DEF NoFlights
  <2> QED BY <2>1, <2>3, <2>4 DEF formVars, SameTrip
<1>11. ASSUME NEW leg \in Legs, Select(leg) PROVE SearchInv'
  <2>1. /\ ~searching /\ HasResults /\ flights.by.trip = "round"
        /\ selected' = [selected EXCEPT ![leg] = flights.by]
        /\ UNCHANGED <<boxVars, formVars, lastSearch, searches, searching, searched, flights>>
    BY <1>11 DEF Select, IsRoundTrip
  <2>2. lastSearch \in Searches /\ flights.by = lastSearch /\ lastSearch # NoSearch
    BY <2>1, SearchResults, SearchFields
  <2>3. SearchTypeOK'
    BY <2>1, <2>2 DEF SearchTypeOK, boxVars, formVars
  <2>4. \A l \in Legs : selected'[l] # NoSearch =>
            SameTrip(selected[l])' /\ selected'[l].trip = "round"
    BY <2>1, <2>2 DEF SearchTypeOK, SameTrip
  <2> QED BY <2>1, <2>2, <2>3, <2>4 DEF formVars
<1> QED
  BY <1>1, <1>2, <1>3, <1>4, <1>5, <1>6, <1>7, <1>8, <1>9, <1>10, <1>11 DEF SearchNext

LEMMA ResultsTrue == SearchInv => SearchTypeOK /\ ResultsOfLastSearch
<1> SUFFICES ASSUME SearchInv PROVE ResultsOfLastSearch
  BY DEF SearchInv
<1>1. ~searching /\ flights.found # "none" => flights.by = lastSearch /\ lastSearch.sort = sortBy
  BY DEF SearchInv
<1>2. CanContinue => lastSearch.trip = "round"
  <2>1. CanContinue => selected["return"] # NoSearch
    BY DEF CanContinue, Legs
  <2> QED BY <2>1 DEF SearchInv, SameTrip, Legs
<1> QED BY <1>1, <1>2 DEF SearchInv, ResultsOfLastSearch

-------------------------------------------------------------------------------
(* Book, Payment and My Bookings *)

Requests == [op : {"none", "book", "pay", "cancel", "refund", "expire"},
             at : {"none", "sent", "checked", "gateway", "done", "reload"},
             b : Bookings \cup {0}, got : {"none", "ok", "SUCCESS", "FAILED"}]

\* What is known of a request that writes, of the open page or of others.
RequestOf(k) ==
    /\ k.op = "none" => k = NoCall
    /\ k.op \notin {"none", "book"} => k.b \in Bookings
    /\ k.op = "book" /\ k.at = "done" => k.b \in Bookings
    /\ k.at = "gateway" => k.op = "pay" /\ payment[k.b] = "PENDING"

(* A booking is at the gateway once. *)
SlotsInv ==
    /\ \A s \in Slots : RequestOf(asked[s])
    /\ \A s, t \in Slots : /\ asked[s].at = "gateway" /\ asked[t].at = "gateway"
                           /\ asked[s].b = asked[t].b
                           => s = t

(* Each page sends its own requests, and a payment page is about one booking. *)
OwnRequests ==
    /\ page = "pay" => on \in Bookings
    /\ request.op # "expire"
    /\ request.op = "book" => page = "book" /\ on = 0
    /\ request.op = "pay" => page = "pay" /\ request.b = on /\ result = "none"
    /\ request.op \in {"cancel", "refund"} => page = "list"

(* A form that made a booking knows it, hears of it, or has lost the answer. *)
FormBooksOnce ==
    /\ made # {} => page = "book"
    /\ ~resent /\ made # {} => \E b \in Bookings : made = {b}
    /\ ~resent /\ made # {} => lost \/ on # 0 \/ (request.op = "book" /\ request.at = "done")
    /\ ~resent /\ request.op = "book" /\ request.at = "sent" => made = {}

(* What was reported as cancelled is over for good, unless a payment crossed *)
(* it, and shown so once it is loaded.                                       *)
OverForGood(b) == row[b] = "OVER" /\ ~PaymentUnderWay(b)
ReportsTrue ==
    /\ \A b \in reported \ crossed : OverForGood(b)
    /\ request.op \in {"cancel", "refund"} /\ request.at = "done" =>
          request.b \in crossed \/ OverForGood(request.b)
    /\ page = "list" /\ ~opening /\ ~failed => \A b \in reported \ crossed : seen[b] = "OVER"

(* A payment that was declined is the only one of its booking. *)
DeclinedIsOver ==
    /\ declined => page = "pay" /\ payment[on] = "FAILED" /\ result # "SUCCESS"
    /\ request.op = "pay" /\ request.at = "done" =>
          request.got \in {"SUCCESS", "FAILED"} /\ payment[on] = request.got

PagesInv ==
    BookingTypeOK /\ SlotsInv /\ OwnRequests /\ FormBooksOnce /\ ReportsTrue /\ DeclinedIsOver

LEMMA NoCallType == NoCall \in Requests /\ NoCall.op = "none" /\ NoCall.at = "none"
  BY DEF NoCall, Requests

LEMMA PageSlot == "page" \in Slots /\ request = asked["page"] /\ request' = asked'["page"]
  BY DEF Slots, request

LEMMA AskedType == BookingTypeOK => asked \in [Slots -> Requests]
  BY DEF BookingTypeOK, Requests

LEMMA PagesStart == BookingInit => PagesInv
<1> SUFFICES ASSUME BookingInit PROVE PagesInv
  OBVIOUS
<1>1. BookingTypeOK
  BY NoCallType DEF BookingInit, BookingTypeOK, Unseen, Statuses, Requests
<1>2. \A s \in Slots : asked[s] = NoCall
  BY DEF BookingInit
<1>3. request = NoCall
  BY <1>2, PageSlot
<1> QED
  BY <1>1, <1>2, <1>3, NoCallType DEF BookingInit, PagesInv, SlotsInv, OwnRequests, RequestOf,
     FormBooksOnce, ReportsTrue, DeclinedIsOver

(* The page's request is answered or given up: the slot t is the page's, or *)
(* that of the others in which the request goes on.                         *)
PageFreed(s) ==
    /\ asked' \in [Slots -> Requests] /\ request' = NoCall
    /\ \A t \in Slots \ {"page"} : asked'[t] = IF t = s THEN request ELSE asked[t]

LEMMA PageFrees ==
    ASSUME BookingTypeOK, Forget("page") \/ LeaveBehind
    PROVE  \E s \in Slots : PageFreed(s)
<1>1. CASE Forget("page")
  BY <1>1, AskedType, PageSlot, NoCallType DEF Forget, PageFreed
<1>2. CASE LeaveBehind
  <2>1. PICK s \in Others : asked' = [asked EXCEPT !["page"] = NoCall, ![s] = request]
    BY <1>2 DEF LeaveBehind
  <2>2. s \in Slots /\ s # "page"
    BY PagesAssumption DEF Slots
  <2>3. request \in Requests
    BY AskedType, PageSlot
  <2> HIDE DEF request
  <2>4. asked' \in [Slots -> Requests] /\ asked'["page"] = NoCall
    BY <2>1, <2>2, <2>3, AskedType, PageSlot, NoCallType
  <2>5. \A t \in Slots \ {"page"} : asked'[t] = IF t = s THEN request ELSE asked[t]
    BY <2>1, <2>2, AskedType, PageSlot
  <2> QED BY <2>2, <2>4, <2>5 DEF PageFreed, request
<1> QED BY <1>1, <1>2

LEMMA SlotsFreed ==
    ASSUME BookingTypeOK, SlotsInv, NEW s \in Slots, PageFreed(s), UNCHANGED rowVars
    PROVE  SlotsInv' /\ \A b : OverForGood(b) => OverForGood(b)'
<1>1. /\ asked \in [Slots -> Requests] /\ "page" \in Slots /\ asked'["page"] = NoCall
      /\ UNCHANGED <<row, payment>>
  BY AskedType, PageSlot DEF PageFreed, rowVars
<1>2. \A t \in Slots : \/ asked'[t] = NoCall
                       \/ \E u \in Slots : asked'[t] = asked[u] /\ (u = t \/ (u = "page" /\ t = s))
  BY <1>1, PageSlot DEF PageFreed
<1>3. \A t \in Slots : RequestOf(asked[t])'
  BY <1>1, <1>2, NoCallType DEF SlotsInv, RequestOf
<1>4. \A t, u \in Slots : asked'[t].at = "gateway" /\ asked'[u].at = "gateway"
                          /\ asked'[t].b = asked'[u].b => t = u
  <2> SUFFICES ASSUME NEW t \in Slots, NEW u \in Slots, asked'[t].at = "gateway",
                      asked'[u].at = "gateway", asked'[t].b = asked'[u].b
               PROVE  t = u
    OBVIOUS
  <2>1. PICK v \in Slots : asked'[t] = asked[v] /\ (v = t \/ (v = "page" /\ t = s))
    BY <1>2, NoCallType
  <2>2. PICK w \in Slots : asked'[u] = asked[w] /\ (w = u \/ (w = "page" /\ u = s))
    BY <1>2, NoCallType
  <2>3. v = w
    BY <2>1, <2>2 DEF SlotsInv
  <2>4. t # "page" /\ u # "page"
    BY <1>1, NoCallType
  <2> QED BY <2>1, <2>2, <2>3, <2>4
<1>5. \A b : PaymentUnderWay(b)' => PaymentUnderWay(b)
  BY <1>1, <1>2, NoCallType DEF PaymentUnderWay
<1> QED BY <1>1, <1>3, <1>4, <1>5 DEF SlotsInv, OverForGood

(* What the page's handlers leave alone. *)
LEMMA PagesOpened ==
    ASSUME PagesInv, NEW p \in {"book", "pay", "list"}, NEW b \in Bookings \cup {0},
           p = "pay" => b \in Bookings, Open(p, b)
    PROVE  PagesInv'
<1>1. /\ Forget("page") \/ LeaveBehind
      /\ page' = p /\ on' = b /\ opening' = TRUE
      /\ failed' = FALSE /\ seen' = Unseen /\ result' = "none" /\ made' = {}
      /\ resent' = FALSE /\ lost' = FALSE /\ reported' = {} /\ crossed' = {} /\ declined' = FALSE
      /\ UNCHANGED rowVars
  BY DEF Open
<1>2. PICK s \in Slots : PageFreed(s)
  BY <1>1, PageFrees DEF PagesInv
<1>3. BookingTypeOK'
  BY <1>1, <1>2 DEF PageFreed, PagesInv, BookingTypeOK, Unseen, Statuses, Requests, rowVars
<1>4. SlotsInv' /\ request' = NoCall
  BY <1>1, <1>2, SlotsFreed DEF PagesInv, PageFreed
<1> QED
  BY <1>1, <1>3, <1>4, NoCallType DEF PagesInv, OwnRequests, FormBooksOnce, ReportsTrue,
     DeclinedIsOver

LEMMA PagesAsked ==
    ASSUME PagesInv, NEW op \in {"book", "pay", "cancel", "refund"}, NEW b \in Bookings \cup {0},
           Ask(op, b), op = "book" => page = "book" /\ b = 0 /\ on = 0,
           op = "pay" => page = "pay" /\ b = on /\ result = "none" /\ b \in Bookings,
           op \in {"cancel", "refund"} => page = "list" /\ b \in Bookings,
           resent' \in BOOLEAN, op = "book" => resent' = (resent \/ lost),
           op # "book" => resent' = resent
    PROVE  PagesInv'
<1> DEFINE k == [op |-> op, at |-> "sent", b |-> b, got |-> "none"]
<1>1. /\ request = NoCall /\ ~opening
      /\ asked' = [asked EXCEPT !["page"] = k]
      /\ UNCHANGED <<rowVars, screenVars, made, lost, reported, crossed, declined>>
  BY DEF Ask
<1>2. k \in Requests /\ k.op = op /\ k.at = "sent" /\ k.b = b
  BY DEF Requests
<1> HIDE DEF k
<1>3. /\ asked' \in [Slots -> Requests] /\ request' = k
      /\ \A t \in Slots \ {"page"} : asked'[t] = asked[t]
  BY <1>1, <1>2, AskedType, PageSlot DEF PagesInv
<1>4. BookingTypeOK'
  BY <1>1, <1>3 DEF PagesInv, BookingTypeOK, Requests, rowVars, screenVars
<1>5. SlotsInv'
  BY <1>1, <1>2, <1>3 DEF PagesInv, SlotsInv, RequestOf, rowVars
<1>6. \A c : OverForGood(c) => OverForGood(c)'
  BY <1>1, <1>2, <1>3 DEF OverForGood, PaymentUnderWay, rowVars
<1>7. OwnRequests'
  BY <1>1, <1>2, <1>3 DEF PagesInv, OwnRequests, screenVars
<1>8. FormBooksOnce'
  BY <1>1, <1>2, <1>3, NoCallType DEF PagesInv, FormBooksOnce, screenVars
<1>9. ReportsTrue' /\ DeclinedIsOver'
  BY <1>1, <1>2, <1>3, <1>6, NoCallType DEF PagesInv, ReportsTrue, DeclinedIsOver, rowVars, screenVars
<1> QED BY <1>4, <1>5, <1>7, <1>8, <1>9 DEF PagesInv

LEMMA PagesShown == ASSUME PagesInv, PageLoaded PROVE PagesInv'
<1>1. /\ opening /\ opening' = FALSE
      /\ (failed' = FALSE /\ seen' = row) \/ (failed' = TRUE /\ seen' = seen)
      /\ UNCHANGED <<rowVars, page, on, result, visitNotes>>
  BY DEF PageLoaded
<1>2. CASE request.at = "reload"
  <2>1. PICK s \in Slots : PageFreed(s)
    BY <1>2, PageFrees DEF PageLoaded, PagesInv
  <2>2. SlotsInv' /\ request' = NoCall /\ \A b : OverForGood(b) => OverForGood(b)'
    BY <1>1, <2>1, SlotsFreed DEF PagesInv, PageFreed
  <2>3. BookingTypeOK'
    BY <1>1, <2>1 DEF PageFreed, PagesInv, BookingTypeOK, Requests, rowVars, visitNotes
  <2>4. OwnRequests' /\ FormBooksOnce'
    BY <1>1, <1>2, <2>2, NoCallType DEF PagesInv, OwnRequests, FormBooksOnce, visitNotes
  <2>5. ReportsTrue' /\ DeclinedIsOver'
    BY <1>1, <1>2, <2>2, NoCallType
       DEF PagesInv, ReportsTrue, DeclinedIsOver, OverForGood, rowVars, visitNotes
  <2> QED BY <2>2, <2>3, <2>4, <2>5 DEF PagesInv
<1>3. CASE request.at # "reload"
  <2>1. UNCHANGED asked
    BY <1>3 DEF PageLoaded
  <2>2. BookingTypeOK'
    BY <1>1, <2>1 DEF PagesInv, BookingTypeOK, rowVars, visitNotes
  <2>3. SlotsInv'
    BY <1>1, <2>1 DEF PagesInv, SlotsInv, RequestOf, rowVars
  <2>4. \A b : OverForGood(b) => OverForGood(b)'
    BY <1>1, <2>1 DEF OverForGood, PaymentUnderWay, rowVars
  <2>5. OwnRequests' /\ FormBooksOnce' /\ DeclinedIsOver'
    BY <1>1, <2>1, PageSlot
       DEF PagesInv, OwnRequests, FormBooksOnce, DeclinedIsOver, rowVars, visitNotes
  <2>6. ReportsTrue'
    BY <1>1, <2>1, <2>4, PageSlot DEF PagesInv, ReportsTrue, OverForGood, rowVars, visitNotes
  <2> QED BY <2>2, <2>3, <2>5, <2>6 DEF PagesInv
<1> QED BY <1>2, <1>3

(* A handler of the service moves on by one step, for the request k of slot s. *)
LEMMA SlotMoves ==
    ASSUME BookingTypeOK, NEW s \in Slots, NEW k \in Requests, Asked(s, k)
    PROVE  /\ asked' \in [Slots -> Requests] /\ asked'[s] \in {k, NoCall}
           /\ s = "page" => request' = k
           /\ s # "page" => request' = request
           /\ \A t \in Slots \ {s} : asked'[t] = asked[t]
<1>1. PICK q \in {k, NoCall} : asked' = [asked EXCEPT ![s] = q] /\ (s = "page" => q = k)
  BY DEF Asked
<1>2. q \in Requests
  BY <1>1, NoCallType
<1> QED BY <1>1, <1>2, AskedType, PageSlot

(* Those of the others that are at the gateway are with other payments. *)
LEMMA SlotsServed ==
    ASSUME SlotsInv, NEW s \in Slots, NEW k \in Requests, RequestOf(k)',
           asked'[s] \in {k, NoCall}, \A t \in Slots \ {s} : asked'[t] = asked[t],
           \A t \in Slots \ {s} : asked[t].at = "gateway" =>
               payment'[asked[t].b] = "PENDING" /\ (k.at = "gateway" => asked[t].b # k.b)
    PROVE  SlotsInv'
<1>1. \A t \in Slots : RequestOf(asked[t])'
  BY NoCallType DEF SlotsInv, RequestOf
<1>2. asked'[s].at = "gateway" => asked'[s] = k
  BY NoCallType
<1>3. \A t, u \in Slots : asked'[t].at = "gateway" /\ asked'[u].at = "gateway"
                          /\ asked'[t].b = asked'[u].b => t = u
  BY <1>2 DEF SlotsInv
<1> QED BY <1>1, <1>3 DEF SlotsInv

(* Something is done for others: the page sees it when it loads again. *)
LEMMA PagesElsewhere ==
    ASSUME PagesInv, BookingTypeOK', SlotsInv', \A c \in Bookings : OverForGood(c) => OverForGood(c)',
           \A c \in Bookings : payment[c] \in {"SUCCESS", "FAILED"} => payment'[c] = payment[c],
           request' = request, UNCHANGED <<screenVars, visitNotes>>
    PROVE  PagesInv'
<1>1. request \in Requests /\ reported \subseteq Bookings /\ RequestOf(request)
  BY AskedType, PageSlot DEF PagesInv, BookingTypeOK, SlotsInv
<1>2. OwnRequests' /\ FormBooksOnce'
  BY DEF PagesInv, OwnRequests, FormBooksOnce, screenVars, visitNotes
<1>3. ReportsTrue'
  BY <1>1 DEF PagesInv, ReportsTrue, RequestOf, screenVars, visitNotes
<1>4. DeclinedIsOver'
  BY DEF PagesInv, OwnRequests, DeclinedIsOver, screenVars, visitNotes
<1> QED BY <1>2, <1>3, <1>4 DEF PagesInv

(* Something is done for the page. *)
LEMMA PagesServed ==
    ASSUME PagesInv, BookingTypeOK', SlotsInv', \A c \in Bookings : OverForGood(c) => OverForGood(c)',
           \A c \in Bookings : payment[c] \in {"SUCCESS", "FAILED"} => payment'[c] = payment[c],
           NEW k \in Requests, request' = k, k.op = request.op,
           k.op = "book" => request.at = "sent" /\ k.at = "done" /\ k.b \in Bookings,
           k.op # "book" => k.b = request.b,
           k.at = "done" /\ k.op \in {"cancel", "refund"} =>
               k.b \in Bookings /\ (k.b \in crossed' \/ OverForGood(k.b)'),
           k.at = "done" /\ k.op = "pay" =>
               k.got \in {"SUCCESS", "FAILED"} /\ payment'[k.b] = k.got,
           UNCHANGED <<screenVars, resent, lost, reported, declined>>,
           made' = IF k.op = "book" THEN made \cup {k.b} ELSE made,
           crossed \subseteq crossed'
    PROVE  PagesInv'
<1>1. reported \subseteq Bookings
  BY DEF PagesInv, BookingTypeOK
<1>2. OwnRequests'
  BY DEF PagesInv, OwnRequests, screenVars
<1>3. FormBooksOnce'
  <2>1. CASE k.op = "book"
    BY <2>1 DEF PagesInv, FormBooksOnce, OwnRequests, screenVars
  <2>2. CASE k.op # "book"
    BY <2>2 DEF PagesInv, FormBooksOnce, screenVars
  <2> QED BY <2>1, <2>2
<1>4. ReportsTrue'
  <2>1. \A b \in (reported \ crossed)' : OverForGood(b)'
    BY <1>1 DEF PagesInv, ReportsTrue
  <2>2. (page = "list" /\ ~opening /\ ~failed => \A b \in reported \ crossed : seen[b] = "OVER")'
    BY DEF PagesInv, ReportsTrue, screenVars
  <2> QED BY <2>1, <2>2 DEF ReportsTrue
<1>5. DeclinedIsOver'
  BY DEF PagesInv, OwnRequests, DeclinedIsOver, screenVars
<1> QED BY <1>2, <1>3, <1>4, <1>5 DEF PagesInv

LEMMA PagesMade == ASSUME PagesInv, NEW s \in Slots, MakeBooking(s) PROVE PagesInv'
<1>1. PICK b \in Bookings :
          /\ row[b] = "none" /\ row' = [row EXCEPT ![b] = "INITIATED"]
          /\ Asked(s, [asked[s] EXCEPT !.at = "done", !.b = b, !.got = "ok"])
          /\ made' = IF s = "page" THEN made \cup {b} ELSE made
  BY DEF MakeBooking, Exists
<1>2. /\ asked[s].at = "sent" /\ asked[s].op = "book"
      /\ UNCHANGED <<payment, screenVars, resent, lost, reported, crossed, declined>>
  BY DEF MakeBooking
<1>3. PICK k \in Requests :
          /\ k = [asked[s] EXCEPT !.at = "done", !.b = b, !.got = "ok"]
          /\ k.op = "book" /\ k.at = "done" /\ k.b = b
  <2> DEFINE k == [asked[s] EXCEPT !.at = "done", !.b = b, !.got = "ok"]
  <2>1. asked[s] \in Requests
    BY AskedType DEF PagesInv
  <2>2. k \in Requests /\ k.op = "book" /\ k.at = "done" /\ k.b = b
    BY <1>2, <2>1 DEF Requests
  <2> QED BY <2>2
<1>4. /\ asked' \in [Slots -> Requests] /\ asked'[s] \in {k, NoCall}
      /\ s = "page" => request' = k
      /\ s # "page" => request' = request
      /\ \A t \in Slots \ {s} : asked'[t] = asked[t]
      /\ row \in [Bookings -> Statuses] /\ made \subseteq Bookings
  BY <1>1, <1>3, SlotMoves DEF PagesInv, BookingTypeOK
<1>5. BookingTypeOK'
  BY <1>1, <1>2, <1>3, <1>4 DEF PagesInv, BookingTypeOK, Statuses, Requests, screenVars
<1>6. SlotsInv'
  <2>1. RequestOf(k)'
    BY <1>3 DEF RequestOf
  <2>2. \A t \in Slots \ {s} : asked[t].at = "gateway" => payment'[asked[t].b] = "PENDING"
    BY <1>2 DEF PagesInv, SlotsInv, RequestOf
  <2>3. k.at # "gateway"
    BY <1>3
  <2> QED BY <1>4, <2>1, <2>2, <2>3, SlotsServed DEF PagesInv
<1>7. \A c \in Bookings : OverForGood(c) => OverForGood(c)'
  <2>1. \A c \in Bookings : PaymentUnderWay(c)' => PaymentUnderWay(c)
    <3>1. asked'[s].op # "pay" /\ payment' = payment
      BY <1>2, <1>3, <1>4, NoCallType
    <3> QED BY <1>4, <3>1 DEF PaymentUnderWay
  <2> QED BY <1>1, <1>4, <2>1 DEF OverForGood
<1>8. CASE s # "page"
  BY <1>1, <1>2, <1>4, <1>5, <1>6, <1>7, <1>8, PagesElsewhere DEF visitNotes
<1>9. CASE s = "page"
  <2>1. /\ request' = k /\ k.op = request.op /\ request.at = "sent"
        /\ k.op = "book" /\ k.at = "done" /\ k.b \in Bookings
    BY <1>2, <1>3, <1>4, <1>9, PageSlot
  <2>2. /\ UNCHANGED <<screenVars, resent, lost, reported, declined>>
        /\ made' = made \cup {k.b} /\ crossed \subseteq crossed' /\ payment' = payment
    BY <1>1, <1>2, <1>3, <1>9
  <2> QED BY <1>5, <1>6, <1>7, <2>1, <2>2, PagesServed
<1> QED BY <1>8, <1>9

(* What a step of a handler does to its slot, whatever it does to the row. *)
Advanced(s, k) ==
    /\ k.op = asked[s].op /\ k.b = asked[s].b /\ k.b \in Bookings
    /\ asked' \in [Slots -> Requests] /\ asked'[s] \in {k, NoCall}
    /\ s = "page" => request' = k
    /\ s # "page" => request' = request
    /\ \A t \in Slots \ {s} : asked'[t] = asked[t]
    /\ UNCHANGED <<screenVars, made, resent, lost, reported, declined>>

LEMMA StepOf ==
    ASSUME PagesInv, NEW s \in Slots, NEW l \in {"sent", "checked", "gateway"},
           NEW m \in {"checked", "gateway", "done"},
           NEW got \in {"none", "ok", "SUCCESS", "FAILED"}, Serve(s, l, m, got),
           asked[s].op # "none", asked[s].op # "book"
    PROVE  asked[s].at = l /\ \E k \in Requests : k.at = m /\ k.got = got /\ Advanced(s, k)
<1>1. /\ asked[s].at = l /\ Asked(s, [asked[s] EXCEPT !.at = m, !.got = got])
      /\ UNCHANGED <<screenVars, made, resent, lost, reported, declined>>
  BY DEF Serve
<1>2. asked[s] \in Requests /\ asked[s].b \in Bookings
  BY AskedType DEF PagesInv, SlotsInv, RequestOf
<1>3. PICK k \in Requests :
          /\ k = [asked[s] EXCEPT !.at = m, !.got = got]
          /\ k.op = asked[s].op /\ k.at = m /\ k.b = asked[s].b /\ k.got = got
  <2> DEFINE k == [asked[s] EXCEPT !.at = m, !.got = got]
  <2>1. k \in Requests /\ k.op = asked[s].op /\ k.at = m /\ k.b = asked[s].b /\ k.got = got
    BY <1>2 DEF Requests
  <2> QED BY <2>1
<1>4. /\ asked' \in [Slots -> Requests] /\ asked'[s] \in {k, NoCall}
      /\ s = "page" => request' = k
      /\ s # "page" => request' = request
      /\ \A t \in Slots \ {s} : asked'[t] = asked[t]
  BY <1>1, <1>3, SlotMoves DEF PagesInv
<1>5. Advanced(s, k)
  BY <1>1, <1>2, <1>3, <1>4 DEF Advanced
<1> QED BY <1>1, <1>3, <1>5

LEMMA PagesChecked == ASSUME PagesInv, NEW s \in Slots, Check(s) PROVE PagesInv'
<1>1. /\ Serve(s, "sent", "checked", "none") /\ asked[s].op # "book"
      /\ row[asked[s].b] \in AllowedFor(asked[s].op)
      /\ UNCHANGED <<row, payment, crossed>>
  BY DEF Check, rowVars
<1>2. asked[s].op # "none" /\ (asked[s].op = "pay" => row[asked[s].b] = "INITIATED")
  BY <1>1 DEF AllowedFor
<1>a. PICK k \in Requests : k.at = "checked" /\ k.got = "none" /\ Advanced(s, k)
  BY <1>1, <1>2, StepOf
<1>3. /\ k.op = asked[s].op /\ k.b = asked[s].b /\ k.b \in Bookings /\ k.at = "checked"
      /\ asked' \in [Slots -> Requests] /\ asked'[s] \in {k, NoCall}
      /\ s = "page" => request' = k
      /\ s # "page" => request' = request
      /\ \A t \in Slots \ {s} : asked'[t] = asked[t]
      /\ UNCHANGED <<screenVars, made, resent, lost, reported, declined>>
  BY <1>a DEF Advanced
<1>4. BookingTypeOK'
  BY <1>1, <1>3 DEF PagesInv, BookingTypeOK, Requests, screenVars
<1>5. SlotsInv'
  <2>1. RequestOf(k)'
    BY <1>1, <1>2, <1>3 DEF RequestOf
  <2>2. \A t \in Slots \ {s} : asked[t].at = "gateway" => payment'[asked[t].b] = "PENDING"
    BY <1>1 DEF PagesInv, SlotsInv, RequestOf
  <2> QED BY <1>3, <2>1, <2>2, SlotsServed DEF PagesInv
<1>6. \A c \in Bookings : OverForGood(c) => OverForGood(c)'
  BY <1>1, <1>2, <1>3, NoCallType DEF OverForGood, PaymentUnderWay
<1>7. CASE s # "page"
  BY <1>1, <1>3, <1>4, <1>5, <1>6, <1>7, PagesElsewhere DEF visitNotes
<1>8. CASE s = "page"
  BY <1>1, <1>2, <1>3, <1>4, <1>5, <1>6, <1>8, PageSlot, PagesServed
<1> QED BY <1>7, <1>8

LEMMA PagesBegun == ASSUME PagesInv, NEW s \in Slots, BeginPayment(s) PROVE PagesInv'
<1> DEFINE b == asked[s].b
<1>1. /\ Serve(s, "checked", "gateway", "none") /\ asked[s].op = "pay" /\ payment[b] = "none"
      /\ row' = [row EXCEPT ![b] = "PENDING"] /\ payment' = [payment EXCEPT ![b] = "PENDING"]
      /\ crossed' = crossed
  BY DEF BeginPayment
<1>a. PICK k \in Requests : k.at = "gateway" /\ k.got = "none" /\ Advanced(s, k)
  BY <1>1, StepOf
<1>2. /\ k.op = "pay" /\ k.at = "gateway" /\ k.b = b /\ b \in Bookings
      /\ asked[s].at = "checked"
      /\ asked' \in [Slots -> Requests] /\ asked'[s] \in {k, NoCall}
      /\ s = "page" => request' = k
      /\ s # "page" => request' = request
      /\ \A t \in Slots \ {s} : asked'[t] = asked[t]
      /\ UNCHANGED <<screenVars, made, resent, lost, reported, declined>>
  BY <1>1, <1>a, StepOf DEF Advanced
<1>b. s = "page" => request.op = "pay" /\ request.b = b
  BY <1>1, PageSlot
<1> HIDE DEF b
<1>3. /\ row \in [Bookings -> Statuses]
      /\ payment \in [Bookings -> {"none", "PENDING", "SUCCESS", "FAILED"}]
  BY DEF PagesInv, BookingTypeOK
<1>4. BookingTypeOK'
  BY <1>1, <1>2, <1>3 DEF PagesInv, BookingTypeOK, Statuses, Requests, screenVars
<1>5. SlotsInv'
  <2>1. RequestOf(k)'
    BY <1>1, <1>2, <1>3 DEF RequestOf
  <2>2. \A t \in Slots \ {s} : asked[t].at = "gateway" =>
            payment'[asked[t].b] = "PENDING" /\ asked[t].b # k.b
    BY <1>1, <1>2, <1>3 DEF PagesInv, SlotsInv, RequestOf
  <2> QED BY <1>2, <2>1, <2>2, SlotsServed DEF PagesInv
<1>6. \A c \in Bookings : OverForGood(c) => OverForGood(c)'
  <2>1. PaymentUnderWay(b)
    BY <1>1, <1>2 DEF PaymentUnderWay, b
  <2>2. \A c \in Bookings \ {b} : PaymentUnderWay(c)' => PaymentUnderWay(c)
    BY <1>1, <1>2, <1>3, NoCallType DEF PaymentUnderWay
  <2> QED BY <1>1, <1>3, <2>1, <2>2 DEF OverForGood
<1>7. \A c \in Bookings : payment[c] \in {"SUCCESS", "FAILED"} => payment'[c] = payment[c]
  BY <1>1, <1>3
<1>8. CASE s # "page"
  BY <1>1, <1>2, <1>4, <1>5, <1>6, <1>7, <1>8, PagesElsewhere DEF visitNotes
<1>9. CASE s = "page"
  BY <1>1, <1>2, <1>4, <1>5, <1>6, <1>7, <1>9, <1>b, PagesServed
<1> QED BY <1>8, <1>9

LEMMA PagesPaid == ASSUME PagesInv, NEW s \in Slots, EndPayment(s) PROVE PagesInv'
<1> DEFINE b == asked[s].b
<1>1. PICK got \in {"SUCCESS", "FAILED"} :
          /\ Serve(s, "gateway", "done", got) /\ payment' = [payment EXCEPT ![b] = got]
          /\ row' = [row EXCEPT ![b] = IF got = "SUCCESS" THEN "CONFIRMED" ELSE "OVER"]
  BY DEF EndPayment
<1>2. crossed' = crossed /\ asked[s].at = "gateway"
  BY <1>1 DEF EndPayment, Serve
<1>3. asked[s].op = "pay" /\ payment[b] = "PENDING"
  BY <1>2 DEF PagesInv, SlotsInv, RequestOf
<1>a. PICK k \in Requests : k.at = "done" /\ k.got = got /\ Advanced(s, k)
  BY <1>1, <1>3, StepOf
<1>4. /\ k.op = "pay" /\ k.at = "done" /\ k.b = b /\ k.got = got /\ b \in Bookings
      /\ asked' \in [Slots -> Requests] /\ asked'[s] \in {k, NoCall}
      /\ s = "page" => request' = k
      /\ s # "page" => request' = request
      /\ \A t \in Slots \ {s} : asked'[t] = asked[t]
      /\ UNCHANGED <<screenVars, made, resent, lost, reported, declined>>
  BY <1>3, <1>a DEF Advanced
<1>5. PaymentUnderWay(b) /\ \A t \in Slots \ {s} : asked[t].at = "gateway" => asked[t].b # b
  BY <1>2, <1>3 DEF PaymentUnderWay, PagesInv, SlotsInv
<1>6. s = "page" => b = request.b /\ request.op = "pay"
  BY <1>3, PageSlot
<1> HIDE DEF b
<1>7. /\ row \in [Bookings -> Statuses]
      /\ payment \in [Bookings -> {"none", "PENDING", "SUCCESS", "FAILED"}]
  BY DEF PagesInv, BookingTypeOK
<1>8. BookingTypeOK'
  BY <1>1, <1>2, <1>4, <1>7 DEF PagesInv, BookingTypeOK, Statuses, Requests, screenVars
<1>9. SlotsInv'
  <2>1. RequestOf(k)'
    BY <1>4 DEF RequestOf
  <2>2. \A t \in Slots \ {s} : asked[t].at = "gateway" => payment'[asked[t].b] = "PENDING"
    BY <1>1, <1>5, <1>7 DEF PagesInv, SlotsInv, RequestOf
  <2> QED BY <1>4, <2>1, <2>2, SlotsServed DEF PagesInv
<1>10. \A c \in Bookings : OverForGood(c) => OverForGood(c)'
  <2>1. \A c \in Bookings \ {b} : PaymentUnderWay(c)' => PaymentUnderWay(c)
    BY <1>1, <1>4, <1>7, NoCallType DEF PaymentUnderWay
  <2> QED BY <1>1, <1>5, <1>7, <2>1 DEF OverForGood
<1>11. \A c \in Bookings : payment[c] \in {"SUCCESS", "FAILED"} => payment'[c] = payment[c]
  BY <1>1, <1>3, <1>7
<1>12. CASE s # "page"
  BY <1>2, <1>4, <1>8, <1>9, <1>10, <1>11, <1>12, PagesElsewhere DEF visitNotes
<1>13. CASE s = "page"
  <2>1. payment'[b] = got
    BY <1>1, <1>4, <1>7
  <2> QED BY <1>2, <1>4, <1>6, <1>8, <1>9, <1>10, <1>11, <1>13, <2>1, PagesServed
<1> QED BY <1>12, <1>13

LEMMA PagesEnded == ASSUME PagesInv, NEW s \in Slots, EndBooking(s) PROVE PagesInv'
<1> DEFINE b == asked[s].b
<1>1. /\ asked[s].op \in {"cancel", "refund", "expire"} /\ Serve(s, "checked", "done", "ok")
      /\ row' = [row EXCEPT ![b] = "OVER"] /\ payment' = payment
      /\ crossed' = IF s = "page" /\ PaymentUnderWay(b) THEN crossed \cup {b} ELSE crossed
  BY DEF EndBooking
<1>a. PICK k \in Requests : k.at = "done" /\ k.got = "ok" /\ Advanced(s, k)
  BY <1>1, StepOf
<1>2. /\ k.op = asked[s].op /\ k.at = "done" /\ k.b = b
      /\ b \in Bookings /\ k.op \in {"cancel", "refund", "expire"}
      /\ asked' \in [Slots -> Requests] /\ asked'[s] \in {k, NoCall}
      /\ s = "page" => request' = k
      /\ s # "page" => request' = request
      /\ \A t \in Slots \ {s} : asked'[t] = asked[t]
      /\ UNCHANGED <<screenVars, made, resent, lost, reported, declined>>
  BY <1>1, <1>a DEF Advanced
<1>3. s = "page" => b = request.b /\ k.op = request.op
  BY <1>2, PageSlot
<1> HIDE DEF b
<1>4. row \in [Bookings -> Statuses] /\ crossed \subseteq Bookings
  BY DEF PagesInv, BookingTypeOK
<1>5. BookingTypeOK'
  BY <1>1, <1>2, <1>4 DEF PagesInv, BookingTypeOK, Statuses, Requests, screenVars
<1>6. SlotsInv'
  <2>1. RequestOf(k)'
    BY <1>2 DEF RequestOf
  <2> QED BY <1>1, <1>2, <2>1, SlotsServed DEF PagesInv, SlotsInv, RequestOf
<1>7. \A c \in Bookings : PaymentUnderWay(c)' => PaymentUnderWay(c)
  BY <1>1, <1>2, NoCallType DEF PaymentUnderWay
<1>8. \A c \in Bookings : OverForGood(c) => OverForGood(c)'
  BY <1>1, <1>4, <1>7 DEF OverForGood
<1>9. CASE s # "page"
  BY <1>1, <1>2, <1>5, <1>6, <1>8, <1>9, PagesElsewhere DEF visitNotes
<1>10. CASE s = "page"
  <2>1. k.b \in crossed' \/ OverForGood(k.b)'
    BY <1>1, <1>2, <1>4, <1>7, <1>10 DEF OverForGood
  <2>2. crossed \subseteq crossed'
    BY <1>1
  <2> QED BY <1>1, <1>2, <1>3, <1>5, <1>6, <1>8, <1>10, <2>1, <2>2, PagesServed
<1> QED BY <1>9, <1>10

LEMMA PagesDropped == ASSUME PagesInv, NEW s \in Slots, Drop(s) PROVE PagesInv'
<1>1. s # "page" /\ asked' = [asked EXCEPT ![s] = NoCall] /\ UNCHANGED <<rowVars, screenVars, visitNotes>>
  BY DEF Drop, Forget
<1>2. /\ asked' \in [Slots -> Requests] /\ request' = request /\ asked'[s] = NoCall
      /\ \A t \in Slots \ {s} : asked'[t] = asked[t]
      /\ UNCHANGED <<row, payment>>
  BY <1>1, AskedType, PageSlot, NoCallType DEF PagesInv, rowVars
<1>3. BookingTypeOK'
  BY <1>1, <1>2 DEF PagesInv, BookingTypeOK, Requests, screenVars, visitNotes
<1>4. SlotsInv'
  <2>1. NoCall \in Requests /\ RequestOf(NoCall)'
    BY NoCallType DEF RequestOf
  <2> QED BY <1>2, <2>1, NoCallType, SlotsServed DEF PagesInv, SlotsInv, RequestOf
<1>5. \A c \in Bookings : OverForGood(c) => OverForGood(c)'
  BY <1>2, NoCallType DEF OverForGood, PaymentUnderWay
<1> QED BY <1>1, <1>2, <1>3, <1>4, <1>5, PagesElsewhere

LEMMA PagesChanged ==
    ASSUME PagesInv, NEW s \in Others, NEW b \in Bookings, Elsewhere(s, b)
    PROVE  PagesInv'
<1>1. PICK op \in {"pay", "cancel", "refund", "expire"} :
          /\ row[b] \in AllowedFor(op)
          /\ asked' = [asked EXCEPT ![s] = [op |-> op, at |-> "checked", b |-> b, got |-> "none"]]
  BY DEF Elsewhere
<1> DEFINE k == [op |-> op, at |-> "checked", b |-> b, got |-> "none"]
<1>2. /\ s \in Slots /\ s # "page" /\ asked' = [asked EXCEPT ![s] = k]
      /\ UNCHANGED <<rowVars, screenVars, visitNotes>>
  BY <1>1, PagesAssumption DEF Elsewhere, Slots
<1>3. k \in Requests /\ k.op = op /\ k.at = "checked" /\ k.b = b
  BY DEF Requests
<1> HIDE DEF k
<1>4. /\ asked' \in [Slots -> Requests] /\ request' = request /\ asked'[s] = k
      /\ \A t \in Slots \ {s} : asked'[t] = asked[t]
      /\ UNCHANGED <<row, payment>>
  BY <1>2, <1>3, AskedType, PageSlot DEF PagesInv, rowVars
<1>5. BookingTypeOK'
  BY <1>2, <1>4 DEF PagesInv, BookingTypeOK, Requests, screenVars, visitNotes
<1>6. SlotsInv'
  <2>1. RequestOf(k)'
    BY <1>3 DEF RequestOf
  <2> QED BY <1>2, <1>3, <1>4, <2>1, SlotsServed DEF PagesInv, SlotsInv, RequestOf
<1>7. \A c \in Bookings : OverForGood(c) => OverForGood(c)'
  <2>1. op = "pay" => row[b] = "INITIATED"
    BY <1>1 DEF AllowedFor
  <2> QED BY <1>3, <1>4, <2>1 DEF OverForGood, PaymentUnderWay
<1> QED BY <1>2, <1>4, <1>5, <1>6, <1>7, PagesElsewhere

(* A request that is answered, or given up; the slots are freed as PageFrees says. *)
LEMMA PagesAnswered ==
    ASSUME PagesInv, RequestFails \/ Booked \/ PaymentAnswered
    PROVE  PagesInv'
<1>1. (Forget("page") \/ LeaveBehind) /\ UNCHANGED rowVars
  BY DEF RequestFails, Booked, PaymentAnswered
<1>2. PICK s \in Slots : PageFreed(s)
  BY <1>1, PageFrees DEF PagesInv
<1>3. /\ asked' \in [Slots -> Requests] /\ request' = NoCall /\ UNCHANGED <<row, payment>>
      /\ SlotsInv' /\ \A c : OverForGood(c) => OverForGood(c)'
  BY <1>1, <1>2, SlotsFreed DEF PagesInv, PageFreed, rowVars
<1>4. CASE RequestFails
  <2>1. /\ request.at # "none" /\ lost' \in BOOLEAN /\ (lost \/ request.at = "done" => lost')
        /\ UNCHANGED <<screenVars, made, resent, reported, crossed, declined>>
    BY <1>4 DEF RequestFails, PagesInv, BookingTypeOK
  <2>2. BookingTypeOK'
    BY <1>3, <2>1 DEF PagesInv, BookingTypeOK, Requests, screenVars
  <2>3. OwnRequests' /\ FormBooksOnce'
    BY <1>3, <2>1, NoCallType DEF PagesInv, OwnRequests, FormBooksOnce, screenVars
  <2>4. ReportsTrue' /\ DeclinedIsOver'
    BY <1>3, <2>1, NoCallType DEF PagesInv, ReportsTrue, DeclinedIsOver, screenVars
  <2> QED BY <1>3, <2>2, <2>3, <2>4 DEF PagesInv
<1>5. CASE Booked
  <2>1. /\ request.op = "book" /\ request.at = "done" /\ on' = request.b
        /\ UNCHANGED <<page, opening, failed, seen, result, visitNotes>>
    BY <1>5 DEF Booked
  <2>2. page = "book" /\ request.b \in Bookings /\ request.b # 0
    BY <2>1, AskedType, PageSlot, PagesAssumption DEF PagesInv, SlotsInv, OwnRequests, RequestOf
  <2>3. BookingTypeOK'
    BY <1>3, <2>1, <2>2 DEF PagesInv, BookingTypeOK, Requests, visitNotes
  <2>4. OwnRequests' /\ FormBooksOnce'
    BY <1>3, <2>1, <2>2, NoCallType DEF PagesInv, OwnRequests, FormBooksOnce, visitNotes
  <2>5. ReportsTrue' /\ DeclinedIsOver'
    BY <1>3, <2>1, <2>2, NoCallType DEF PagesInv, ReportsTrue, DeclinedIsOver, visitNotes
  <2> QED BY <1>3, <2>3, <2>4, <2>5 DEF PagesInv
<1>6. CASE PaymentAnswered
  <2>1. /\ request.op = "pay" /\ request.at = "done" /\ result' = request.got
        /\ declined' = (declined \/ request.got = "FAILED")
        /\ UNCHANGED <<page, on, opening, failed, seen, made, resent, lost, reported, crossed>>
    BY <1>6 DEF PaymentAnswered
  <2>2. page = "pay" /\ request.b = on
    BY <2>1 DEF PagesInv, OwnRequests
  <2>3. request.got \in {"SUCCESS", "FAILED"} /\ payment[on] = request.got
    BY <2>1 DEF PagesInv, DeclinedIsOver
  <2>4. BookingTypeOK'
    BY <1>3, <2>1, <2>3 DEF PagesInv, BookingTypeOK, Requests
  <2>5. OwnRequests' /\ FormBooksOnce'
    BY <1>3, <2>1, <2>2, NoCallType DEF PagesInv, OwnRequests, FormBooksOnce
  <2>6. ReportsTrue' /\ DeclinedIsOver'
    BY <1>3, <2>1, <2>2, <2>3, NoCallType DEF PagesInv, ReportsTrue, DeclinedIsOver
  <2> QED BY <1>3, <2>4, <2>5, <2>6 DEF PagesInv
<1> QED BY <1>4, <1>5, <1>6

LEMMA PagesReported == ASSUME PagesInv, ActionAnswered PROVE PagesInv'
<1>1. /\ request.op \in {"cancel", "refund"} /\ request.at = "done" /\ opening' = TRUE
      /\ reported' = reported \cup {request.b} /\ asked' = [asked EXCEPT !["page"].at = "reload"]
      /\ UNCHANGED <<rowVars, page, on, failed, seen, result, made, resent, lost, crossed, declined>>
  BY DEF ActionAnswered
<1>2. /\ request \in Requests /\ request.b \in Bookings /\ page = "list"
      /\ request.b \in crossed \/ OverForGood(request.b)
  BY <1>1, AskedType, PageSlot DEF PagesInv, SlotsInv, RequestOf, OwnRequests, ReportsTrue
<1>3. PICK k \in Requests :
          /\ k = [request EXCEPT !.at = "reload"]
          /\ k.op = request.op /\ k.at = "reload" /\ k.b = request.b
  <2> DEFINE k == [request EXCEPT !.at = "reload"]
  <2>1. k \in Requests /\ k.op = request.op /\ k.at = "reload" /\ k.b = request.b
    BY <1>2 DEF Requests
  <2> QED BY <2>1
<1>4. /\ asked' \in [Slots -> Requests] /\ request' = k /\ asked'["page"] = k
      /\ \A t \in Slots \ {"page"} : asked'[t] = asked[t]
      /\ UNCHANGED <<row, payment>>
  BY <1>1, <1>3, AskedType, PageSlot DEF PagesInv, rowVars
<1>5. BookingTypeOK'
  BY <1>1, <1>2, <1>4 DEF PagesInv, BookingTypeOK, Requests
<1>6. SlotsInv'
  <2>1. RequestOf(k)'
    BY <1>1, <1>2, <1>3 DEF RequestOf
  <2>2. \A t \in Slots \ {"page"} : asked[t].at = "gateway" => payment'[asked[t].b] = "PENDING"
    BY <1>4 DEF PagesInv, SlotsInv, RequestOf
  <2>3. k.at # "gateway"
    BY <1>3
  <2> QED BY <1>4, <2>1, <2>2, <2>3, PageSlot, SlotsServed DEF PagesInv
<1>7. \A c : OverForGood(c) => OverForGood(c)'
  BY <1>1, <1>3, <1>4 DEF OverForGood, PaymentUnderWay
<1>8. OwnRequests' /\ FormBooksOnce'
  BY <1>1, <1>2, <1>3, <1>4 DEF PagesInv, OwnRequests, FormBooksOnce
<1>9. ReportsTrue' /\ DeclinedIsOver'
  BY <1>1, <1>2, <1>3, <1>4, <1>7 DEF PagesInv, ReportsTrue, DeclinedIsOver
<1> QED BY <1>5, <1>6, <1>8, <1>9 DEF PagesInv

LEMMA PagesRetried == ASSUME PagesInv, RetryPayment PROVE PagesInv'
<1>1. /\ result = "FAILED" /\ result' = "none"
      /\ UNCHANGED <<row, payment, page, on, opening, failed, seen, asked,
                     made, resent, lost, reported, crossed, declined>>
  BY DEF RetryPayment, rowVars, visitNotes
<1>2. BookingTypeOK'
  BY <1>1 DEF PagesInv, BookingTypeOK
<1>3. request' = request
  BY <1>1, PageSlot
<1> QED
  BY <1>1, <1>2, <1>3 DEF PagesInv, SlotsInv, RequestOf, OwnRequests, FormBooksOnce, ReportsTrue,
     OverForGood, PaymentUnderWay, DeclinedIsOver

LEMMA PagesStep ==
    ASSUME PagesInv, [BookingNext]_bookingVars
    PROVE  PagesInv'
<1>1. CASE UNCHANGED bookingVars
  BY <1>1, PageSlot DEF bookingVars, rowVars, screenVars, visitNotes, PagesInv, BookingTypeOK, SlotsInv,
     RequestOf, OwnRequests, FormBooksOnce, ReportsTrue, OverForGood, PaymentUnderWay, DeclinedIsOver
<1>2. CASE OpenBook \/ OpenList
  BY <1>2, PagesOpened DEF OpenBook, OpenList
<1>3. ASSUME NEW b \in Bookings, OpenPayment(b) PROVE PagesInv'
  BY <1>3, PagesOpened DEF OpenPayment
<1>4. CASE ConfirmBooking
  <2>1. /\ page = "book" /\ on = 0 /\ Ask("book", 0) /\ resent' = (resent \/ lost)
        /\ resent' \in BOOLEAN
    BY <1>4 DEF ConfirmBooking, PagesInv, BookingTypeOK
  <2> QED BY <2>1, PagesAsked
<1>5. CASE Pay
  <2>1. /\ page = "pay" /\ result = "none" /\ Ask("pay", on) /\ resent' = resent
        /\ resent \in BOOLEAN /\ on \in Bookings
    BY <1>5 DEF Pay, PagesInv, BookingTypeOK, OwnRequests
  <2> QED BY <2>1, PagesAsked
<1>6. ASSUME NEW b \in Bookings, Cancel(b) \/ Refund(b) PROVE PagesInv'
  <2>1. resent \in BOOLEAN
    BY DEF PagesInv, BookingTypeOK
  <2>2. CASE Cancel(b)
    BY <2>1, <2>2, PagesAsked DEF Cancel
  <2>3. CASE Refund(b)
    BY <2>1, <2>3, PagesAsked DEF Refund
  <2> QED BY <1>6, <2>2, <2>3
<1>7. ASSUME NEW s \in Slots, MakeBooking(s) \/ Check(s) \/ BeginPayment(s) \/ EndPayment(s)
                              \/ EndBooking(s) \/ Drop(s)
      PROVE  PagesInv'
  BY <1>7, PagesMade, PagesChecked, PagesBegun, PagesPaid, PagesEnded, PagesDropped
<1> QED
  BY <1>1, <1>2, <1>3, <1>4, <1>5, <1>6, <1>7, PagesChanged, PagesShown, PagesAnswered,
     PagesReported, PagesRetried
     DEF BookingNext

LEMMA PagesTrue ==
    PagesInv => BookingTypeOK /\ OneBookingPerForm /\ CancelledIsShown /\ FailureIsFinal
<1> SUFFICES ASSUME PagesInv PROVE OneBookingPerForm /\ CancelledIsShown /\ FailureIsFinal
  BY DEF PagesInv
<1>1. OneBookingPerForm
  <2>1. SUFFICES ASSUME ~resent PROVE Cardinality(made) <= 1
    BY DEF OneBookingPerForm
  <2>2. CASE made = {}
    BY <2>2, FS_EmptySet
  <2>3. CASE made # {}
    <3>1. PICK b \in Bookings : made = {b}
      BY <2>1, <2>3 DEF PagesInv, FormBooksOnce
    <3> QED BY <3>1, FS_Singleton
  <2> QED BY <2>2, <2>3
<1>2. CancelledIsShown
  BY DEF PagesInv, ReportsTrue, OverForGood, CancelledIsShown
<1> QED BY <1>1, <1>2 DEF PagesInv, DeclinedIsOver, FailureIsFinal

-------------------------------------------------------------------------------
(* Sign-in and the interceptors *)

\* Sign-ins that were answered and are not done, and calls that may come to change
\* the sign-in state.
InFlight == {s \in Flows : sign[s].at \in {"answered", "profile"}}
Driving == {c \in Calls : call[c].at \in {"sent", "refresh", "refreshed"}}

Known(t) == t \in {0} \cup DOMAIN issued

(* Every token that is kept anywhere was issued. *)
TokensKnown ==
    /\ Known(accessToken) /\ Known(hooks.token)
    /\ \A s \in InFlight : sign[s].token \in DOMAIN issued
    /\ \A c \in Calls : Known(call[c].token) /\ Known(call[c].got)

\* What TokenMatchesUser says.
UserMatches ==
    IF accessToken = 0 THEN user = NoOne /\ hooks.token = 0
    ELSE /\ hooks.token # 0
         /\ user = issued[accessToken]
         /\ user = issued[hooks.token]

(* One change of the sign-in state at a time: between Apply and Profile the    *)
(* token is the sign-in's and the user may be the last one; otherwise they     *)
(* match.                                                                      *)
OneChange ==
    /\ \A s \in Flows : sign[s].at = "profile" =>
          accessToken = sign[s].token /\ hooks.token = sign[s].token
    /\ (\A s \in Flows : sign[s].at # "profile") => UserMatches

(* The session of the cookie is that of the only sign-in in flight, or of the  *)
(* user who is signed in; so is a token that a refresh brought.                *)
CookieMatches ==
    /\ \A s \in InFlight : InFlight = {s} /\ cookie \in Users => cookie = issued[sign[s].token]
    /\ InFlight = {} /\ user # NoOne /\ cookie \in Users => cookie = user
    /\ InFlight = {} /\ Driving # {} => accessToken # 0
    /\ InFlight = {} => \A c \in Calls :
          call[c].at = "refreshed" /\ call[c].got # 0 => issued[call[c].got] = user

AuthInv == AuthTypeOK /\ TokensKnown /\ (~overtaken => OneChange /\ CookieMatches)

CallType == [at : {"idle", "sent", "waiting", "refresh", "refreshed", "done"},
             token : 0 .. MaxTokens, retry : BOOLEAN, got : 0 .. MaxTokens]
SignType == [at : {"idle", "asked", "refused", "answered", "profile", "done"},
             token : 0 .. MaxTokens]

LEMMA Apart == Flows \cap Calls = {} /\ Leaves \subseteq Calls
  BY BrowserAssumption DEF Flows, Leaves

LEMMA AuthStart == AuthInit => AuthInv
<1> SUFFICES ASSUME AuthInit PROVE AuthInv
  OBVIOUS
<1>1. AuthTypeOK
  <2>1. call \in [Calls -> CallType]
    BY BrowserAssumption DEF AuthInit, CallType
  <2>2. sign \in [Flows -> SignType]
    BY BrowserAssumption DEF AuthInit, SignType
  <2>3. issued \in Seq(Users) /\ Len(issued) <= MaxTokens /\ live \subseteq DOMAIN issued
    BY BrowserAssumption DEF AuthInit
  <2>4. hooks \in [token : 0 .. MaxTokens, sets : BOOLEAN, clears : BOOLEAN]
    BY BrowserAssumption DEF AuthInit, NotConfigured
  <2>5. /\ able \in Loads /\ accessToken \in 0 .. MaxTokens /\ user \in Users \cup {NoOne}
        /\ isRefreshing \in BOOLEAN /\ refreshSubscribers \subseteq Calls
        /\ cookie \in Users \cup {NoOne, Ended} /\ overtaken \in BOOLEAN /\ abandoned \subseteq Calls
    <3>1. /\ able \in Loads /\ accessToken = 0 /\ user = NoOne /\ isRefreshing = FALSE
          /\ refreshSubscribers = {} /\ cookie \in Users \cup {NoOne} /\ overtaken = FALSE
          /\ abandoned = {}
      BY DEF AuthInit
    <3>2. accessToken \in 0 .. MaxTokens
      BY <3>1, BrowserAssumption
    <3> QED BY <3>1, <3>2
  <2> QED BY <2>1, <2>2, <2>3, <2>4, <2>5 DEF AuthTypeOK, CallType, SignType
<1>2. InFlight = {} /\ Driving = {}
  BY DEF AuthInit, InFlight, Driving
<1>3. TokensKnown
  BY <1>2 DEF AuthInit, TokensKnown, Known, NotConfigured
<1>4. OneChange /\ CookieMatches
  BY <1>2 DEF AuthInit, OneChange, CookieMatches, UserMatches, NotConfigured
<1> QED BY <1>1, <1>3, <1>4 DEF AuthInv

(* A change that overtook nothing met no other one. *)
LEMMA Alone ==
    ASSUME NEW a, Overtakes(a), ~overtaken'
    PROVE  ~overtaken /\ InFlight \subseteq {a} /\ Driving \subseteq {a}
  BY DEF Overtakes, InFlight, Driving

(* The service issues the next token; the ones before keep their users. *)
LEMMA Issued ==
    ASSUME AuthTypeOK, NEW u \in Users, Issue(u)
    PROVE  /\ Len(issued) + 1 \in 1 .. MaxTokens
           /\ issued' \in Seq(Users) /\ Len(issued') <= MaxTokens
           /\ DOMAIN issued' = DOMAIN issued \cup {Len(issued) + 1}
           /\ live' \subseteq DOMAIN issued'
           /\ issued'[Len(issued) + 1] = u
           /\ \A t \in DOMAIN issued : issued'[t] = issued[t]
  BY BrowserAssumption DEF AuthTypeOK, Issue

(* A step that moves one flow which is not in flight before or after. *)
LEMMA FlowAside ==
    ASSUME AuthInv, NEW s \in Flows, sign[s].at \notin {"answered", "profile"},
           NEW at \in {"idle", "asked", "refused", "done"},
           sign' = [sign EXCEPT ![s].at = at],
           UNCHANGED <<stateVars, refreshVars, call, serverVars, overtaken>>
    PROVE  AuthInv'
<1>1. /\ sign \in [Flows -> SignType] /\ sign' \in [Flows -> SignType]
      /\ sign'[s].at = at
      /\ \A f \in Flows \ {s} : sign'[f] = sign[f]
  BY DEF AuthInv, AuthTypeOK, SignType
<1>2. AuthTypeOK'
  BY <1>1 DEF AuthInv, AuthTypeOK, SignType, stateVars, refreshVars, serverVars
<1>3. InFlight' = InFlight /\ Driving' = Driving
  BY <1>1 DEF InFlight, Driving
<1>4. TokensKnown'
  BY <1>1, <1>3 DEF AuthInv, TokensKnown, Known, InFlight, stateVars, serverVars
<1>5. ASSUME ~overtaken' PROVE OneChange' /\ CookieMatches'
  <2>1. ~overtaken /\ OneChange /\ CookieMatches
    BY <1>5 DEF AuthInv
  <2>2. OneChange'
    BY <1>1, <2>1 DEF OneChange, UserMatches, stateVars, serverVars
  <2>3. CookieMatches'
    BY <1>1, <1>3, <2>1 DEF CookieMatches, InFlight, stateVars, serverVars
  <2> QED BY <2>2, <2>3
<1> QED BY <1>2, <1>4, <1>5 DEF AuthInv

(* Signing out, or a call or a restore that ends with it: nothing is left that *)
(* could match wrongly, if nothing else was in flight.                         *)
LEMMA ClearedMatches ==
    ASSUME ClearAuth, InFlight' = {}, Driving' = {},
           \A c \in Calls : call'[c].at # "refreshed"
    PROVE  OneChange' /\ CookieMatches'
<1>1. accessToken' = 0 /\ user' = NoOne /\ hooks'.token = 0
  BY DEF ClearAuth, Cleared
<1>2. \A s \in Flows : sign'[s].at # "profile"
  BY DEF InFlight
<1> QED BY <1>1, <1>2 DEF OneChange, CookieMatches, UserMatches

LEMMA FlowFails == ASSUME AuthInv, NEW s \in Flows, SignInFails(s) PROVE AuthInv'
<1> DEFINE at == IF s = "restore" THEN "done" ELSE "idle"
<1>1. /\ sign[s].at = "refused" /\ sign' = [sign EXCEPT ![s].at = at]
      /\ at \in {"idle", "done"}
      /\ UNCHANGED <<refreshVars, call, serverVars>>
  BY DEF SignInFails
<1> HIDE DEF at
<1>2. CASE UNCHANGED <<stateVars, overtaken>>
  BY <1>1, <1>2, FlowAside
<1>3. CASE ClearAuth /\ Overtakes(s)
  <2>1. /\ sign \in [Flows -> SignType] /\ sign' \in [Flows -> SignType]
        /\ sign'[s].at = at /\ \A f \in Flows \ {s} : sign'[f] = sign[f]
    BY <1>1 DEF AuthInv, AuthTypeOK, SignType
  <2>2. AuthTypeOK'
    BY <1>1, <1>3, <2>1, BrowserAssumption
       DEF AuthInv, AuthTypeOK, SignType, ClearAuth, Cleared, Overtakes, refreshVars, serverVars
  <2>3. InFlight' = InFlight /\ Driving' = Driving /\ s \notin InFlight
    BY <1>1, <2>1 DEF InFlight, Driving
  <2>4. TokensKnown'
    BY <1>1, <1>3, <2>1, <2>3
       DEF AuthInv, TokensKnown, Known, InFlight, ClearAuth, Cleared, serverVars
  <2>5. ASSUME ~overtaken' PROVE OneChange' /\ CookieMatches'
    <3>1. InFlight = {} /\ Driving \subseteq {s}
      BY <1>3, <2>3, <2>5, Alone
    <3>2. Driving = {}
      BY <3>1, Apart DEF Driving
    <3> QED BY <1>1, <1>3, <2>3, <3>1, <3>2, ClearedMatches DEF Driving
  <2> QED BY <2>2, <2>4, <2>5 DEF AuthInv
<1> QED BY <1>2, <1>3 DEF SignInFails

(* The service signs u in, or refreshes the session of the cookie. *)
LEMMA FlowAnswered ==
    ASSUME AuthInv, NEW s \in Flows, NEW u \in Users, SignInAnswered(s, u)
    PROVE  AuthInv'
<1> DEFINE t == Len(issued) + 1
<1>1. /\ sign[s].at = "asked" /\ Issue(u) /\ cookie' = u
      /\ sign' = [sign EXCEPT ![s] = [at |-> "answered", token |-> t]]
      /\ UNCHANGED <<able, stateVars, refreshVars, call, overtaken>>
  BY DEF SignInAnswered
<1>2. /\ t \in 1 .. MaxTokens
      /\ issued' \in Seq(Users) /\ Len(issued') <= MaxTokens
      /\ DOMAIN issued' = DOMAIN issued \cup {t}
      /\ live' \subseteq DOMAIN issued'
      /\ issued'[t] = u
      /\ \A i \in DOMAIN issued : issued'[i] = issued[i]
  BY <1>1, Issued DEF AuthInv
<1> HIDE DEF t
<1>3. /\ sign \in [Flows -> SignType] /\ sign' \in [Flows -> SignType]
      /\ sign'[s] = [at |-> "answered", token |-> t]
      /\ \A f \in Flows \ {s} : sign'[f] = sign[f]
  BY <1>1, <1>2, BrowserAssumption DEF AuthInv, AuthTypeOK, SignType
<1>4. AuthTypeOK'
  BY <1>1, <1>2, <1>3 DEF AuthInv, AuthTypeOK, SignType, stateVars, refreshVars
<1>5. InFlight' = InFlight \cup {s} /\ s \notin InFlight /\ Driving' = Driving
  BY <1>1, <1>3 DEF InFlight, Driving
<1>6. TokensKnown'
  <2>1. Known(accessToken)' /\ Known(hooks.token)'
    BY <1>1, <1>2 DEF AuthInv, TokensKnown, Known, stateVars
  <2>2. \A f \in InFlight' : sign'[f].token \in DOMAIN issued'
    BY <1>2, <1>3, <1>5 DEF AuthInv, TokensKnown, InFlight
  <2>3. \A c \in Calls : Known(call[c].token)' /\ Known(call[c].got)'
    BY <1>1, <1>2 DEF AuthInv, TokensKnown, Known
  <2> QED BY <2>1, <2>2, <2>3 DEF TokensKnown
<1>7. ASSUME ~overtaken' PROVE OneChange' /\ CookieMatches'
  <2>1. ~overtaken /\ OneChange /\ CookieMatches /\ TokensKnown
    BY <1>1, <1>7 DEF AuthInv
  <2>2. OneChange'
    <3>1. \A f \in Flows : sign'[f].at = "profile" => sign[f].at = "profile" /\ sign'[f] = sign[f]
      BY <1>3
    <3>2. \A f \in Flows : sign[f].at = "profile" => sign'[f].at = "profile"
      BY <1>1, <1>3
    <3>3. UserMatches => UserMatches'
      BY <1>1, <1>2, <2>1 DEF UserMatches, TokensKnown, Known, stateVars
    <3> QED BY <1>1, <2>1, <3>1, <3>2, <3>3 DEF OneChange, stateVars
  <2>3. CookieMatches'
    BY <1>1, <1>2, <1>3, <1>5 DEF CookieMatches
  <2> QED BY <2>2, <2>3
<1> QED BY <1>4, <1>6, <1>7 DEF AuthInv

LEMMA FlowApplies == ASSUME AuthInv, NEW s \in Flows, Apply(s) PROVE AuthInv'
<1>1. /\ sign[s].at = "answered" /\ sign' = [sign EXCEPT ![s].at = "profile"]
      /\ accessToken' = sign[s].token /\ hooks' = Configured(sign[s].token)
      /\ Overtakes(s) /\ UNCHANGED <<user, refreshVars, call, serverVars>>
  BY DEF Apply, SetAccessToken
<1>2. /\ sign \in [Flows -> SignType] /\ sign' \in [Flows -> SignType]
      /\ sign'[s].at = "profile" /\ sign'[s].token = sign[s].token
      /\ \A f \in Flows \ {s} : sign'[f] = sign[f]
  BY <1>1 DEF AuthInv, AuthTypeOK, SignType
<1>3. AuthTypeOK'
  BY <1>1, <1>2
     DEF AuthInv, AuthTypeOK, SignType, Configured, Overtakes, refreshVars, serverVars
<1>4. InFlight' = InFlight /\ Driving' = Driving /\ s \in InFlight
  BY <1>1, <1>2 DEF InFlight, Driving
<1>5. TokensKnown'
  <2>1. accessToken' \in DOMAIN issued /\ hooks'.token = accessToken'
    BY <1>1, <1>4 DEF AuthInv, TokensKnown, Configured
  <2>2. \A f \in InFlight : sign'[f].token = sign[f].token
    BY <1>2 DEF InFlight
  <2> QED BY <1>1, <1>4, <2>1, <2>2 DEF AuthInv, TokensKnown, Known, serverVars
<1>6. ASSUME ~overtaken' PROVE OneChange' /\ CookieMatches'
  <2>1. /\ ~overtaken /\ OneChange /\ CookieMatches
        /\ InFlight = {s} /\ Driving \subseteq {s}
    BY <1>1, <1>4, <1>6, Alone DEF AuthInv
  <2>2. OneChange'
    <3>1. \A f \in Flows : sign'[f].at = "profile" => f = s
      BY <1>4, <2>1 DEF InFlight
    <3> QED BY <1>1, <1>2, <3>1 DEF OneChange, Configured
  <2>3. CookieMatches'
    BY <1>1, <1>2, <1>4, <2>1 DEF CookieMatches, serverVars
  <2> QED BY <2>2, <2>3
<1> QED BY <1>3, <1>5, <1>6 DEF AuthInv

LEMMA FlowEnds == ASSUME AuthInv, NEW s \in Flows, Profile(s) PROVE AuthInv'
<1> DEFINE at == IF s = "restore" THEN "done" ELSE "idle"
<1>1. /\ sign[s].at = "profile" /\ sign' = [sign EXCEPT ![s] = [at |-> at, token |-> 0]]
      /\ at \in {"done", "idle"} /\ user' = issued[sign[s].token]
      /\ Overtakes(s) /\ UNCHANGED <<hooks, accessToken, refreshVars, call, serverVars>>
  BY DEF Profile
<1> HIDE DEF at
<1>2. /\ sign \in [Flows -> SignType] /\ sign' \in [Flows -> SignType]
      /\ sign'[s].at = at /\ \A f \in Flows \ {s} : sign'[f] = sign[f]
  BY <1>1, BrowserAssumption DEF AuthInv, AuthTypeOK, SignType
<1>3. InFlight' = InFlight \ {s} /\ Driving' = Driving /\ s \in InFlight
  BY <1>1, <1>2 DEF InFlight, Driving
<1>4. sign[s].token \in DOMAIN issued /\ user' \in Users
  BY <1>1, <1>3 DEF AuthInv, TokensKnown, AuthTypeOK
<1>5. AuthTypeOK'
  BY <1>1, <1>2, <1>4 DEF AuthInv, AuthTypeOK, SignType, Overtakes, refreshVars, serverVars
<1>6. TokensKnown'
  BY <1>1, <1>2, <1>3 DEF AuthInv, TokensKnown, Known, InFlight, serverVars
<1>7. ASSUME ~overtaken' PROVE OneChange' /\ CookieMatches'
  <2>1. /\ ~overtaken /\ OneChange /\ CookieMatches
        /\ InFlight = {s} /\ Driving \subseteq {s}
    BY <1>1, <1>3, <1>7, Alone DEF AuthInv
  <2>2. Driving = {}
    BY <2>1, Apart DEF Driving
  <2>3. accessToken = sign[s].token /\ hooks.token = sign[s].token /\ accessToken # 0
    BY <1>1, <1>4, <2>1 DEF OneChange, AuthInv, AuthTypeOK
  <2>4. OneChange'
    <3>1. UserMatches'
      BY <1>1, <2>3 DEF UserMatches, serverVars
    <3> QED BY <1>3, <2>1, <3>1 DEF OneChange, InFlight
  <2>5. CookieMatches'
    <3>1. cookie \in Users => cookie = user'
      BY <1>1, <1>3, <2>1 DEF CookieMatches
    <3> QED BY <1>1, <1>3, <2>1, <2>2, <3>1 DEF CookieMatches, Driving, serverVars
  <2> QED BY <2>4, <2>5
<1> QED BY <1>5, <1>6, <1>7 DEF AuthInv

LEMMA FlowSteps == ASSUME AuthInv, NEW s \in Flows, FlowStep(s) PROVE AuthInv'
<1>1. CASE SignIn(s)
  BY <1>1, FlowAside DEF SignIn
<1>2. CASE SignInRefused(s)
  BY <1>2, FlowAside DEF SignInRefused
<1> QED BY <1>1, <1>2, FlowFails, FlowApplies, FlowEnds, FlowAnswered DEF FlowStep

(* A call that moves on without touching the sign-in state; a session may end. *)
LEMMA CallQuiet ==
    ASSUME AuthInv, NEW c \in Calls, NEW k \in CallType, call' = [call EXCEPT ![c] = k],
           Known(k.token), Known(k.got), k.at # "refreshed",
           k.at \in {"sent", "refresh"} => IsAuthenticated \/ c \in Driving,
           isRefreshing' \in BOOLEAN, refreshSubscribers' \subseteq Calls,
           abandoned' \subseteq Calls, cookie' \in {cookie, NoOne, Ended},
           UNCHANGED <<stateVars, sign, able, issued, live, overtaken>>
    PROVE  AuthInv'
<1>1. /\ call \in [Calls -> CallType] /\ call' \in [Calls -> CallType] /\ call'[c] = k
      /\ \A d \in Calls \ {c} : call'[d] = call[d]
  BY DEF AuthInv, AuthTypeOK, CallType
<1>2. AuthTypeOK'
  BY <1>1 DEF AuthInv, AuthTypeOK, CallType, stateVars
<1>3. InFlight' = InFlight
  BY DEF InFlight
<1>4. TokensKnown'
  BY <1>1, <1>3 DEF AuthInv, TokensKnown, Known, stateVars, InFlight
<1>5. ASSUME ~overtaken' PROVE OneChange' /\ CookieMatches'
  <2>1. ~overtaken /\ OneChange /\ CookieMatches
    BY <1>5 DEF AuthInv
  <2>2. OneChange'
    BY <2>1 DEF OneChange, UserMatches, stateVars
  <2>3. Driving' # {} => Driving # {} \/ accessToken # 0
    BY <1>1 DEF Driving, IsAuthenticated
  <2>4. CookieMatches'
    BY <1>1, <1>3, <2>1, <2>3, BrowserAssumption DEF CookieMatches, stateVars
  <2> QED BY <2>2, <2>4
<1> QED BY <1>2, <1>4, <1>5 DEF AuthInv

(* A call that settles and clears the sign-in state: logout, deleteAccount, or *)
(* onLogout after a refresh that failed.                                       *)
LEMMA CallClears ==
    ASSUME AuthInv, NEW c \in Calls, call' = [call EXCEPT ![c].at = "done"],
           ClearAuth, Overtakes(c),
           isRefreshing' \in BOOLEAN, refreshSubscribers' \subseteq Calls,
           abandoned' \subseteq Calls, cookie' \in {cookie, NoOne, Ended},
           UNCHANGED <<sign, able, issued, live>>
    PROVE  AuthInv'
<1>1. /\ call \in [Calls -> CallType] /\ call' \in [Calls -> CallType]
      /\ call'[c] = [call[c] EXCEPT !.at = "done"]
      /\ \A d \in Calls \ {c} : call'[d] = call[d]
  BY ZenonT(60) DEF AuthInv, AuthTypeOK, CallType
<1>2. accessToken' = 0 /\ user' = NoOne /\ hooks' = Cleared
  BY DEF ClearAuth
<1>3. AuthTypeOK'
  BY <1>1, <1>2, BrowserAssumption DEF AuthInv, AuthTypeOK, CallType, Cleared, Overtakes
<1>4. InFlight' = InFlight
  BY DEF InFlight
<1>5. TokensKnown'
  BY <1>1, <1>2, <1>4 DEF AuthInv, TokensKnown, Known, Cleared, InFlight, CallType
<1>6. ASSUME ~overtaken' PROVE OneChange' /\ CookieMatches'
  <2>1. InFlight \subseteq {c} /\ Driving \subseteq {c}
    BY <1>6, Alone
  <2>2. InFlight' = {}
    BY <1>4, <2>1, Apart DEF InFlight
  <2>3. \A d \in Calls : call'[d].at \notin {"sent", "refresh", "refreshed"}
    BY <1>1, <2>1 DEF Driving, CallType
  <2> QED BY <2>2, <2>3, ClearedMatches DEF Driving
<1> QED BY <1>3, <1>5, <1>6 DEF AuthInv

\* Where a call can be when it settles.
LEMMA CallSettles ==
    ASSUME AuthInv, NEW c \in Calls, Settled(c, call),
           isRefreshing' \in BOOLEAN, refreshSubscribers' \subseteq Calls,
           abandoned' \subseteq Calls, cookie' \in {cookie, NoOne, Ended},
           UNCHANGED <<sign, able, issued, live>>
    PROVE  AuthInv'
<1>1. call' = [call EXCEPT ![c].at = "done"]
  BY DEF Settled
<1>2. CASE c \in Leaves
  BY <1>1, <1>2, CallClears DEF Settled
<1>3. CASE c \notin Leaves
  <2> DEFINE k == [call[c] EXCEPT !.at = "done"]
  <2>1. k \in CallType /\ k.at = "done" /\ k.token = call[c].token /\ k.got = call[c].got
    BY DEF AuthInv, AuthTypeOK, CallType
  <2>2. call' = [call EXCEPT ![c] = k]
    BY <1>1
  <2>3. Known(call[c].token) /\ Known(call[c].got)
    BY DEF AuthInv, TokensKnown
  <2> HIDE DEF k
  <2> QED BY <1>3, <2>1, <2>2, <2>3, CallQuiet DEF Settled
<1> QED BY <1>2, <1>3

LEMMA CallSent == ASSUME AuthInv, NEW c \in Calls, Send(c) PROVE AuthInv'
<1> DEFINE k == [call[c] EXCEPT !.at = "sent", !.token = IF hooks.token # 0 THEN hooks.token ELSE 0]
<1>1. /\ call' = [call EXCEPT ![c] = k] /\ IsAuthenticated
      /\ UNCHANGED <<stateVars, refreshVars, sign, serverVars, overtaken>>
  BY DEF Send, Sent
<1>2. k \in CallType /\ k.at = "sent" /\ k.token = hooks.token /\ k.got = call[c].got
  <2>1. call[c] \in CallType /\ hooks.token \in 0 .. MaxTokens
    BY DEF AuthInv, AuthTypeOK, CallType
  <2>2. k = [call[c] EXCEPT !.at = "sent", !.token = hooks.token]
    OBVIOUS
  <2> HIDE DEF k
  <2> QED BY <2>1, <2>2 DEF CallType
<1>3. Known(hooks.token) /\ Known(call[c].got)
  BY DEF AuthInv, TokensKnown
<1>4. /\ isRefreshing \in BOOLEAN /\ refreshSubscribers \subseteq Calls /\ abandoned \subseteq Calls
  BY DEF AuthInv, AuthTypeOK
<1> HIDE DEF k
<1> QED BY <1>1, <1>2, <1>3, <1>4, CallQuiet DEF refreshVars, serverVars

(* A 401: the call waits, or starts a refresh, or gives up. *)
LEMMA CallRefused == ASSUME AuthInv, NEW c \in Calls, Refuse(c) PROVE AuthInv'
<1>1. /\ call[c] \in CallType /\ isRefreshing \in BOOLEAN
      /\ refreshSubscribers \subseteq Calls /\ abandoned \subseteq Calls
  BY DEF AuthInv, AuthTypeOK, CallType
<1>2. call[c].at = "sent" /\ UNCHANGED <<abandoned, sign, able, cookie, issued, live>>
  BY DEF Refuse, serverVars
<1>3. Known(call[c].token) /\ Known(call[c].got)
  BY DEF AuthInv, TokensKnown
<1>4. CASE /\ refreshSubscribers' = refreshSubscribers \cup {c}
           /\ call' = [call EXCEPT ![c].at = "waiting"]
           /\ UNCHANGED <<stateVars, isRefreshing, overtaken>>
  <2> DEFINE k == [call[c] EXCEPT !.at = "waiting"]
  <2>1. k \in CallType /\ k.at = "waiting" /\ k.token = call[c].token /\ k.got = call[c].got
    BY <1>1 DEF CallType
  <2>2. call' = [call EXCEPT ![c] = k]
    BY <1>4
  <2> HIDE DEF k
  <2> QED BY <1>1, <1>2, <1>3, <1>4, <2>1, <2>2, CallQuiet
<1>5. CASE /\ isRefreshing' = TRUE
           /\ call' = [call EXCEPT ![c].retry = TRUE, ![c].at = "refresh"]
           /\ UNCHANGED <<stateVars, refreshSubscribers, overtaken>>
  <2> DEFINE k == [call[c] EXCEPT !.retry = TRUE, !.at = "refresh"]
  <2>1. k \in CallType /\ k.at = "refresh" /\ k.token = call[c].token /\ k.got = call[c].got
    BY <1>1 DEF CallType
  <2>2. call' = [call EXCEPT ![c] = k]
    BY <1>1, <1>5 DEF AuthInv, AuthTypeOK
  <2>3. c \in Driving
    BY <1>2 DEF Driving
  <2> HIDE DEF k
  <2> QED BY <1>1, <1>2, <1>3, <1>5, <2>1, <2>2, <2>3, CallQuiet
<1>6. CASE Settled(c, call) /\ UNCHANGED <<isRefreshing, refreshSubscribers>>
  BY <1>1, <1>2, <1>6, CallSettles
<1> QED BY <1>4, <1>5, <1>6 DEF Refuse

LEMMA CallDone == ASSUME AuthInv, NEW c \in Calls, Succeed(c) \/ Break(c) PROVE AuthInv'
<1>1. /\ Settled(c, call) /\ UNCHANGED <<refreshVars, sign, able, issued, live>>
      /\ cookie' \in {cookie, NoOne, Ended}
  BY DEF Succeed, Break, serverVars
<1>2. /\ isRefreshing \in BOOLEAN /\ refreshSubscribers \subseteq Calls /\ abandoned \subseteq Calls
  BY DEF AuthInv, AuthTypeOK
<1> QED BY <1>1, <1>2, CallSettles DEF refreshVars

(* POST /auth/refresh: a token for whoever the cookie's session is of. *)
LEMMA CallRefreshes == ASSUME AuthInv, NEW c \in Calls, RefreshAnswered(c) PROVE AuthInv'
<1>1. /\ call[c].at = "refresh"
      /\ UNCHANGED <<stateVars, refreshVars, sign, able, cookie, overtaken>>
  BY DEF RefreshAnswered
<1>2. PICK t \in 0 .. MaxTokens :
          /\ call' = [call EXCEPT ![c].at = "refreshed", ![c].got = t]
          /\ issued' \in Seq(Users) /\ Len(issued') <= MaxTokens /\ live' \subseteq DOMAIN issued'
          /\ DOMAIN issued \subseteq DOMAIN issued'
          /\ \A i \in DOMAIN issued : issued'[i] = issued[i]
          /\ t # 0 => t \in DOMAIN issued' /\ cookie \in Users /\ issued'[t] = cookie
  <2>1. CASE /\ cookie \in Users /\ Issue(cookie)
             /\ call' = [call EXCEPT ![c].at = "refreshed", ![c].got = Len(issued) + 1]
    <3>1. /\ Len(issued) + 1 \in 1 .. MaxTokens
          /\ issued' \in Seq(Users) /\ Len(issued') <= MaxTokens
          /\ DOMAIN issued' = DOMAIN issued \cup {Len(issued) + 1}
          /\ live' \subseteq DOMAIN issued'
          /\ issued'[Len(issued) + 1] = cookie
          /\ \A t \in DOMAIN issued : issued'[t] = issued[t]
      BY <2>1, Issued DEF AuthInv
    <3>2. Len(issued) + 1 \in 0 .. MaxTokens
      BY <3>1, BrowserAssumption
    <3> QED BY <2>1, <3>1, <3>2
  <2>2. CASE /\ call' = [call EXCEPT ![c].at = "refreshed", ![c].got = 0]
             /\ UNCHANGED <<issued, live>>
    <3>1. /\ issued' \in Seq(Users) /\ Len(issued') <= MaxTokens /\ live' \subseteq DOMAIN issued'
          /\ DOMAIN issued \subseteq DOMAIN issued'
          /\ \A i \in DOMAIN issued : issued'[i] = issued[i]
      BY <2>2 DEF AuthInv, AuthTypeOK
    <3>2. 0 \in 0 .. MaxTokens
      BY BrowserAssumption
    <3> QED BY <2>2, <3>1, <3>2
  <2> QED BY <2>1, <2>2 DEF RefreshAnswered
<1>3. /\ call \in [Calls -> CallType] /\ call' \in [Calls -> CallType]
      /\ call'[c].at = "refreshed" /\ call'[c].got = t /\ call'[c].token = call[c].token
      /\ \A d \in Calls \ {c} : call'[d] = call[d]
  <2>1. call \in [Calls -> CallType]
    BY DEF AuthInv, AuthTypeOK, CallType
  <2>2. call' = [call EXCEPT ![c] = [call[c] EXCEPT !.at = "refreshed", !.got = t]]
    BY <1>2, <2>1
  <2>3. [call[c] EXCEPT !.at = "refreshed", !.got = t] \in CallType
    BY <2>1 DEF CallType
  <2> QED BY <2>1, <2>2, <2>3 DEF CallType
<1>4. AuthTypeOK'
  BY <1>1, <1>2, <1>3 DEF AuthInv, AuthTypeOK, CallType, stateVars, refreshVars
<1>5. InFlight' = InFlight /\ Driving' = Driving /\ c \in Driving
  BY <1>1, <1>3 DEF InFlight, Driving
<1>6. TokensKnown'
  <2>1. Known(accessToken)' /\ Known(hooks.token)'
    BY <1>1, <1>2 DEF AuthInv, TokensKnown, Known, stateVars
  <2>2. \A f \in InFlight' : sign'[f].token \in DOMAIN issued'
    BY <1>1, <1>2, <1>5 DEF AuthInv, TokensKnown
  <2>3. \A d \in Calls : Known(call[d].token)' /\ Known(call[d].got)'
    BY <1>2, <1>3 DEF AuthInv, TokensKnown, Known
  <2> QED BY <2>1, <2>2, <2>3 DEF TokensKnown
<1>7. ASSUME ~overtaken' PROVE OneChange' /\ CookieMatches'
  <2>1. ~overtaken /\ OneChange /\ CookieMatches /\ TokensKnown
    BY <1>1, <1>7 DEF AuthInv
  <2>2. OneChange'
    <3>1. UserMatches => UserMatches'
      BY <1>1, <1>2, <2>1 DEF UserMatches, TokensKnown, Known, stateVars
    <3> QED BY <1>1, <2>1, <3>1 DEF OneChange, stateVars
  <2>3. \A s \in InFlight : issued'[sign[s].token] = issued[sign[s].token]
    BY <1>2, <2>1 DEF TokensKnown
  <2>4. InFlight = {} => user # NoOne
    BY <1>5, <2>1, BrowserAssumption
       DEF OneChange, CookieMatches, UserMatches, InFlight, AuthInv, AuthTypeOK, TokensKnown, Known
  <2>5. InFlight = {} => \A d \in Calls :
            call'[d].at = "refreshed" /\ call'[d].got # 0 => issued'[call'[d].got] = user
    <3>1. SUFFICES ASSUME InFlight = {}, NEW d \in Calls,
                          call'[d].at = "refreshed", call'[d].got # 0
                   PROVE  issued'[call'[d].got] = user
      OBVIOUS
    <3>2. CASE d = c
      BY <1>2, <1>3, <2>1, <2>4, <3>1, <3>2 DEF CookieMatches
    <3>3. CASE d # c
      BY <1>2, <1>3, <2>1, <3>1, <3>3 DEF CookieMatches, TokensKnown, Known
    <3> QED BY <3>2, <3>3
  <2>6. CookieMatches'
    BY <1>1, <1>5, <2>1, <2>3, <2>5 DEF CookieMatches, stateVars
  <2> QED BY <2>2, <2>6
<1> QED BY <1>4, <1>6, <1>7 DEF AuthInv

(* setToken, and all who waited are sent again. *)
LEMMA CallRefreshed == ASSUME AuthInv, NEW c \in Calls, Refreshed(c) PROVE AuthInv'
<1> DEFINE t == call[c].got
           again == refreshSubscribers \cup {c}
<1>1. /\ call[c].at = "refreshed" /\ t # 0
      /\ accessToken' = IF hooks.sets THEN t ELSE accessToken
      /\ call' = [k \in Calls |-> IF k \in again THEN Sent(call[k], t) ELSE call[k]]
      /\ refreshSubscribers' = {} /\ isRefreshing' = FALSE /\ Overtakes(c)
      /\ UNCHANGED <<hooks, user, abandoned, sign, serverVars>>
  BY DEF Refreshed
<1>2. call \in [Calls -> CallType] /\ t \in DOMAIN issued /\ t \in 0 .. MaxTokens
  BY <1>1 DEF AuthInv, AuthTypeOK, CallType, TokensKnown, Known
<1>3. \A k \in Calls : /\ Sent(call[k], t) \in CallType /\ Sent(call[k], t).at = "sent"
                       /\ Sent(call[k], t).token \in {hooks.token, t}
                       /\ Sent(call[k], t).got = call[k].got
  BY <1>2, ZenonT(60) DEF Sent, CallType, AuthInv, AuthTypeOK
<1> HIDE DEF t, again
<1>4. /\ call' \in [Calls -> CallType]
      /\ \A k \in again \cap Calls : call'[k].at = "sent" /\ call'[k].token \in {hooks.token, t}
      /\ \A k \in Calls : call'[k].got = call[k].got
      /\ \A k \in Calls \ again : call'[k] = call[k]
  BY <1>1, <1>2, <1>3
<1>5. AuthTypeOK'
  BY <1>1, <1>2, <1>4 DEF AuthInv, AuthTypeOK, CallType, Overtakes, serverVars
<1>6. InFlight' = InFlight
  BY <1>1 DEF InFlight
<1>7. TokensKnown'
  <2>1. Known(accessToken)' /\ Known(hooks.token)'
    BY <1>1, <1>2 DEF AuthInv, TokensKnown, Known, serverVars
  <2>2. \A k \in Calls : Known(call[k].token)' /\ Known(call[k].got)'
    BY <1>1, <1>2, <1>4 DEF AuthInv, TokensKnown, Known, serverVars
  <2> QED BY <1>1, <1>6, <2>1, <2>2 DEF AuthInv, TokensKnown, serverVars
<1>8. ASSUME ~overtaken' PROVE OneChange' /\ CookieMatches'
  <2>1. /\ ~overtaken /\ OneChange /\ CookieMatches
        /\ InFlight \subseteq {c} /\ Driving \subseteq {c}
    BY <1>1, <1>8, Alone DEF AuthInv
  <2>2. InFlight = {} /\ c \in Driving
    BY <1>1, <2>1, Apart DEF InFlight, Driving
  <2>3. issued[t] = user /\ accessToken # 0 /\ UserMatches
    BY <1>1, <2>1, <2>2 DEF CookieMatches, OneChange, InFlight, t
  <2>4. accessToken' # 0 /\ UserMatches'
    BY <1>1, <2>3 DEF UserMatches, serverVars
  <2>5. \A k \in Calls : call'[k].at # "refreshed"
    BY <1>4, <2>1 DEF Driving, again
  <2>6. OneChange'
    BY <1>1, <1>6, <2>2, <2>4 DEF OneChange, InFlight
  <2>7. CookieMatches'
    BY <1>1, <1>6, <2>1, <2>2, <2>4, <2>5 DEF CookieMatches, serverVars
  <2> QED BY <2>6, <2>7
<1> QED BY <1>5, <1>7, <1>8 DEF AuthInv

LEMMA CallRefreshFails == ASSUME AuthInv, NEW c \in Calls, RefreshFailed(c) PROVE AuthInv'
<1>1. /\ call' = [call EXCEPT ![c].at = "done"]
      /\ abandoned' = abandoned \cup refreshSubscribers /\ isRefreshing' = FALSE
      /\ UNCHANGED <<refreshSubscribers, sign, serverVars>>
  BY DEF RefreshFailed
<1>2. /\ abandoned' \subseteq Calls /\ isRefreshing' \in BOOLEAN /\ refreshSubscribers' \subseteq Calls
  BY <1>1 DEF AuthInv, AuthTypeOK
<1>3. CASE ClearAuth /\ Overtakes(c)
  BY <1>1, <1>2, <1>3, CallClears DEF serverVars
<1>4. CASE UNCHANGED <<stateVars, overtaken>>
  <2> DEFINE k == [call[c] EXCEPT !.at = "done"]
  <2>1. k \in CallType /\ k.at = "done" /\ k.token = call[c].token /\ k.got = call[c].got
    BY DEF AuthInv, AuthTypeOK, CallType
  <2>2. call' = [call EXCEPT ![c] = k]
    BY <1>1
  <2>3. Known(call[c].token) /\ Known(call[c].got)
    BY DEF AuthInv, TokensKnown
  <2> HIDE DEF k
  <2> QED BY <1>1, <1>2, <1>4, <2>1, <2>2, <2>3, CallQuiet DEF serverVars
<1> QED BY <1>3, <1>4 DEF RefreshFailed

(* Tokens expire and sessions end: nothing is left that would match wrongly. *)
LEMMA ServerMoves == ASSUME AuthInv, EndSession \/ (\E t \in Tokens : Expire(t)) PROVE AuthInv'
<1>1. /\ UNCHANGED <<stateVars, refreshVars, call, sign, able, issued, overtaken>>
      /\ cookie' \in {cookie, Ended} /\ live' \subseteq live
  BY DEF EndSession, Expire
<1>2. AuthTypeOK'
  BY <1>1 DEF AuthInv, AuthTypeOK, stateVars, refreshVars
<1>3. TokensKnown' /\ InFlight' = InFlight /\ Driving' = Driving
  BY <1>1 DEF AuthInv, TokensKnown, Known, InFlight, Driving, stateVars
<1>4. ASSUME ~overtaken' PROVE OneChange' /\ CookieMatches'
  BY <1>1, <1>3, <1>4, BrowserAssumption
     DEF AuthInv, OneChange, CookieMatches, UserMatches, stateVars
<1> QED BY <1>2, <1>3, <1>4 DEF AuthInv

LEMMA AuthStep ==
    ASSUME AuthInv, [AuthNext]_authVars
    PROVE  AuthInv'
<1>1. CASE UNCHANGED authVars
  BY <1>1 DEF authVars, AuthInv, AuthTypeOK, TokensKnown, Known, InFlight, Driving, OneChange,
     CookieMatches, UserMatches
<1>2. ASSUME NEW c \in Calls, Send(c) \/ Answer(c) PROVE AuthInv'
  BY <1>2, CallSent, CallDone, CallRefused, CallRefreshes, CallRefreshed, CallRefreshFails
     DEF Answer
<1> QED BY <1>1, <1>2, FlowSteps, ServerMoves DEF AuthNext

LEMMA UserIsTokens == AuthInv => AuthTypeOK /\ TokenMatchesUser
<1> SUFFICES ASSUME AuthInv, AtRest, ~overtaken
             PROVE  IF accessToken = 0 THEN user = NoOne /\ hooks.token = 0
                    ELSE /\ hooks.token # 0
                         /\ user = issued[accessToken]
                         /\ user = issued[hooks.token]
  BY DEF AuthInv, TokenMatchesUser
<1>1. \A s \in Flows : sign[s].at # "profile"
  BY DEF AtRest
<1> QED BY <1>1 DEF AuthInv, OneChange, UserMatches

-------------------------------------------------------------------------------
(* The dashboard: what sales and the tables have in common *)

OnSale == Rows("flight")
Seats(f) == db["flight"][f].seats

(* A flight that was never there has sold nothing, a return has a seat to give. *)
SalesLedger ==
    /\ OnSale \subseteq used["flight"]
    /\ \A f \in Ids : /\ sold[f] <= sales
                      /\ sold[f] # 0 => f \in used["flight"]
                      /\ returning[f] # NotReturning => f \in used["flight"] /\ sold[f] > 0

(* A copy of the seats that is not stale is true: the table, the form, the      *)
(* request on its way, the number that a return has read.                       *)
TableTrue ==
    \A f \in Ids : shown["flight"][f] # NoRow =>
        /\ f \in used["flight"]
        /\ "table" \notin stale[f] /\ f \in OnSale => shown["flight"][f].seats = Seats(f)
FormTrue ==
    \A f \in Ids : editingId = f /\ "form" \notin stale[f] =>
        /\ f \in used["flight"]
        /\ f \in OnSale => form.typed \/ form.row.seats = Seats(f)
RequestTrue ==
    \A f \in Ids :
        write.op = "update" /\ write.table = "flight" /\ write.id = f /\ "request" \notin stale[f] =>
            /\ f \in used["flight"]
            /\ write.at \in {"sent", "read"} /\ f \in OnSale /\ write.given =>
                  write.typed \/ write.row.seats = Seats(f)
ReturnTrue ==
    \A f \in OnSale : returning[f] # NotReturning /\ "return" \notin stale[f] =>
        returning[f] = Seats(f)

(* A request is about a table, an update about a row of it. *)
WriteSane ==
    /\ write # NoWrite => write.table \in Tabs
    /\ write.op = "create" => write.table \in Tables
    /\ write.op \in {"update", "delete"} => write.id \in Ids
    /\ write.op = "update" /\ write.typed => write.given

(* Until the tab is switched in the middle of an edit, form and tab agree. *)
CityNames ==
    ~switched =>
        /\ \A i \in Rows("city") : db["city"][i].name = "city"
        /\ \A i \in Ids : shown["city"][i] # NoRow => shown["city"][i].name = "city"
        /\ editingId # 0 => form.table = tab
        /\ editingId # 0 /\ tab = "city" => form.row.name = "city"
        /\ write.table = "city" /\ write.op \in {"create", "update"} => write.row.name = "city"

CopiesTrue == TableTrue /\ FormTrue /\ RequestTrue /\ ReturnTrue

AdminInv == AdminTypeOK /\ SalesLedger /\ CopiesTrue /\ WriteSane /\ CityNames /\ SalesSurvive

FormType == [table : Tabs \cup {"none"}, row : RowType, typed : BOOLEAN]
WriteType == [at : {"none", "sent", "read", "done", "failed"},
              op : {"none", "create", "update", "delete", "override"},
              table : Tabs \cup {"none"}, id : Ids \cup {0}, row : RowType,
              given : BOOLEAN, typed : BOOLEAN, capacity : Capacities \cup {0}]

LEMMA RowTypes ==
    /\ Blank \in RowType /\ NoRow \in RowType /\ UserRow \in RowType
    /\ Blank.name = "none" /\ NoRow.seats = 0 /\ Blank.seats = 0 /\ UserRow.name = "user"
    /\ NotReturning \notin Nat
<1>1. Blank \in RowType /\ Blank.name = "none" /\ Blank.seats = 0
  BY DEF Blank, RowType
<1>2. NoRow \in RowType /\ NoRow.seats = 0
  BY <1>1 DEF NoRow, RowType
<1>3. UserRow \in RowType /\ UserRow.name = "user"
  BY <1>1 DEF UserRow, RowType
<1>4. NotReturning \notin Nat
  BY DEF NotReturning
<1> QED BY <1>1, <1>2, <1>3, <1>4

LEMMA PageTypes ==
    /\ NoForm \in FormType /\ NoWrite \in WriteType
    /\ NoWrite.at = "none" /\ NoWrite.op = "none" /\ NoWrite.table = "none" /\ NoWrite.id = 0
<1>1. NoForm \in FormType
  BY RowTypes DEF NoForm, FormType
<1>2. NoWrite \in WriteType
  BY RowTypes DEF NoWrite, WriteType
<1> QED BY <1>1, <1>2 DEF NoWrite

LEMMA LargestCapacity == MaxCapacity \in Capacities /\ MaxCapacity \in Nat
<1>1. PICK c \in Capacities : \A d \in Capacities : d <= c
  BY CatalogAssumption
<1>2. MaxCapacity \in Capacities
  BY <1>1 DEF MaxCapacity
<1> QED BY <1>2, CatalogAssumption

LEMMA CapacityTypes == \A c \in Capacities \cup {0} : c \in Nat
<1>1. Capacities \subseteq Nat
  BY CatalogAssumption
<1> QED BY <1>1

LEMMA AdminTypes ==
    AdminTypeOK <=>
        /\ CatalogTypeOK /\ plan \in Plans
        /\ tab \in Tabs /\ loads \subseteq Tabs /\ loading \in BOOLEAN
        /\ shown \in [Tables -> [Ids -> RowType]]
        /\ editingId \in Ids \cup {0}
        /\ form \in FormType /\ write \in WriteType
        /\ writes \in 0 .. MaxWrites /\ switched \in BOOLEAN
  BY DEF AdminTypeOK, FormType, WriteType

LEMMA AdminTypesNext ==
    ASSUME CatalogTypeOK', plan' \in Plans, tab' \in Tabs, loads' \subseteq Tabs, loading' \in BOOLEAN,
           shown' \in [Tables -> [Ids -> RowType]], editingId' \in Ids \cup {0},
           form' \in FormType, write' \in WriteType,
           writes' \in 0 .. MaxWrites, switched' \in BOOLEAN
    PROVE  AdminTypeOK'
  BY DEF AdminTypeOK, FormType, WriteType

LEMMA SeededRows ==
    ASSUME NEW seats \in Capacities, NEW t \in Tables
    PROVE  /\ SeededRow(t, seats) \in RowType
           /\ t = "flight" => SeededRow(t, seats).seats = seats
           /\ t = "city" => SeededRow(t, seats).name = "city"
<1>1. seats \in Nat /\ Seeded \in Ids /\ MaxCapacity \in Capacities
  BY CatalogAssumption, LargestCapacity
<1>2. Blank \in RowType
  BY RowTypes
<1>3. CASE t = "city"
  BY <1>1, <1>2, <1>3 DEF SeededRow, RowType
<1>4. CASE t = "airport"
  BY <1>1, <1>2, <1>4 DEF SeededRow, RowType
<1>5. CASE t = "airplane"
  BY <1>1, <1>2, <1>5 DEF SeededRow, RowType
<1>6. CASE t = "flight"
  BY <1>1, <1>2, <1>6 DEF SeededRow, RowType
<1> QED BY <1>3, <1>4, <1>5, <1>6 DEF Tables

LEMMA AdminStart == AdminInit => AdminInv
<1> SUFFICES ASSUME AdminInit PROVE AdminInv
  OBVIOUS
<1>1. PICK seats \in Capacities, seeded \in {Tables, Tables \ {"flight"}} :
        /\ db = [t \in Tables |->
                    [i \in Ids |-> IF i = Seeded /\ t \in seeded THEN SeededRow(t, seats) ELSE NoRow]]
        /\ used = [t \in Tables |-> IF t \in seeded THEN {Seeded} ELSE {}]
        /\ returning = [i \in Ids |-> NotReturning]
        /\ offered = [i \in Ids |-> IF i = Seeded THEN seats ELSE 0]
        /\ sold = [i \in Ids |-> 0] /\ sales = 0
        /\ stale = [i \in Ids |-> Copies] /\ overwritten = {}
  BY DEF AdminInit, CatalogInit
<1>2. /\ plan \in Plans /\ tab = "city" /\ loads = {"city"} /\ loading = TRUE
      /\ shown = [t \in Tables |-> [i \in Ids |-> NoRow]]
      /\ editingId = 0 /\ form = NoForm
      /\ write = NoWrite /\ writes = 0 /\ switched = FALSE
  BY DEF AdminInit
<1>3. seats \in Nat /\ Seeded \in Ids /\ MaxSales \in Nat /\ MaxWrites \in Nat
  BY CatalogAssumption, AdminAssumption
<1>4. "city" \in Tables /\ "flight" \in Tables /\ Tables \subseteq Tabs
  BY DEF Tables, Tabs
<1>5. CatalogTypeOK
  <2>1. db \in [Tables -> [Ids -> RowType]]
    BY <1>1, SeededRows, RowTypes
  <2>2. used \in [Tables -> SUBSET Ids]
    BY <1>1, <1>3
  <2>3. /\ returning \in [Ids -> Nat \cup {NotReturning}]
        /\ stale \in [Ids -> SUBSET Copies] /\ overwritten \subseteq Ids
    BY <1>1
  <2>4. offered \in [Ids -> Int] /\ sold \in [Ids -> 0 .. MaxSales] /\ sales \in 0 .. MaxSales
    BY <1>1, <1>3
  <2> QED BY <2>1, <2>2, <2>3, <2>4 DEF CatalogTypeOK
<1>6. AdminTypeOK
  <2>1. shown \in [Tables -> [Ids -> RowType]]
    BY <1>2, RowTypes
  <2>2. writes \in 0 .. MaxWrites
    BY <1>2, <1>3
  <2> QED BY <1>2, <1>4, <1>5, <2>1, <2>2, PageTypes, AdminTypes
<1>7. \A i \in Ids : db["flight"][i] # NoRow =>
          i = Seeded /\ "flight" \in seeded /\ Seats(i) = seats
  BY <1>1, <1>4, SeededRows DEF Seats
<1>8. SalesLedger
  BY <1>1, <1>3, <1>4, <1>7 DEF SalesLedger, OnSale, Rows
<1>9. SalesSurvive
  BY <1>1, <1>3, <1>7 DEF SalesSurvive, Rows, Seats
<1>10. CopiesTrue
  <2>1. TableTrue
    BY <1>2, <1>4 DEF TableTrue
  <2>2. FormTrue
    BY <1>2, CatalogAssumption DEF FormTrue
  <2>3. RequestTrue
    BY <1>2, PageTypes DEF RequestTrue
  <2>4. ReturnTrue
    BY <1>1 DEF ReturnTrue, OnSale, Rows
  <2> QED BY <2>1, <2>2, <2>3, <2>4 DEF CopiesTrue
<1>11. WriteSane
  BY <1>2, PageTypes DEF WriteSane
<1>12. CityNames
  <2>1. \A i \in Rows("city") : db["city"][i].name = "city"
    BY <1>1, <1>4, SeededRows DEF Rows
  <2>2. \A i \in Ids : shown["city"][i] = NoRow
    BY <1>2, <1>4
  <2> QED BY <1>2, <2>1, <2>2, PageTypes DEF CityNames
<1> QED BY <1>6, <1>8, <1>9, <1>10, <1>11, <1>12 DEF AdminInv

\* What a step of the page alone leaves as it is.
SeatsKept == UNCHANGED <<db, used, returning, offered, sold, sales, overwritten>>

LEMMA KeptSeats ==
    ASSUME SeatsKept, SalesLedger, SalesSurvive
    PROVE  SalesLedger' /\ SalesSurvive' /\ OnSale' = OnSale /\ \A f \in Ids : Seats(f)' = Seats(f)
  BY DEF SeatsKept, SalesLedger, SalesSurvive, OnSale, Rows, Seats

LEMMA KeptTypes ==
    ASSUME SeatsKept, AdminTypeOK, stale' \in [Ids -> SUBSET Copies]
    PROVE  CatalogTypeOK'
  BY AdminTypes DEF SeatsKept, CatalogTypeOK

LEMMA TabSwitched == ASSUME AdminInv, NEW t \in Tabs, SwitchTab(t) PROVE AdminInv'
<1>1. /\ SeatsKept /\ UNCHANGED <<stale, plan, shown, editingId, form, write, writes>>
      /\ tab' = t /\ loads' = loads \cup {t} /\ loading' = TRUE
      /\ switched' = (switched \/ editingId # 0)
  BY DEF SwitchTab, Load, SeatsKept, catalogVars
<1>2. AdminTypeOK /\ SalesLedger /\ SalesSurvive
  BY DEF AdminInv
<1>3. AdminTypeOK'
  <2>1. CatalogTypeOK'
    BY <1>1, <1>2, KeptTypes, AdminTypes DEF CatalogTypeOK
  <2> QED BY <1>1, <1>2, <2>1, AdminTypes, AdminTypesNext
<1>4. CopiesTrue'
  BY <1>1, <1>2, KeptSeats
     DEF AdminInv, CopiesTrue, TableTrue, FormTrue, RequestTrue, ReturnTrue, SeatsKept, OnSale, Seats,
         Rows
<1>5. WriteSane'
  BY <1>1 DEF AdminInv, WriteSane
<1>6. CityNames'
  BY <1>1 DEF AdminInv, CityNames, SeatsKept, Rows
<1> QED BY <1>1, <1>2, <1>3, <1>4, <1>5, <1>6, KeptSeats DEF AdminInv

LEMMA TableLoaded == ASSUME AdminInv, NEW t \in Tabs, Loaded(t) PROVE AdminInv'
<1>1. /\ SeatsKept /\ loads' = loads \ {t} /\ loading' = FALSE
      /\ UNCHANGED <<plan, tab, editingId, form, write, writes, switched>>
  BY DEF Loaded, SeatsKept
<1>2. /\ AdminTypeOK /\ SalesLedger /\ SalesSurvive
      /\ db \in [Tables -> [Ids -> RowType]] /\ stale \in [Ids -> SUBSET Copies]
      /\ shown \in [Tables -> [Ids -> RowType]]
  BY AdminTypes DEF AdminInv, CatalogTypeOK
<1>3. /\ shown' = shown \/ (t \in Tables /\ shown' = [shown EXCEPT ![t] = db[t]])
      /\ stale' = stale \/ (/\ shown' = [shown EXCEPT !["flight"] = db["flight"]]
                            /\ stale' = [f \in Ids |-> stale[f] \ {"table"}])
      /\ shown'["flight"] # shown["flight"] => shown'["flight"] = db["flight"]
  <2>1. CASE /\ t \in Tables /\ shown' = [shown EXCEPT ![t] = db[t]]
             /\ stale' = IF t = "flight" THEN [f \in Ids |-> stale[f] \ {"table"}] ELSE stale
    BY <1>2, <2>1 DEF Tables
  <2>2. CASE UNCHANGED <<shown, stale>>
    BY <2>2
  <2> QED BY <2>1, <2>2 DEF Loaded
<1>4. /\ stale' \in [Ids -> SUBSET Copies] /\ shown' \in [Tables -> [Ids -> RowType]]
      /\ \A f \in Ids : \A copy \in Copies \ {"table"} : copy \in stale'[f] <=> copy \in stale[f]
  BY <1>2, <1>3
<1>5. AdminTypeOK'
  <2>1. CatalogTypeOK'
    BY <1>1, <1>2, <1>4, KeptTypes
  <2> QED BY <1>1, <1>2, <1>4, <2>1, AdminTypes, AdminTypesNext
<1>6. /\ SalesLedger' /\ SalesSurvive' /\ OnSale' = OnSale
      /\ \A f \in Ids : Seats(f)' = Seats(f)
  BY <1>1, <1>2, KeptSeats
<1>7. TableTrue'
  <2>1. SUFFICES ASSUME NEW f \in Ids, shown'["flight"][f] # NoRow
                 PROVE  /\ f \in used'["flight"]
                        /\ "table" \notin stale'[f] /\ f \in OnSale' =>
                              shown'["flight"][f].seats = Seats(f)'
    BY DEF TableTrue
  <2>2. CASE shown'["flight"] = db["flight"]
    BY <1>1, <1>2, <2>1, <2>2 DEF SalesLedger, OnSale, Rows, SeatsKept, Seats
  <2>3. CASE shown'["flight"] # db["flight"]
    <3>1. shown'["flight"] = shown["flight"] /\ "flight" \in Tables
      BY <1>3, <2>3 DEF Tables
    <3>2. stale' = stale
      BY <1>2, <1>3, <2>3, <3>1
    <3> QED BY <1>1, <1>6, <2>1, <3>1, <3>2 DEF AdminInv, CopiesTrue, TableTrue, SeatsKept
  <2> QED BY <2>2, <2>3
<1>8. FormTrue' /\ RequestTrue' /\ ReturnTrue'
  BY <1>1, <1>4, <1>6
     DEF AdminInv, CopiesTrue, FormTrue, RequestTrue, ReturnTrue, SeatsKept, Copies, OnSale, Rows
<1>9. WriteSane'
  BY <1>1 DEF AdminInv, WriteSane
<1>10. CityNames'
  <2>1. \A i \in Ids : shown'["city"][i] = shown["city"][i] \/ shown'["city"][i] = db["city"][i]
    BY <1>2, <1>3 DEF Tables
  <2> QED BY <1>1, <2>1 DEF AdminInv, CityNames, SeatsKept, Rows
<1> QED BY <1>5, <1>6, <1>7, <1>8, <1>9, <1>10 DEF AdminInv, CopiesTrue

-------------------------------------------------------------------------------
(* Editing a row *)

LEMMA ShownType ==
    ASSUME AdminTypeOK, NEW t \in Tabs, NEW i \in Ids
    PROVE  Shown(t, i) \in RowType /\ (t \in Tables => Shown(t, i) = shown[t][i])
<1>1. shown \in [Tables -> [Ids -> RowType]]
  BY AdminTypes
<1>2. CASE t \in Tables
  BY <1>1, <1>2 DEF Shown, Tables
<1>3. CASE t = "user" \/ t = "booking"
  BY <1>3, RowTypes DEF Shown, Tables
<1> QED BY <1>2, <1>3 DEF Tabs

LEMMA EditStarted == ASSUME AdminInv, NEW i \in Ids, StartEdit(i) PROVE AdminInv'
<1>1. /\ SeatsKept /\ UNCHANGED <<plan, tab, loads, loading, shown, write, writes, switched>>
      /\ Shown(tab, i) # NoRow /\ editingId' = i
      /\ form' = [table |-> tab, row |-> Shown(tab, i), typed |-> FALSE]
      /\ stale' = IF tab = "flight" /\ "table" \notin stale[i]
                  THEN [stale EXCEPT ![i] = @ \ {"form"}]
                  ELSE [stale EXCEPT ![i] = @ \cup {"form"}]
  BY DEF StartEdit, SeatsKept
<1>2. /\ AdminTypeOK /\ SalesLedger /\ SalesSurvive
      /\ stale \in [Ids -> SUBSET Copies] /\ tab \in Tabs
  BY AdminTypes DEF AdminInv, CatalogTypeOK
<1>3. Shown(tab, i) \in RowType /\ (tab \in Tables => Shown(tab, i) = shown[tab][i])
  BY <1>2, ShownType
<1>4. /\ stale' \in [Ids -> SUBSET Copies]
      /\ \A f \in Ids : \A copy \in Copies \ {"form"} : copy \in stale'[f] <=> copy \in stale[f]
      /\ "form" \notin stale'[i] => tab = "flight" /\ "table" \notin stale[i]
  BY <1>1, <1>2 DEF Copies
<1>5. AdminTypeOK'
  <2>1. CatalogTypeOK'
    BY <1>1, <1>2, <1>4, KeptTypes
  <2>2. form' \in FormType
    BY <1>1, <1>2, <1>3 DEF FormType
  <2> QED BY <1>1, <1>2, <2>1, <2>2, AdminTypes, AdminTypesNext
<1>6. /\ SalesLedger' /\ SalesSurvive' /\ OnSale' = OnSale
      /\ \A f \in Ids : Seats(f)' = Seats(f)
  BY <1>1, <1>2, KeptSeats
<1>7. TableTrue' /\ RequestTrue' /\ ReturnTrue'
  BY <1>1, <1>4, <1>6
     DEF AdminInv, CopiesTrue, TableTrue, RequestTrue, ReturnTrue, SeatsKept, Copies, OnSale, Rows
<1>8. FormTrue'
  <2>1. SUFFICES ASSUME "form" \notin stale'[i]
                 PROVE  /\ i \in used'["flight"]
                        /\ i \in OnSale' => form'.row.seats = Seats(i)'
    BY <1>1 DEF FormTrue
  <2>2. /\ tab = "flight" /\ "table" \notin stale[i] /\ form'.row = shown["flight"][i]
        /\ shown["flight"][i] # NoRow
    BY <1>1, <1>3, <1>4, <2>1 DEF Tables
  <2> QED BY <1>1, <1>6, <2>2 DEF AdminInv, CopiesTrue, TableTrue, SeatsKept
<1>9. WriteSane'
  BY <1>1 DEF AdminInv, WriteSane
<1>10. CityNames'
  <2>1. tab = "city" => form'.row = shown["city"][i] /\ shown["city"][i] # NoRow
    BY <1>1, <1>3 DEF Tables
  <2> QED BY <1>1, <2>1 DEF AdminInv, CityNames, SeatsKept, Rows
<1> QED BY <1>5, <1>6, <1>7, <1>8, <1>9, <1>10 DEF AdminInv, CopiesTrue

(* The form changes: the seats by typing, the name of a city to a city's. *)
LEMMA FormChanged ==
    ASSUME AdminInv, UNCHANGED <<catalogVars, plan, tab, loads, loading, shown, write, writes, switched>>,
           form' \in FormType, editingId' \in {0, editingId},
           editingId' # 0 => form'.table = form.table
                             /\ \/ form'.typed
                                \/ form'.row.seats = form.row.seats /\ form'.typed = form.typed
                             /\ form'.row.name \in {form.row.name, tab}
    PROVE  AdminInv'
<1>1. SeatsKept /\ stale' = stale
  BY DEF SeatsKept, catalogVars
<1>2. AdminTypeOK /\ SalesLedger /\ SalesSurvive /\ stale \in [Ids -> SUBSET Copies]
  BY AdminTypes DEF AdminInv, CatalogTypeOK
<1>3. AdminTypeOK'
  <2>1. CatalogTypeOK'
    BY <1>1, <1>2, KeptTypes
  <2> QED BY <1>2, <2>1, AdminTypes, AdminTypesNext
<1>4. /\ SalesLedger' /\ SalesSurvive' /\ OnSale' = OnSale
      /\ \A f \in Ids : Seats(f)' = Seats(f)
  BY <1>1, <1>2, KeptSeats
<1>5. TableTrue' /\ RequestTrue' /\ ReturnTrue'
  BY <1>1, <1>4
     DEF AdminInv, CopiesTrue, TableTrue, RequestTrue, ReturnTrue, SeatsKept, OnSale, Rows
<1>6. FormTrue'
  <2>1. SUFFICES ASSUME NEW f \in Ids, editingId' = f, "form" \notin stale[f]
                 PROVE  /\ f \in used["flight"]
                        /\ f \in OnSale => form'.typed \/ form'.row.seats = Seats(f)
    BY <1>1, <1>4 DEF FormTrue, SeatsKept
  <2>2. editingId = f /\ editingId' # 0
    BY <2>1, CatalogAssumption
  <2> QED BY <2>1, <2>2 DEF AdminInv, CopiesTrue, FormTrue
<1>7. WriteSane'
  BY DEF AdminInv, WriteSane
<1>8. CityNames'
  BY <1>1 DEF AdminInv, CityNames, SeatsKept, Rows
<1> QED BY <1>3, <1>4, <1>5, <1>6, <1>7, <1>8 DEF AdminInv, CopiesTrue

LEMMA FormEdited ==
    ASSUME AdminInv, EditName \/ EditCity \/ EditCapacity \/ EditFlight \/ CancelEdit
    PROVE  AdminInv'
<1>1. form \in FormType /\ form.row \in RowType
  BY AdminTypes DEF AdminInv, FormType
<1>2. CASE CancelEdit
  <2>1. /\ UNCHANGED <<catalogVars, plan, tab, loads, loading, shown, write, writes, switched>>
        /\ editingId' = 0 /\ form' = NoForm
    BY <1>2 DEF CancelEdit
  <2> QED BY <2>1, PageTypes, FormChanged
<1>3. CASE EditName
  <2>1. /\ UNCHANGED <<catalogVars, plan, tab, loads, loading, shown, editingId, write, writes, switched>>
        /\ tab \in {"city", "airport"} /\ form' = [form EXCEPT !.row.name = tab]
    BY <1>3 DEF EditName, Edited
  <2>2. form' = [form EXCEPT !.row = [form.row EXCEPT !.name = tab]]
    BY <1>1, <2>1 DEF FormType
  <2>3. [form.row EXCEPT !.name = tab] \in RowType
    BY <1>1, <2>1 DEF RowType
  <2>4. /\ form' \in FormType /\ form'.table = form.table /\ form'.typed = form.typed
        /\ form'.row.seats = form.row.seats /\ form'.row.name = tab
    BY <1>1, <2>2, <2>3 DEF FormType, RowType
  <2> QED BY <2>1, <2>4, FormChanged
<1>4. CASE EditCity
  <2>1. PICK c \in Ids :
          /\ UNCHANGED <<catalogVars, plan, tab, loads, loading, shown, editingId, write, writes, switched>>
          /\ form' = [form EXCEPT !.row.city = c]
    BY <1>4 DEF EditCity, Edited
  <2>2. form' = [form EXCEPT !.row = [form.row EXCEPT !.city = c]]
    BY <1>1, <2>1 DEF FormType
  <2>3. [form.row EXCEPT !.city = c] \in RowType
    BY <1>1, <2>1 DEF RowType
  <2>4. /\ form' \in FormType /\ form'.table = form.table /\ form'.typed = form.typed
        /\ form'.row.seats = form.row.seats /\ form'.row.name = form.row.name
    BY <1>1, <2>2, <2>3 DEF FormType, RowType
  <2> QED BY <2>1, <2>4, FormChanged
<1>5. CASE EditCapacity
  <2>1. PICK c \in Capacities :
          /\ UNCHANGED <<catalogVars, plan, tab, loads, loading, shown, editingId, write, writes, switched>>
          /\ form' = [form EXCEPT !.row.capacity = c]
    BY <1>5 DEF EditCapacity, Edited
  <2>2. form' = [form EXCEPT !.row = [form.row EXCEPT !.capacity = c]]
    BY <1>1, <2>1 DEF FormType
  <2>3. [form.row EXCEPT !.capacity = c] \in RowType
    BY <1>1, <2>1 DEF RowType
  <2>4. /\ form' \in FormType /\ form'.table = form.table /\ form'.typed = form.typed
        /\ form'.row.seats = form.row.seats /\ form'.row.name = form.row.name
    BY <1>1, <2>2, <2>3 DEF FormType, RowType
  <2> QED BY <2>1, <2>4, FormChanged
<1>6. ASSUME NEW p \in Ids, form' = [form EXCEPT !.row.plane = p], EditFlight PROVE AdminInv'
  <2>1. UNCHANGED <<catalogVars, plan, tab, loads, loading, shown, editingId, write, writes, switched>>
    BY <1>6 DEF EditFlight, Edited
  <2>2. form' = [form EXCEPT !.row = [form.row EXCEPT !.plane = p]]
    BY <1>1, <1>6 DEF FormType
  <2>3. [form.row EXCEPT !.plane = p] \in RowType
    BY <1>1, <2>1 DEF RowType
  <2>4. /\ form' \in FormType /\ form'.table = form.table /\ form'.typed = form.typed
        /\ form'.row.seats = form.row.seats /\ form'.row.name = form.row.name
    BY <1>1, <2>2, <2>3 DEF FormType, RowType
  <2> QED BY <2>1, <2>4, FormChanged
<1>7. ASSUME NEW s \in Capacities \cup {0}, form' = [form EXCEPT !.row.seats = s, !.typed = TRUE],
             EditFlight
      PROVE  AdminInv'
  <2>1. UNCHANGED <<catalogVars, plan, tab, loads, loading, shown, editingId, write, writes, switched>>
    BY <1>7 DEF EditFlight, Edited
  <2>2. form' = [form EXCEPT !.row = [form.row EXCEPT !.seats = s], !.typed = TRUE]
    BY <1>1, <1>7 DEF FormType
  <2>3. [form.row EXCEPT !.seats = s] \in RowType
    <3>1. s \in Nat
      BY CatalogAssumption
    <3> QED BY <1>1, <3>1 DEF RowType
  <2>4. /\ form' \in FormType /\ form'.table = form.table /\ form'.typed = TRUE
        /\ form'.row.name = form.row.name
    BY <1>1, <2>2, <2>3 DEF FormType, RowType
  <2> QED BY <2>1, <2>4, FormChanged
<1> QED BY <1>2, <1>3, <1>4, <1>5, <1>6, <1>7 DEF EditFlight

-------------------------------------------------------------------------------
(* Requests, and the services that do not touch the tables *)

(* The request changes and nothing that it is about. *)
LEMMA WriteChanged ==
    ASSUME AdminInv, SeatsKept, UNCHANGED <<plan, tab, shown, form, switched>>,
           stale' \in [Ids -> SUBSET Copies],
           \A f \in Ids : \A copy \in Copies \ {"request"} : copy \in stale'[f] <=> copy \in stale[f],
           loads' \subseteq Tabs, loading' \in BOOLEAN, editingId' \in {0, editingId},
           writes' \in 0 .. MaxWrites, write' \in WriteType,
           RequestTrue', WriteSane',
           ~switched' /\ write'.table = "city" /\ write'.op \in {"create", "update"} =>
              write'.row.name = "city"
    PROVE  AdminInv'
<1>1. AdminTypeOK /\ SalesLedger /\ SalesSurvive
  BY DEF AdminInv
<1>2. AdminTypeOK'
  <2>1. CatalogTypeOK'
    BY <1>1, KeptTypes
  <2> QED BY <1>1, <2>1, AdminTypes, AdminTypesNext
<1>3. /\ SalesLedger' /\ SalesSurvive' /\ OnSale' = OnSale
      /\ \A f \in Ids : Seats(f)' = Seats(f)
  BY <1>1, KeptSeats
<1>4. TableTrue' /\ FormTrue' /\ ReturnTrue'
  BY <1>3, CatalogAssumption
     DEF AdminInv, CopiesTrue, TableTrue, FormTrue, ReturnTrue, SeatsKept, Copies, OnSale, Rows
<1>5. CityNames'
  BY DEF AdminInv, CityNames, SeatsKept, Rows
<1> QED BY <1>2, <1>3, <1>4, <1>5 DEF AdminInv, CopiesTrue

\* A request as it is sent.
LEMMA RequestSent ==
    ASSUME AdminInv, NEW op \in {"create", "update", "delete", "override"}, NEW t \in Tabs,
           NEW i \in Ids \cup {0}, NEW r \in RowType, NEW given \in BOOLEAN, NEW typed \in BOOLEAN,
           Request(op, t, i, r, given, typed)
    PROVE  /\ write' = [at |-> "sent", op |-> op, table |-> t, id |-> i, row |-> r,
                        given |-> given, typed |-> typed, capacity |-> 0]
           /\ write' \in WriteType /\ writes' \in 0 .. MaxWrites /\ loads \subseteq Tabs
           /\ loading \in BOOLEAN
           /\ UNCHANGED <<plan, tab, loads, loading, shown, editingId, form, switched>>
<1>1. /\ write' = [at |-> "sent", op |-> op, table |-> t, id |-> i, row |-> r,
                   given |-> given, typed |-> typed, capacity |-> 0]
      /\ writes < plan.writes /\ writes' = writes + 1
      /\ UNCHANGED <<plan, tab, loads, loading, shown, editingId, form, switched>>
  BY DEF Request, NoWrite
<1>2. write' \in WriteType
  BY <1>1 DEF WriteType
<1>3. plan.writes \in 0 .. MaxWrites /\ MaxWrites \in Nat /\ writes \in 0 .. MaxWrites
  BY AdminTypes, AdminAssumption DEF AdminInv
<1>4. writes' \in 0 .. MaxWrites
  BY <1>1, <1>3
<1> QED BY <1>1, <1>2, <1>4, AdminTypes DEF AdminInv

LEMMA RowSaved == ASSUME AdminInv, Save PROVE AdminInv'
<1> DEFINE given == form.typed \/ form.row.seats # 0
<1>1. /\ editingId # 0 /\ Request("update", tab, editingId, form.row, given, form.typed)
      /\ stale' = IF "form" \in stale[editingId]
                  THEN [stale EXCEPT ![editingId] = @ \cup {"request"}]
                  ELSE [stale EXCEPT ![editingId] = @ \ {"request"}]
      /\ SeatsKept
  BY DEF Save, SeatsKept
<1>2. /\ editingId \in Ids /\ tab \in Tabs /\ form \in FormType
      /\ form.row \in RowType /\ form.typed \in BOOLEAN /\ given \in BOOLEAN
      /\ stale \in [Ids -> SUBSET Copies]
  BY <1>1, AdminTypes DEF AdminInv, CatalogTypeOK, FormType
<1> HIDE DEF given
<1>3. /\ write' = [at |-> "sent", op |-> "update", table |-> tab, id |-> editingId, row |-> form.row,
                   given |-> given, typed |-> form.typed, capacity |-> 0]
      /\ write' \in WriteType /\ writes' \in 0 .. MaxWrites /\ loads \subseteq Tabs
      /\ loading \in BOOLEAN
      /\ UNCHANGED <<plan, tab, loads, loading, shown, editingId, form, switched>>
  BY <1>1, <1>2, RequestSent
<1>4. /\ stale' \in [Ids -> SUBSET Copies]
      /\ \A f \in Ids : \A copy \in Copies \ {"request"} : copy \in stale'[f] <=> copy \in stale[f]
      /\ "request" \notin stale'[editingId] => "form" \notin stale[editingId]
  BY <1>1, <1>2 DEF Copies
<1>5. RequestTrue'
  <2>1. SUFFICES ASSUME tab = "flight", "request" \notin stale'[editingId]
                 PROVE  /\ editingId \in used'["flight"]
                        /\ editingId \in OnSale' => form.typed \/ form.row.seats = Seats(editingId)'
    BY <1>2, <1>3 DEF RequestTrue
  <2>2. /\ OnSale' = OnSale /\ Seats(editingId)' = Seats(editingId) /\ used' = used
    BY <1>1, <1>3 DEF SeatsKept, OnSale, Rows, Seats
  <2> QED BY <1>2, <1>4, <2>1, <2>2 DEF AdminInv, CopiesTrue, FormTrue
<1>6. WriteSane'
  BY <1>2, <1>3 DEF WriteSane, given
<1>7. ~switched' /\ write'.table = "city" /\ write'.op \in {"create", "update"} =>
          write'.row.name = "city"
  BY <1>1, <1>3 DEF AdminInv, CityNames
<1> QED BY <1>1, <1>3, <1>4, <1>5, <1>6, <1>7, WriteChanged

LEMMA NewRowTypes ==
    ASSUME NEW t \in Tables, NEW r \in NewRows(t)
    PROVE  r \in RowType /\ (t = "city" => r.name = "city")
<1>1. Blank \in RowType
  BY RowTypes
<1>2. CASE t = "city"
  BY <1>1, <1>2 DEF NewRows, RowType
<1>3. CASE t = "airport"
  <2>1. PICK c \in Ids : r = [Blank EXCEPT !.name = "airport", !.city = c]
    BY <1>3 DEF NewRows
  <2> QED BY <1>1, <1>3, <2>1 DEF RowType
<1>4. CASE t = "airplane"
  BY <1>1, <1>4, ZenonT(60) DEF NewRows, RowType
<1>5. CASE t = "flight"
  <2>1. PICK new \in [plane : Ids, airport : Ids, seats : Capacities \cup {0}] :
            r = [Blank EXCEPT !.plane = new.plane, !.from = new.airport, !.to = new.airport,
                                !.seats = new.seats]
    BY <1>5 DEF NewRows
  <2>2. new.seats \in Capacities \cup {0}
    BY <2>1
  <2>3. new.seats \in Nat
    BY <2>2, CapacityTypes
  <2> QED BY <1>1, <1>5, <2>1, <2>3 DEF RowType
<1> QED BY <1>2, <1>3, <1>4, <1>5 DEF Tables

\* A request that is not an update: there is nothing of a row in it to be stale.
LEMMA OtherSent ==
    ASSUME AdminInv, NEW op \in {"create", "delete", "override"}, NEW t \in Tabs,
           NEW i \in Ids \cup {0}, NEW r \in RowType, NEW given \in BOOLEAN, NEW typed \in BOOLEAN,
           Request(op, t, i, r, given, typed), UNCHANGED catalogVars,
           op = "create" => t \in Tables, op = "delete" => i \in Ids,
           op = "create" /\ t = "city" => r.name = "city"
    PROVE  AdminInv'
<1>1. /\ write' = [at |-> "sent", op |-> op, table |-> t, id |-> i, row |-> r,
                   given |-> given, typed |-> typed, capacity |-> 0]
      /\ write' \in WriteType /\ writes' \in 0 .. MaxWrites /\ loads \subseteq Tabs
      /\ loading \in BOOLEAN
      /\ UNCHANGED <<plan, tab, loads, loading, shown, editingId, form, switched>>
  BY RequestSent
<1>2. SeatsKept /\ stale' = stale /\ stale \in [Ids -> SUBSET Copies]
  BY AdminTypes DEF AdminInv, CatalogTypeOK, SeatsKept, catalogVars
<1>3. RequestTrue' /\ WriteSane'
  BY <1>1 DEF RequestTrue, WriteSane
<1> QED BY <1>1, <1>2, <1>3, WriteChanged

LEMMA OthersSent ==
    ASSUME AdminInv, Create \/ (\E i \in Ids : Delete(i)) \/ OverrideBooking
    PROVE  AdminInv'
<1>0. tab \in Tabs /\ Blank \in RowType
  BY AdminTypes, RowTypes DEF AdminInv
<1>1. CASE Create
  <2>1. PICK r \in NewRows(tab) : Request("create", tab, 0, r, TRUE, TRUE)
    BY <1>1 DEF Create
  <2>2. tab \in Tables /\ UNCHANGED catalogVars
    BY <1>1 DEF Create
  <2>3. r \in RowType /\ (tab = "city" => r.name = "city")
    BY <2>1, <2>2, NewRowTypes
  <2> QED BY <1>0, <2>1, <2>2, <2>3, OtherSent
<1>2. ASSUME NEW i \in Ids, Delete(i) PROVE AdminInv'
  BY <1>0, <1>2, OtherSent DEF Delete
<1>3. CASE OverrideBooking
  BY <1>0, <1>3, OtherSent DEF OverrideBooking
<1> QED BY <1>1, <1>2, <1>3

LEMMA CapacityType ==
    ASSUME AdminInv, NEW p \in Ids \cup {0}
    PROVE  CapacityOf(p) \in Capacities \cup {0}
<1>1. db \in [Tables -> [Ids -> RowType]] /\ "airplane" \in Tables
  BY AdminTypes DEF AdminInv, CatalogTypeOK, Tables
<1>2. CASE p \in Rows("airplane")
  BY <1>1, <1>2 DEF CapacityOf, Rows, RowType
<1> QED BY <1>2 DEF CapacityOf

(* Refused, read, or served by another service: the request moves on. *)
LEMMA WriteMoves ==
    ASSUME AdminInv, ServeReject \/ ServeRead \/ ServeOther
    PROVE  AdminInv'
<1>1. /\ UNCHANGED <<catalogVars, pageVars>> /\ write \in WriteType /\ write.row \in RowType
      /\ write.at \in {"sent", "read"}
  BY AdminTypes DEF AdminInv, ServeReject, ServeRead, ServeOther, WriteType
<1>2. PICK at \in {"read", "failed", "done"}, capacity \in Capacities \cup {0} :
          write' = [write EXCEPT !.at = at, !.capacity = capacity]
  <2>1. CASE ServeRead
    <3>1. CapacityOf(write.row.plane) \in Capacities \cup {0}
      BY <1>1, CapacityType DEF RowType
    <3> QED BY <2>1, <3>1 DEF ServeRead
  <2>2. CASE ServeReject \/ ServeOther
    <3>1. PICK at \in {"failed", "done"} : write' = [write EXCEPT !.at = at]
      BY <2>2 DEF ServeReject, ServeOther, Served
    <3>2. write' = [write EXCEPT !.at = at, !.capacity = write.capacity]
      BY <1>1, <3>1 DEF WriteType
    <3> QED BY <1>1, <3>2 DEF WriteType
  <2> QED BY <2>1, <2>2
<1>3. /\ write' \in WriteType /\ write'.op = write.op /\ write'.table = write.table
      /\ write'.id = write.id /\ write'.row = write.row /\ write'.given = write.given
      /\ write'.typed = write.typed
  BY <1>1, <1>2 DEF WriteType
<1>4. SeatsKept /\ stale' = stale /\ stale \in [Ids -> SUBSET Copies]
  BY <1>1, AdminTypes DEF AdminInv, CatalogTypeOK, SeatsKept, catalogVars
<1>5. /\ UNCHANGED <<plan, tab, loads, loading, shown, editingId, form, writes, switched>>
      /\ loads' \subseteq Tabs /\ loading' \in BOOLEAN /\ writes' \in 0 .. MaxWrites
  BY <1>1, AdminTypes DEF AdminInv, pageVars
<1>6. RequestTrue'
  <2>1. OnSale' = OnSale /\ \A f \in Ids : Seats(f)' = Seats(f)
    BY <1>4 DEF SeatsKept, OnSale, Rows, Seats
  <2> QED BY <1>1, <1>3, <1>4, <2>1 DEF AdminInv, CopiesTrue, RequestTrue, SeatsKept
<1>7. WriteSane'
  BY <1>1, <1>3, PageTypes DEF AdminInv, WriteSane
<1> QED BY <1>3, <1>4, <1>5, <1>6, <1>7, WriteChanged DEF AdminInv, CityNames

LEMMA WriteAnswered == ASSUME AdminInv, Answered PROVE AdminInv'
<1>1. /\ write' = NoWrite /\ write.at \in {"done", "failed"}
      /\ editingId' \in {0, editingId}
      /\ \/ loads' = loads \cup {write.table} /\ loading' = TRUE
         \/ UNCHANGED <<loads, loading>>
      /\ UNCHANGED <<catalogVars, plan, tab, shown, form, writes, switched>>
  BY DEF Answered, Load
<1>2. write.table \in Tabs
  BY <1>1, PageTypes DEF AdminInv, WriteSane
<1>3. /\ loads' \subseteq Tabs /\ loading' \in BOOLEAN /\ writes' \in 0 .. MaxWrites
      /\ stale \in [Ids -> SUBSET Copies]
  BY <1>1, <1>2, AdminTypes DEF AdminInv, CatalogTypeOK
<1>4. SeatsKept /\ stale' = stale
  BY <1>1 DEF SeatsKept, catalogVars
<1>5. RequestTrue' /\ WriteSane'
  BY <1>1, PageTypes DEF RequestTrue, WriteSane
<1> QED BY <1>1, <1>3, <1>4, <1>5, PageTypes, WriteChanged

-------------------------------------------------------------------------------
(* The steps that write to a table *)

LEMMA SoldTypes ==
    ASSUME AdminTypeOK, NEW f \in Ids
    PROVE  sold[f] \in Nat /\ sold[f] <= MaxSales /\ sales \in Nat /\ sales <= MaxSales
<1>1. sold[f] \in 0 .. MaxSales /\ sales \in 0 .. MaxSales
  BY AdminTypes DEF CatalogTypeOK
<1> QED BY <1>1, CatalogAssumption

RowSet(t, i, r) == db' = [db EXCEPT ![t][i] = r]

LEMMA RowWritten ==
    ASSUME AdminTypeOK, NEW t \in Tables, NEW i \in Ids, NEW r \in RowType, RowSet(t, i, r)
    PROVE  /\ db' \in [Tables -> [Ids -> RowType]] /\ db'[t][i] = r
           /\ \A u \in Tables, j \in Ids : u # t \/ j # i => db'[u][j] = db[u][j]
<1>1. db \in [Tables -> [Ids -> RowType]] /\ db[t] \in [Ids -> RowType]
  BY AdminTypes DEF CatalogTypeOK
<1>2. db' = [db EXCEPT ![t] = [db[t] EXCEPT ![i] = r]]
  BY <1>1 DEF RowSet
<1>3. [db[t] EXCEPT ![i] = r] \in [Ids -> RowType]
  BY <1>1
<1>4. db' \in [Tables -> [Ids -> RowType]] /\ db'[t] = [db[t] EXCEPT ![i] = r]
  BY <1>1, <1>2, <1>3
<1>5. ASSUME NEW u \in Tables, NEW j \in Ids, u # t \/ j # i PROVE db'[u][j] = db[u][j]
  BY <1>1, <1>2, <1>4, <1>5
<1> QED BY <1>1, <1>4, <1>5

(* What is not stale stays true: a flight has the seats it had, or every copy  *)
(* of them is stale now, or there is no copy, as it is new.                    *)
LEMMA CopiesStay ==
    ASSUME AdminInv, UNCHANGED <<shown, editingId, form>>,
           used["flight"] \subseteq used'["flight"],
           \A f \in Ids : stale[f] \subseteq stale'[f],
           \A f \in OnSale' : \/ f \in OnSale /\ Seats(f)' = Seats(f)
                              \/ Copies \subseteq stale'[f]
                              \/ f \notin used["flight"],
           \A f \in Ids : returning'[f] \in {returning[f], NotReturning},
           write'.at \in {write.at, "done"}, write'.op = write.op, write'.table = write.table,
           write'.id = write.id, write'.row = write.row, write'.given = write.given,
           write'.typed = write.typed
    PROVE  CopiesTrue'
<1>1. OnSale' \subseteq Ids
  BY DEF OnSale, Rows
<1>2. TableTrue'
  <2>1. SUFFICES ASSUME NEW f \in Ids, shown["flight"][f] # NoRow
                 PROVE  /\ f \in used'["flight"]
                        /\ "table" \notin stale'[f] /\ f \in OnSale' =>
                              shown["flight"][f].seats = Seats(f)'
    BY DEF TableTrue
  <2>2. f \in used["flight"]
    BY <2>1 DEF AdminInv, CopiesTrue, TableTrue
  <2>3. ASSUME "table" \notin stale'[f], f \in OnSale' PROVE shown["flight"][f].seats = Seats(f)'
    <3>1. f \in OnSale /\ Seats(f)' = Seats(f) /\ "table" \notin stale[f]
      BY <2>2, <2>3 DEF Copies
    <3> QED BY <2>1, <3>1 DEF AdminInv, CopiesTrue, TableTrue
  <2> QED BY <2>2, <2>3
<1>3. FormTrue'
  <2>1. SUFFICES ASSUME NEW f \in Ids, editingId = f, "form" \notin stale'[f]
                 PROVE  /\ f \in used'["flight"]
                        /\ f \in OnSale' => form.typed \/ form.row.seats = Seats(f)'
    BY DEF FormTrue
  <2>2. "form" \notin stale[f] /\ f \in used["flight"]
    BY <2>1 DEF AdminInv, CopiesTrue, FormTrue
  <2>3. ASSUME f \in OnSale' PROVE f \in OnSale /\ Seats(f)' = Seats(f)
    BY <2>1, <2>2, <2>3 DEF Copies
  <2> QED BY <2>1, <2>2, <2>3 DEF AdminInv, CopiesTrue, FormTrue
<1>4. RequestTrue'
  <2>1. SUFFICES ASSUME NEW f \in Ids, write.op = "update", write.table = "flight", write.id = f,
                        "request" \notin stale'[f]
                 PROVE  /\ f \in used'["flight"]
                        /\ write'.at \in {"sent", "read"} /\ f \in OnSale' /\ write.given =>
                              write.typed \/ write.row.seats = Seats(f)'
    BY DEF RequestTrue
  <2>2. "request" \notin stale[f] /\ f \in used["flight"]
    BY <2>1 DEF AdminInv, CopiesTrue, RequestTrue
  <2>3. ASSUME f \in OnSale' PROVE f \in OnSale /\ Seats(f)' = Seats(f)
    BY <2>1, <2>2, <2>3 DEF Copies
  <2> QED BY <2>1, <2>2, <2>3 DEF AdminInv, CopiesTrue, RequestTrue
<1>5. ReturnTrue'
  <2>1. SUFFICES ASSUME NEW f \in OnSale', returning'[f] # NotReturning, "return" \notin stale'[f]
                 PROVE  returning'[f] = Seats(f)'
    BY DEF ReturnTrue
  <2>2. f \in Ids /\ returning'[f] = returning[f] /\ "return" \notin stale[f]
    BY <1>1, <2>1
  <2>3. f \in used["flight"]
    BY <2>1, <2>2 DEF AdminInv, SalesLedger
  <2>4. f \in OnSale /\ Seats(f)' = Seats(f)
    BY <2>1, <2>3 DEF Copies
  <2> QED BY <2>1, <2>2, <2>4 DEF AdminInv, CopiesTrue, ReturnTrue
<1> QED BY <1>2, <1>3, <1>4, <1>5 DEF CopiesTrue

\* A request that has been served.
LEMMA ServedRequest ==
    ASSUME AdminInv, Served, write.op \in {"create", "update", "delete"}
    PROVE  /\ write' \in WriteType /\ write'.at = "done" /\ write'.op = write.op
           /\ write'.table = write.table /\ write'.id = write.id /\ write'.row = write.row
           /\ write'.given = write.given /\ write'.typed = write.typed
           /\ WriteSane'
<1>1. write \in WriteType /\ write' = [write EXCEPT !.at = "done"]
  BY AdminTypes DEF AdminInv, Served
<1>2. /\ write' \in WriteType /\ write'.at = "done" /\ write'.op = write.op
      /\ write'.table = write.table /\ write'.id = write.id /\ write'.row = write.row
      /\ write'.given = write.given /\ write'.typed = write.typed
  BY <1>1 DEF WriteType
<1>3. WriteSane'
  BY <1>2, PageTypes DEF AdminInv, WriteSane
<1> QED BY <1>2, <1>3

(* What a statement has to show of itself. *)
LEMMA TableWritten ==
    ASSUME AdminInv, Served, write.op \in {"create", "update", "delete"},
           UNCHANGED <<pageVars, returning, sold, sales>>, CatalogTypeOK',
           used["flight"] \subseteq used'["flight"], OnSale' \subseteq used'["flight"],
           \A f \in Ids : stale[f] \subseteq stale'[f],
           \A f \in OnSale' : \/ f \in OnSale /\ Seats(f)' = Seats(f)
                              \/ Copies \subseteq stale'[f]
                              \/ f \notin used["flight"],
           ~switched => \A i \in Rows("city")' : db'["city"][i].name = "city",
           SalesSurvive'
    PROVE  AdminInv'
<1>1. /\ write' \in WriteType /\ write'.at = "done" /\ write'.op = write.op
      /\ write'.table = write.table /\ write'.id = write.id /\ write'.row = write.row
      /\ write'.given = write.given /\ write'.typed = write.typed
      /\ WriteSane'
  BY ServedRequest
<1>2. UNCHANGED <<plan, tab, loads, loading, shown, editingId, form, writes, switched>>
  BY DEF pageVars
<1>3. AdminTypeOK'
  BY <1>1, <1>2, AdminTypes, AdminTypesNext DEF AdminInv
<1>4. SalesLedger'
  BY DEF AdminInv, SalesLedger
<1>5. CopiesTrue'
  BY <1>1, <1>2, CopiesStay
<1>6. CityNames'
  BY <1>1, <1>2 DEF AdminInv, CityNames
<1> QED BY <1>1, <1>3, <1>4, <1>5, <1>6 DEF AdminInv

LEMMA RowCreated == ASSUME AdminInv, ServeCreate PROVE AdminInv'
<1> DEFINE t == write.table
<1>1. /\ write.op = "create" /\ t # "airplane" /\ Served
      /\ UNCHANGED <<pageVars, returning, sold, sales, stale, overwritten>>
  BY DEF ServeCreate
<1>2. PICK i \in Ids, seats \in {0, SeatsOnCreate(write.row.seats, write.capacity)} :
        /\ i \notin used[t] /\ db' = [db EXCEPT ![t][i] = [write.row EXCEPT !.seats = seats]]
        /\ used' = [used EXCEPT ![t] = @ \cup {i}]
        /\ offered' = IF t = "flight" THEN [offered EXCEPT ![i] = seats] ELSE offered
  BY DEF ServeCreate, Insert
<1>3. t \in Tables /\ "flight" \in Tables /\ "city" \in Tables /\ write.row \in RowType
  BY <1>1, AdminTypes DEF AdminInv, WriteSane, WriteType, Tables
<1>4. /\ db \in [Tables -> [Ids -> RowType]] /\ used \in [Tables -> SUBSET Ids]
      /\ returning \in [Ids -> Nat \cup {NotReturning}]
      /\ offered \in [Ids -> Int] /\ sold \in [Ids -> 0 .. MaxSales] /\ sales \in 0 .. MaxSales
      /\ stale \in [Ids -> SUBSET Copies] /\ overwritten \subseteq Ids
  BY AdminTypes DEF AdminInv, CatalogTypeOK
<1>5. seats \in Nat
  <2>1. write.row.seats \in Nat /\ write.capacity \in Capacities \cup {0}
    BY <1>3, AdminTypes DEF AdminInv, WriteType, RowType
  <2> QED BY <1>2, <2>1, CapacityTypes DEF SeatsOnCreate
<1> DEFINE r == [write.row EXCEPT !.seats = seats]
<1>6. r \in RowType /\ r.seats = seats /\ r.name = write.row.name
  BY <1>3, <1>5 DEF RowType
<1>7. RowSet(t, i, r)
  BY <1>2 DEF RowSet
<1> HIDE DEF t, r
<1>8. /\ db' \in [Tables -> [Ids -> RowType]] /\ db'[t][i] = r
      /\ \A u \in Tables, j \in Ids : u # t \/ j # i => db'[u][j] = db[u][j]
  BY <1>3, <1>6, <1>7, RowWritten DEF AdminInv
<1>9. /\ used' \in [Tables -> SUBSET Ids] /\ used'[t] = used[t] \cup {i}
      /\ \A u \in Tables : u # t => used'[u] = used[u]
  BY <1>2, <1>3, <1>4
<1>10. /\ offered' \in [Ids -> Int]
       /\ t = "flight" => offered'[i] = seats /\ \A f \in Ids : f # i => offered'[f] = offered[f]
       /\ t # "flight" => offered' = offered
  BY <1>2, <1>4, <1>5
<1>11. CatalogTypeOK'
  BY <1>1, <1>4, <1>8, <1>9, <1>10 DEF CatalogTypeOK
<1>12. used["flight"] \subseteq used'["flight"] /\ OnSale' \subseteq used'["flight"]
  BY <1>3, <1>8, <1>9 DEF AdminInv, SalesLedger, OnSale, Rows
<1>13. \A f \in OnSale' : \/ f \in OnSale /\ Seats(f)' = Seats(f)
                          \/ Copies \subseteq stale'[f]
                          \/ f \notin used["flight"]
  BY <1>2, <1>3, <1>8 DEF OnSale, Rows, Seats, t
<1>14. ~switched => \A j \in Rows("city")' : db'["city"][j].name = "city"
  BY <1>1, <1>3, <1>6, <1>8 DEF AdminInv, CityNames, Rows, t
<1>15. SalesSurvive'
  <2>1. SUFFICES ASSUME NEW f \in Rows("flight")', f \notin overwritten
                 PROVE  db'["flight"][f].seats = offered'[f] - sold[f]
    BY <1>1 DEF SalesSurvive
  <2>2. f \in Ids /\ db'["flight"][f] # NoRow
    BY DEF Rows
  <2>3. CASE t = "flight" /\ f = i
    <3>1. sold[i] = 0
      BY <1>2, <2>3 DEF AdminInv, SalesLedger, t
    <3> QED BY <1>5, <1>6, <1>8, <1>10, <2>3, <3>1
  <2>4. CASE t # "flight" \/ f # i
    <3>1. db'["flight"][f] = db["flight"][f] /\ offered'[f] = offered[f]
      BY <1>3, <1>8, <1>10, <2>2, <2>4
    <3> QED BY <2>1, <2>2, <3>1 DEF AdminInv, SalesSurvive, Rows
  <2> QED BY <2>3, <2>4
<1> QED BY <1>1, <1>11, <1>12, <1>13, <1>14, <1>15, TableWritten

LEMMA UpdatedRowType ==
    ASSUME AdminInv, write.table \in Tables, NEW old \in RowType
    PROVE  /\ UpdatedRow(old) \in RowType
           /\ write.table = "flight" =>
                 UpdatedRow(old).seats = IF write.given THEN write.row.seats ELSE old.seats
           /\ write.table = "city" /\ write.row.name = "city" /\ old.name = "city" =>
                 UpdatedRow(old).name = "city"
<1>1. write.row \in RowType
  BY AdminTypes DEF AdminInv, WriteType
<1>2. CASE write.table = "city"
  <2>1. UpdatedRow(old) = [old EXCEPT !.name = IF write.row.name = "none" THEN old.name
                                               ELSE write.row.name,
                                      !.city = old.city]
    BY <1>2 DEF UpdatedRow, RowType
  <2> QED BY <1>1, <1>2, <2>1 DEF RowType
<1>3. CASE write.table = "airport"
  <2>1. UpdatedRow(old) = [old EXCEPT !.name = IF write.row.name = "none" THEN old.name
                                               ELSE write.row.name,
                                      !.city = write.row.city]
    BY <1>3 DEF UpdatedRow, RowType
  <2> QED BY <1>1, <1>3, <2>1 DEF RowType
<1>4. CASE write.table = "airplane"
  <2>1. UpdatedRow(old) = [old EXCEPT !.capacity = write.row.capacity]
    BY <1>4 DEF UpdatedRow
  <2> QED BY <1>1, <1>4, <2>1 DEF RowType
<1>5. CASE write.table = "flight"
  <2>1. UpdatedRow(old) = [write.row EXCEPT !.seats = IF write.given THEN write.row.seats
                                                      ELSE old.seats]
    BY <1>1, <1>5 DEF UpdatedRow, SeatsOnUpdate, RowType
  <2> QED BY <1>1, <1>5, <2>1 DEF RowType
<1> QED BY <1>2, <1>3, <1>4, <1>5 DEF Tables

LEMMA RowUpdated == ASSUME AdminInv, ServeUpdate PROVE AdminInv'
<1> DEFINE t == write.table
           i == write.id
           old == db[t][i]
           isFlight == t = "flight" /\ i \in OnSale
<1>1. /\ write.op = "update" /\ t \in Tables /\ Served
      /\ UNCHANGED <<pageVars, returning, sold, sales, used>>
      /\ write.at \in {"sent", "read"}
  BY DEF ServeUpdate, Update
<1>2. IF i \in Rows(t) THEN RowSet(t, i, UpdatedRow(old)) ELSE db' = db
  BY DEF ServeUpdate, Update, RowSet
<1>3. /\ offered' = IF isFlight /\ write.typed THEN [offered EXCEPT ![i] = write.row.seats + sold[i]]
                    ELSE offered
      /\ overwritten' = IF isFlight /\ write.given /\ ~write.typed /\ "request" \in stale[i]
                        THEN overwritten \cup {i} ELSE overwritten
      /\ stale' = IF isFlight /\ write.given THEN [stale EXCEPT ![i] = Copies] ELSE stale
  BY DEF ServeUpdate, OnSale
<1>4. /\ db \in [Tables -> [Ids -> RowType]] /\ used \in [Tables -> SUBSET Ids]
      /\ returning \in [Ids -> Nat \cup {NotReturning}]
      /\ offered \in [Ids -> Int] /\ sold \in [Ids -> 0 .. MaxSales] /\ sales \in 0 .. MaxSales
      /\ stale \in [Ids -> SUBSET Copies] /\ overwritten \subseteq Ids
  BY AdminTypes DEF AdminInv, CatalogTypeOK
<1>5. /\ i \in Ids /\ write.row \in RowType /\ write.row.seats \in Nat
      /\ write.typed => write.given
      /\ "flight" \in Tables /\ "city" \in Tables
  BY <1>1, AdminTypes DEF AdminInv, WriteSane, WriteType, RowType, Tables
<1> DEFINE new == UpdatedRow(old)
<1>6. /\ new \in RowType
      /\ t = "flight" => new.seats = IF write.given THEN write.row.seats ELSE old.seats
      /\ t = "city" /\ write.row.name = "city" /\ old.name = "city" => new.name = "city"
  <2>1. old \in RowType
    BY <1>1, <1>4, <1>5
  <2> QED BY <1>1, <2>1, UpdatedRowType
<1> HIDE DEF new
<1>7. /\ db' \in [Tables -> [Ids -> RowType]]
      /\ i \in Rows(t) => db'[t][i] = new
      /\ \A u \in Tables, j \in Ids : u # t \/ j # i \/ i \notin Rows(t) => db'[u][j] = db[u][j]
  <2>1. CASE i \in Rows(t)
    <3>1. RowSet(t, i, new)
      BY <1>2, <2>1 DEF new
    <3> QED BY <1>1, <1>5, <1>6, <2>1, <3>1, RowWritten DEF AdminInv
  <2>2. CASE i \notin Rows(t)
    BY <1>2, <1>4, <2>2
  <2> QED BY <2>1, <2>2
<1>8. /\ stale' \in [Ids -> SUBSET Copies] /\ \A f \in Ids : stale[f] \subseteq stale'[f]
      /\ isFlight /\ write.given => stale'[i] = Copies
  BY <1>3, <1>4, <1>5
<1>9. sold[i] \in Int
  BY <1>5, SoldTypes DEF AdminInv
<1>10. /\ offered' \in [Ids -> Int] /\ overwritten' \subseteq Ids /\ overwritten \subseteq overwritten'
       /\ \A f \in Ids : f # i \/ ~isFlight \/ ~write.typed => offered'[f] = offered[f]
       /\ isFlight /\ write.typed => offered'[i] = write.row.seats + sold[i]
  BY <1>3, <1>4, <1>5, <1>9
<1>11. CatalogTypeOK'
  BY <1>1, <1>4, <1>7, <1>8, <1>10 DEF CatalogTypeOK
<1>12. OnSale' \subseteq OnSale
  BY <1>5, <1>7 DEF OnSale, Rows
<1>13. \A f \in OnSale' : f # i \/ ~isFlight \/ ~write.given =>
           Seats(f)' = Seats(f)
  <2>1. SUFFICES ASSUME NEW f \in OnSale', f # i \/ ~isFlight \/ ~write.given
                 PROVE  db'["flight"][f].seats = db["flight"][f].seats
    BY DEF Seats
  <2>2. f \in Ids /\ f \in OnSale
    BY <1>12 DEF OnSale, Rows
  <2>3. CASE f # i \/ ~isFlight
    BY <1>5, <1>7, <2>2, <2>3 DEF OnSale
  <2>4. CASE f = i /\ isFlight
    BY <1>6, <1>7, <2>1, <2>2, <2>4 DEF OnSale
  <2> QED BY <2>3, <2>4
<1>14. ~switched => \A j \in Rows("city")' : db'["city"][j].name = "city"
  <2>1. SUFFICES ASSUME ~switched, NEW j \in Rows("city")' PROVE db'["city"][j].name = "city"
    OBVIOUS
  <2>2. j \in Ids /\ db'["city"][j] # NoRow
    BY DEF Rows
  <2>3. CASE t = "city" /\ j = i /\ i \in Rows(t)
    BY <1>1, <1>6, <1>7, <2>1, <2>3 DEF AdminInv, CityNames
  <2>4. CASE t # "city" \/ j # i \/ i \notin Rows(t)
    BY <1>5, <1>7, <2>1, <2>2, <2>4 DEF AdminInv, CityNames, Rows
  <2> QED BY <2>3, <2>4
<1>15. SalesSurvive'
  <2>1. SUFFICES ASSUME NEW f \in OnSale', f \notin overwritten'
                 PROVE  db'["flight"][f].seats = offered'[f] - sold[f]
    BY <1>1 DEF SalesSurvive, OnSale
  <2>2. f \in Ids /\ f \in OnSale /\ Seats(f) = offered[f] - sold[f]
    BY <1>10, <1>12, <2>1 DEF AdminInv, SalesSurvive, OnSale, Rows, Seats
  <2>3. CASE f # i \/ ~isFlight \/ ~write.given
    BY <1>5, <1>10, <1>13, <2>1, <2>2, <2>3 DEF Seats
  <2>4. CASE f = i /\ isFlight /\ write.given
    <3>1. db'["flight"][i].seats = write.row.seats
      BY <1>6, <1>7, <2>4 DEF OnSale
    <3>2. CASE write.typed
      BY <1>5, <1>9, <1>10, <2>4, <3>1, <3>2
    <3>3. CASE ~write.typed
      <4>1. "request" \notin stale[i]
        BY <1>3, <2>1, <2>4, <3>3
      <4>2. write.row.seats = Seats(i)
        BY <1>1, <1>5, <2>2, <2>4, <3>3, <4>1 DEF AdminInv, CopiesTrue, RequestTrue
      <4> QED BY <1>10, <2>2, <2>4, <3>1, <3>3, <4>2
    <3> QED BY <3>2, <3>3
  <2> QED BY <2>3, <2>4
<1>16. OnSale' \subseteq used'["flight"] /\ used["flight"] \subseteq used'["flight"]
  BY <1>1, <1>12 DEF AdminInv, SalesLedger
<1>17. \A f \in OnSale' : \/ f \in OnSale /\ Seats(f)' = Seats(f)
                          \/ Copies \subseteq stale'[f]
                          \/ f \notin used["flight"]
  BY <1>8, <1>12, <1>13
<1> QED BY <1>1, <1>8, <1>11, <1>14, <1>15, <1>16, <1>17, TableWritten

LEMMA RowDeleted == ASSUME AdminInv, ServeDelete PROVE AdminInv'
<1>1. /\ write.op = "delete" /\ Served
      /\ UNCHANGED <<pageVars, returning, offered, sold, sales, stale, overwritten, used>>
  BY DEF ServeDelete, Destroy
<1>2. /\ db \in [Tables -> [Ids -> RowType]] /\ used \in [Tables -> SUBSET Ids]
      /\ returning \in [Ids -> Nat \cup {NotReturning}]
      /\ offered \in [Ids -> Int] /\ sold \in [Ids -> 0 .. MaxSales] /\ sales \in 0 .. MaxSales
      /\ stale \in [Ids -> SUBSET Copies] /\ overwritten \subseteq Ids
      /\ "flight" \in Tables /\ "city" \in Tables
  BY AdminTypes DEF AdminInv, CatalogTypeOK, Tables
<1>3. PICK gone \in SUBSET (Tables \X Ids) :
          db' = [u \in Tables |-> [j \in Ids |-> IF <<u, j>> \in gone THEN NoRow ELSE db[u][j]]]
  <2> DEFINE cascade == IF write.table = "city" THEN AirportsOf(write.id) ELSE {}
             gone == {d \in Tables \X Ids : \/ d[1] = write.table /\ d[2] = write.id
                                            \/ d[1] = "airport" /\ d[2] \in cascade}
  <2>1. db' = [u \in Tables |->
                 [j \in Ids |-> IF (u = write.table /\ j = write.id) \/ (u = "airport" /\ j \in cascade)
                                THEN NoRow ELSE db[u][j]]]
    BY DEF ServeDelete, Destroy
  <2> HIDE DEF cascade
  <2>2. \A u \in Tables, j \in Ids :
            (u = write.table /\ j = write.id) \/ (u = "airport" /\ j \in cascade) <=> <<u, j>> \in gone
    OBVIOUS
  <2>3. gone \in SUBSET (Tables \X Ids)
    OBVIOUS
  <2> HIDE DEF gone
  <2>4. db' = [u \in Tables |-> [j \in Ids |-> IF <<u, j>> \in gone THEN NoRow ELSE db[u][j]]]
    BY <2>1, <2>2
  <2> QED BY <2>3, <2>4
<1>4. /\ db' \in [Tables -> [Ids -> RowType]]
      /\ \A u \in Tables, j \in Ids : db'[u][j] \in {NoRow, db[u][j]}
  BY <1>2, <1>3, RowTypes
<1>5. CatalogTypeOK'
  BY <1>1, <1>2, <1>4 DEF CatalogTypeOK
<1>6. \A f \in OnSale' : f \in OnSale /\ db'["flight"][f] = db["flight"][f]
  BY <1>2, <1>4 DEF OnSale, Rows
<1>7. OnSale' \subseteq used'["flight"] /\ used["flight"] \subseteq used'["flight"]
  BY <1>1, <1>6 DEF AdminInv, SalesLedger
<1>8. /\ \A f \in Ids : stale[f] \subseteq stale'[f]
      /\ \A f \in OnSale' : \/ f \in OnSale /\ Seats(f)' = Seats(f)
                            \/ Copies \subseteq stale'[f]
                            \/ f \notin used["flight"]
  BY <1>1, <1>6 DEF Seats
<1>9. ~switched => \A j \in Rows("city")' : db'["city"][j].name = "city"
  BY <1>2, <1>4 DEF AdminInv, CityNames, Rows
<1>10. SalesSurvive'
  BY <1>1, <1>6 DEF AdminInv, SalesSurvive, OnSale
<1> QED BY <1>1, <1>5, <1>7, <1>8, <1>9, <1>10, TableWritten

-------------------------------------------------------------------------------
(* Seats that bookings take and give back *)

\* A flight whose seats become n.
SeatsSetTo(f, n) == RowSet("flight", f, [db["flight"][f] EXCEPT !.seats = n])

LEMMA SeatsSet ==
    ASSUME AdminTypeOK, NEW f \in Ids, NEW n \in Nat, SeatsSetTo(f, n)
    PROVE  /\ db' \in [Tables -> [Ids -> RowType]]
           /\ db'["flight"][f].seats = n /\ db'["flight"][f].name = db["flight"][f].name
           /\ \A u \in Tables, j \in Ids : u # "flight" \/ j # f => db'[u][j] = db[u][j]
<1> DEFINE r == [db["flight"][f] EXCEPT !.seats = n]
<1>1. "flight" \in Tables /\ db["flight"][f] \in RowType
  BY AdminTypes DEF CatalogTypeOK, Tables
<1>2. r \in RowType /\ r.seats = n /\ r.name = db["flight"][f].name
  BY <1>1 DEF RowType
<1>3. RowSet("flight", f, r)
  BY DEF SeatsSetTo
<1> HIDE DEF r
<1>4. /\ db' \in [Tables -> [Ids -> RowType]] /\ db'["flight"][f] = r
      /\ \A u \in Tables, j \in Ids : u # "flight" \/ j # f => db'[u][j] = db[u][j]
  BY <1>1, <1>2, <1>3, RowWritten
<1> QED BY <1>2, <1>4

\* The page does not see it: no new copy is made and none is lost.
LEMMA SeatsBooked ==
    ASSUME AdminInv, NEW f \in Ids, NEW n \in Nat, UNCHANGED adminVars,
           f \in OnSale => SeatsSetTo(f, n),
           f \notin OnSale => db' = db,
           stale' = [stale EXCEPT ![f] = Copies],
           used' = used, offered' = offered,
           returning' = returning \/ returning' = [returning EXCEPT ![f] = NotReturning],
           sales' \in 0 .. MaxSales, sales <= sales',
           overwritten \subseteq overwritten', overwritten' \subseteq Ids,
           sold' \in [Ids -> 0 .. MaxSales], \A g \in Ids : sold'[g] <= sales',
           \A g \in Ids : g # f => sold'[g] = sold[g],
           f \in used["flight"], returning'[f] # NotReturning => sold'[f] > 0,
           f \in OnSale' /\ f \notin overwritten' => n = offered[f] - sold'[f]
    PROVE  AdminInv'
<1>1. /\ UNCHANGED <<plan, tab, loads, loading, shown, editingId, form, write, writes, switched>>
  BY DEF adminVars
<1>2. /\ db \in [Tables -> [Ids -> RowType]] /\ used \in [Tables -> SUBSET Ids]
      /\ returning \in [Ids -> Nat \cup {NotReturning}]
      /\ offered \in [Ids -> Int] /\ stale \in [Ids -> SUBSET Copies]
      /\ "flight" \in Tables /\ "city" \in Tables /\ AdminTypeOK
  BY AdminTypes DEF AdminInv, CatalogTypeOK, Tables
<1>3. /\ db' \in [Tables -> [Ids -> RowType]]
      /\ f \in OnSale => db'["flight"][f].seats = n /\ db'["flight"][f].name = db["flight"][f].name
      /\ \A u \in Tables, j \in Ids : u # "flight" \/ j # f \/ f \notin OnSale => db'[u][j] = db[u][j]
  <2>1. CASE f \in OnSale
    BY <1>2, <2>1, SeatsSet
  <2>2. CASE f \notin OnSale
    BY <1>2, <2>2
  <2> QED BY <2>1, <2>2
<1>4. /\ returning' \in [Ids -> Nat \cup {NotReturning}] /\ stale' \in [Ids -> SUBSET Copies]
      /\ \A g \in Ids : returning'[g] \in {returning[g], NotReturning}
      /\ stale'[f] = Copies /\ \A g \in Ids : stale[g] \subseteq stale'[g]
  BY <1>2
<1>5. AdminTypeOK'
  <2>1. CatalogTypeOK'
    BY <1>2, <1>3, <1>4 DEF CatalogTypeOK
  <2> QED BY <1>1, <1>2, <2>1, AdminTypes, AdminTypesNext
<1>6. \A g \in OnSale' : g \in OnSale /\ g \in Ids /\ (g # f => Seats(g)' = Seats(g))
  BY <1>2, <1>3 DEF OnSale, Rows, Seats
<1>7. SalesLedger'
  <2>1. OnSale' \subseteq used'["flight"]
    BY <1>6 DEF AdminInv, SalesLedger
  <2>2. \A g \in Ids : sold'[g] # 0 => g \in used'["flight"]
    BY DEF AdminInv, SalesLedger
  <2>3. \A g \in Ids : returning'[g] # NotReturning => g \in used'["flight"] /\ sold'[g] > 0
    BY <1>4 DEF AdminInv, SalesLedger
  <2> QED BY <2>1, <2>2, <2>3 DEF SalesLedger
<1>8. CopiesTrue'
  <2>1. \A g \in OnSale' : \/ g \in OnSale /\ Seats(g)' = Seats(g)
                           \/ Copies \subseteq stale'[g]
                           \/ g \notin used["flight"]
    BY <1>4, <1>6
  <2> QED BY <1>1, <1>4, <2>1, CopiesStay
<1>9. WriteSane'
  BY <1>1 DEF AdminInv, WriteSane
<1>10. CityNames'
  <2>1. \A j \in Ids : db'["city"][j] = db["city"][j]
    BY <1>2, <1>3
  <2> QED BY <1>1, <2>1 DEF AdminInv, CityNames, Rows
<1>11. SalesSurvive'
  <2>1. SUFFICES ASSUME NEW g \in OnSale', g \notin overwritten'
                 PROVE  db'["flight"][g].seats = offered[g] - sold'[g]
    BY DEF SalesSurvive, OnSale
  <2>2. CASE g = f
    BY <1>3, <1>6, <2>1, <2>2
  <2>3. CASE g # f
    <3>1. db'["flight"][g].seats = db["flight"][g].seats /\ sold'[g] = sold[g]
      BY <1>6, <2>3 DEF Seats
    <3> QED BY <1>6, <2>1, <3>1 DEF AdminInv, SalesSurvive, OnSale
  <2> QED BY <2>2, <2>3
<1> QED BY <1>5, <1>7, <1>8, <1>9, <1>10, <1>11 DEF AdminInv

LEMMA SeatTaken ==
    ASSUME AdminInv, NEW f \in Ids, TakeSeat(f), UNCHANGED adminVars
    PROVE  AdminInv'
<1>1. /\ f \in OnSale /\ Seats(f) >= 1 /\ sales < MaxSales /\ sales' = sales + 1
      /\ db' = [db EXCEPT !["flight"][f].seats = @ - 1]
      /\ sold' = [sold EXCEPT ![f] = @ + 1] /\ stale' = [stale EXCEPT ![f] = Copies]
      /\ UNCHANGED <<used, returning, offered, overwritten>>
  BY DEF TakeSeat, OnSale, Seats
<1>2. /\ AdminTypeOK /\ db["flight"][f] \in RowType
      /\ sold \in [Ids -> 0 .. MaxSales] /\ offered \in [Ids -> Int] /\ overwritten \subseteq Ids
  BY AdminTypes DEF AdminInv, CatalogTypeOK, Tables
<1>3. /\ sold[f] \in Nat /\ sold[f] <= sales /\ sales \in Nat /\ MaxSales \in Nat
      /\ \A g \in Ids : sold[g] \in Nat /\ sold[g] <= sales
  BY <1>2, SoldTypes, CatalogAssumption DEF AdminInv, SalesLedger
<1>4. Seats(f) \in Nat
  BY <1>2 DEF Seats, RowType
<1> DEFINE n == Seats(f) - 1
<1>5. n \in Nat /\ SeatsSetTo(f, n)
  BY <1>1, <1>4 DEF Seats, SeatsSetTo, RowSet
<1>6. /\ sold'[f] = sold[f] + 1 /\ \A g \in Ids : g # f => sold'[g] = sold[g]
  BY <1>1, <1>2
<1>7. sold[f] + 1 \in 0 .. MaxSales /\ sales' \in 0 .. MaxSales /\ sales <= sales'
  BY <1>1, <1>3
<1>8. sold' \in [Ids -> 0 .. MaxSales]
  BY <1>1, <1>2, <1>7
<1>9. \A g \in Ids : sold'[g] <= sales'
  BY <1>1, <1>3, <1>6
<1>10. /\ f \in used["flight"] /\ (returning'[f] # NotReturning => sold'[f] > 0)
  BY <1>1, <1>3, <1>6 DEF AdminInv, SalesLedger
<1>11. f \notin overwritten' => n = offered[f] - sold'[f]
  <2>1. offered[f] \in Int
    BY <1>2
  <2> QED BY <1>1, <1>3, <1>4, <1>6, <2>1 DEF AdminInv, SalesSurvive, OnSale, Seats
<1> HIDE DEF n
<1> QED BY <1>1, <1>2, <1>5, <1>6, <1>7, <1>8, <1>9, <1>10, <1>11, SeatsBooked

LEMMA SeatReturned ==
    ASSUME AdminInv, NEW f \in Ids, ReturnWrite(f), UNCHANGED adminVars
    PROVE  AdminInv'
<1>1. /\ returning[f] # NotReturning /\ returning' = [returning EXCEPT ![f] = NotReturning]
      /\ db' = IF f \in OnSale THEN [db EXCEPT !["flight"][f].seats = returning[f] + 1] ELSE db
      /\ sold' = [sold EXCEPT ![f] = @ - 1]
      /\ overwritten' = IF "return" \in stale[f] THEN overwritten \cup {f} ELSE overwritten
      /\ stale' = [stale EXCEPT ![f] = Copies]
      /\ UNCHANGED <<used, offered, sales>>
  BY DEF ReturnWrite, OnSale
<1>2. /\ AdminTypeOK /\ returning \in [Ids -> Nat \cup {NotReturning}]
      /\ sold \in [Ids -> 0 .. MaxSales] /\ offered \in [Ids -> Int] /\ overwritten \subseteq Ids
      /\ sales \in 0 .. MaxSales
  BY AdminTypes DEF AdminInv, CatalogTypeOK
<1>3. /\ sold[f] \in Nat /\ sold[f] > 0 /\ sold[f] <= MaxSales /\ sales \in Nat /\ MaxSales \in Nat
      /\ \A g \in Ids : sold[g] \in Nat /\ sold[g] <= sales
  BY <1>1, <1>2, SoldTypes, CatalogAssumption DEF AdminInv, SalesLedger
<1> DEFINE n == returning[f] + 1
<1>4. n \in Nat
  <2>1. returning[f] \in Nat
    BY <1>1, <1>2
  <2> QED BY <2>1
<1>5. /\ sold'[f] = sold[f] - 1 /\ \A g \in Ids : g # f => sold'[g] = sold[g]
      /\ returning'[f] = NotReturning
  BY <1>1, <1>2
<1>6. sold[f] - 1 \in 0 .. MaxSales
  BY <1>3
<1>7. sold' \in [Ids -> 0 .. MaxSales]
  BY <1>1, <1>2, <1>6
<1>8. \A g \in Ids : sold'[g] <= sales'
  BY <1>1, <1>3, <1>5
<1>9. f \in OnSale' /\ f \notin overwritten' => n = offered[f] - sold'[f]
  <2>1. SUFFICES ASSUME f \in OnSale', f \notin overwritten' PROVE n = offered[f] - sold'[f]
    OBVIOUS
  <2>2. f \in OnSale
    BY <1>1, <2>1 DEF OnSale, Rows
  <2>3. "return" \notin stale[f] /\ f \notin overwritten
    BY <1>1, <2>1
  <2>4. returning[f] = Seats(f)
    BY <1>1, <2>2, <2>3 DEF AdminInv, CopiesTrue, ReturnTrue
  <2>5. Seats(f) = offered[f] - sold[f]
    BY <2>2, <2>3 DEF AdminInv, SalesSurvive, OnSale, Seats
  <2>6. offered[f] \in Int
    BY <1>2
  <2> QED BY <1>3, <1>5, <2>4, <2>5, <2>6
<1>10. f \in used["flight"]
  BY <1>1 DEF AdminInv, SalesLedger
<1>11. /\ f \in OnSale => SeatsSetTo(f, n)
       /\ f \notin OnSale => db' = db
  BY <1>1 DEF SeatsSetTo, RowSet
<1>12. overwritten \subseteq overwritten' /\ overwritten' \subseteq Ids /\ sales <= sales'
  BY <1>1, <1>2, <1>3
<1> HIDE DEF n
<1> QED BY <1>1, <1>2, <1>4, <1>5, <1>7, <1>8, <1>9, <1>10, <1>11, <1>12, SeatsBooked

LEMMA ReturnStarted ==
    ASSUME AdminInv, NEW f \in Ids, ReturnRead(f), UNCHANGED adminVars
    PROVE  AdminInv'
<1>1. /\ f \in OnSale /\ sold[f] > 0
      /\ returning' = [returning EXCEPT ![f] = Seats(f)]
      /\ stale' = [stale EXCEPT ![f] = @ \ {"return"}]
      /\ UNCHANGED <<db, used, offered, sold, sales, overwritten>>
      /\ UNCHANGED <<plan, tab, loads, loading, shown, editingId, form, write, writes, switched>>
  BY DEF ReturnRead, OnSale, Seats, adminVars
<1>2. /\ db["flight"][f] \in RowType /\ returning \in [Ids -> Nat \cup {NotReturning}]
      /\ stale \in [Ids -> SUBSET Copies] /\ AdminTypeOK
  BY AdminTypes DEF AdminInv, CatalogTypeOK, Tables
<1>3. Seats(f) \in Nat
  BY <1>2 DEF Seats, RowType
<1>4. /\ returning' \in [Ids -> Nat \cup {NotReturning}] /\ stale' \in [Ids -> SUBSET Copies]
      /\ returning'[f] = Seats(f) /\ \A g \in Ids : g # f => returning'[g] = returning[g]
      /\ \A g \in Ids : \A copy \in Copies \ {"return"} : copy \in stale'[g] <=> copy \in stale[g]
      /\ \A g \in Ids : g # f => stale'[g] = stale[g]
  BY <1>1, <1>2, <1>3
<1>5. AdminTypeOK'
  <2>1. CatalogTypeOK'
    BY <1>1, <1>2, <1>4, AdminTypes DEF CatalogTypeOK
  <2> QED BY <1>1, <1>2, <2>1, AdminTypes, AdminTypesNext
<1>6. OnSale' = OnSale /\ OnSale \subseteq Ids /\ \A g \in Ids : Seats(g)' = Seats(g)
  BY <1>1 DEF OnSale, Rows, Seats
<1>7. SalesLedger' /\ SalesSurvive'
  <2>1. f \in used["flight"]
    BY <1>1 DEF AdminInv, SalesLedger
  <2>2. SalesLedger'
    BY <1>1, <1>4, <1>6, <2>1 DEF AdminInv, SalesLedger
  <2> QED BY <1>1, <2>2 DEF AdminInv, SalesSurvive, Rows
<1>8. TableTrue' /\ FormTrue' /\ RequestTrue'
  BY <1>1, <1>4, <1>6
     DEF AdminInv, CopiesTrue, TableTrue, FormTrue, RequestTrue, Copies
<1>9. ReturnTrue'
  BY <1>1, <1>4, <1>6 DEF AdminInv, CopiesTrue, ReturnTrue
<1>10. WriteSane'
  BY <1>1 DEF AdminInv, WriteSane
<1>11. CityNames'
  BY <1>1 DEF AdminInv, CityNames, Rows
<1> QED BY <1>5, <1>7, <1>8, <1>9, <1>10, <1>11 DEF AdminInv, CopiesTrue

-------------------------------------------------------------------------------
LEMMA AdminStep == ASSUME AdminInv, [AdminNext]_<<catalogVars, adminVars>> PROVE AdminInv'
<1>1. CASE UNCHANGED <<catalogVars, adminVars>>
  <2>1. /\ SeatsKept /\ stale' = stale
        /\ UNCHANGED <<plan, tab, loads, loading, shown, editingId, form, write, writes, switched>>
    BY <1>1 DEF catalogVars, adminVars, SeatsKept
  <2>2. /\ stale \in [Ids -> SUBSET Copies] /\ write \in WriteType /\ loads \subseteq Tabs
        /\ loading \in BOOLEAN /\ writes \in 0 .. MaxWrites
    BY AdminTypes DEF AdminInv, CatalogTypeOK
  <2>3. RequestTrue' /\ WriteSane'
    BY <2>1 DEF AdminInv, CopiesTrue, RequestTrue, WriteSane, SeatsKept, OnSale, Rows, Seats
  <2> QED BY <2>1, <2>2, <2>3, WriteChanged DEF AdminInv, CityNames
<1>2. ASSUME NEW t \in Tabs, SwitchTab(t) \/ Loaded(t) PROVE AdminInv'
  BY <1>2, TabSwitched, TableLoaded
<1>3. ASSUME NEW i \in Ids, Booking(i) PROVE AdminInv'
  BY <1>3, SeatTaken, SeatReturned, ReturnStarted DEF Booking
<1> QED
  BY <1>1, <1>2, <1>3, EditStarted, FormEdited, RowSaved, OthersSent, WriteMoves, RowCreated,
     RowUpdated, RowDeleted, WriteAnswered
     DEF AdminNext

-------------------------------------------------------------------------------
(* The browser: a visit changes the state of one part *)

BrowserInv == AuthInv /\ AdminInv /\ SearchInv /\ PagesInv /\ PasswordInv

LEMMA BrowserStep ==
    ASSUME BrowserInv, [BrowserNext]_browserVars
    PROVE  BrowserInv'
<1>1. /\ [AuthNext]_authVars /\ [AdminNext]_<<catalogVars, adminVars>> /\ [SearchNext]_searchVars
      /\ [BookingNext]_bookingVars /\ [PasswordNext]_passwordVars
  BY DEF BrowserNext, browserVars, adminPageVars
<1> QED
  BY <1>1, AuthStep, AdminStep, SearchStep, PagesStep, PasswordStep DEF BrowserInv

(* The inductive invariant of every part holds whatever part is visited. *)
THEOREM BrowserInvariant == BrowserSpec => []BrowserInv
<1>1. BrowserInit => BrowserInv
  BY AuthStart, AdminStart, SearchStart, PagesStart, PasswordStart DEF BrowserInit, BrowserInv
<1>2. BrowserInv /\ [BrowserNext]_browserVars => BrowserInv'
  BY BrowserStep
<1> QED BY <1>1, <1>2, PTL DEF BrowserSpec

(* The state of every page, of the interceptors and of the tables is of its type. *)
THEOREM BrowserTypeCorrect == BrowserSpec => []BrowserTypeOK
<1>1. BrowserInv => BrowserTypeOK
  BY UserIsTokens, ResultsTrue, PagesTrue DEF BrowserInv, BrowserTypeOK, AdminInv, PasswordInv
<1> QED BY <1>1, BrowserInvariant, PTL

(* At rest, and if no two changes of the sign-in state overtook each other, the   *)
(* user that AuthContext shows is the one its token and the interceptors' token   *)
(* were issued to, whatever calls were refused and refreshed meanwhile.           *)
THEOREM SignedInAsShown == BrowserSpec => []TokenMatchesUser
<1>1. BrowserInv => TokenMatchesUser
  BY UserIsTokens DEF BrowserInv
<1> QED BY <1>1, BrowserInvariant, PTL

(* The search page shows the flights of its last search, a booking form books     *)
(* once, what was cancelled is shown as cancelled unless a payment of it was      *)
(* under way, a payment that failed is not shown as made, and the password that   *)
(* is reset is that of the email it shows.                                        *)
THEOREM PagesTruthful == BrowserSpec => []PagesTellTheTruth
<1>1. BrowserInv => PagesTellTheTruth
  BY ResultsTrue, PagesTrue DEF BrowserInv, PagesTellTheTruth, PasswordInv
<1> QED BY <1>1, BrowserInvariant, PTL

(* While staff edit rows and bookings take and return seats, a flight has the     *)
(* seats that were put on offer less those sold unless a stale number was written *)
(* over them, and a city keeps a city's name unless the tab was switched in the   *)
(* middle of an edit.                                                             *)
THEOREM AdminSavesTrue == BrowserSpec => []AdminSavesWhatItShows
<1>1. BrowserInv => AdminSavesWhatItShows
  BY DEF BrowserInv, AdminInv, AdminSavesWhatItShows, CityNames, CityNamesAreCityNames
<1> QED BY <1>1, BrowserInvariant, PTL

==================================================================================
