-------------------------------- MODULE Browser --------------------------------
(***************************************************************************)
(* The frontend in one tab.  App.jsx routes to one page at a time, and a   *)
(* page's state is made when it is opened and gone when it is left; what   *)
(* all pages share is the sign-in state and the interceptors of            *)
(* BrowserAuth.  A behaviour is one visit: to the calls and sign-ins of    *)
(* any page, or to the state of one of the others, whose requests need no  *)
(* more of BrowserAuth than to be answered or to fail.                     *)
(***************************************************************************)
EXTENDS BrowserAuth, AdminPage, SearchPage, BookingPages, PasswordPage

VARIABLE visit

Visits == {"auth", "admin", "search", "bookings", "password"}
adminPageVars == <<catalogVars, adminVars>>
browserVars == <<visit, authVars, adminPageVars, searchVars, bookingVars, passwordVars>>

\* The parts that are not visited start, and stay, at one of their initial states.
BrowserInit ==
    /\ visit \in Visits
    /\ AuthInit /\ AdminInit /\ SearchInit /\ BookingInit /\ PasswordInit
    /\ visit # "auth" => able = (CHOOSE load \in Loads : TRUE) /\ cookie = NoOne
    /\ visit # "admin" =>
           /\ plan = (CHOOSE p \in Plans : TRUE)
           /\ db["flight"] = [i \in Ids |-> NoRow]
           /\ offered[Seeded] = MaxCapacity
    /\ visit # "password" => ~signedIn

BrowserNext ==
    \/ /\ visit = "auth" /\ AuthNext
       /\ UNCHANGED <<visit, adminPageVars, searchVars, bookingVars, passwordVars>>
    \/ /\ visit = "admin" /\ AdminNext
       /\ UNCHANGED <<visit, authVars, searchVars, bookingVars, passwordVars>>
    \/ /\ visit = "search" /\ SearchNext
       /\ UNCHANGED <<visit, authVars, adminPageVars, bookingVars, passwordVars>>
    \/ /\ visit = "bookings" /\ BookingNext
       /\ UNCHANGED <<visit, authVars, adminPageVars, searchVars, passwordVars>>
    \/ /\ visit = "password" /\ PasswordNext
       /\ UNCHANGED <<visit, authVars, adminPageVars, searchVars, bookingVars>>

(* A request is answered or fails, and the handlers of its promise run.  The  *)
(* user is free to leave the page alone and the service to keep its tokens.   *)
BrowserSpec ==
    /\ BrowserInit /\ [][BrowserNext]_browserVars
    /\ WF_authVars(visit = "auth" /\ \E c \in Calls : Answer(c))

-------------------------------------------------------------------------------
(* The state of every part is of its type. *)
BrowserTypeOK ==
    AuthTypeOK /\ AdminTypeOK /\ SearchTypeOK /\ BookingTypeOK /\ PasswordTypeOK

(* What the admin saves is what the page showed: the seats on sale are those    *)
(* that were put on offer less those sold (SalesSurvive), and the name of a     *)
(* city was typed for a city (CityNamesAreCityNames), but for the cases named   *)
(* there, in which the dashboard does overwrite what happened meanwhile.        *)
AdminSavesWhatItShows == SalesSurvive /\ CityNamesAreCityNames

(* What a page tells its user is so: the flights are those of the last search,  *)
(* a form books once, a cancelled booking is shown as cancelled unless its      *)
(* payment was under way, a failed payment stays failed, and the password that  *)
(* is reset is that of the email.                                               *)
PagesTellTheTruth ==
    /\ ResultsOfLastSearch
    /\ OneBookingPerForm /\ CancelledIsShown /\ FailureIsFinal
    /\ ResetsItsEmail
================================================================================
