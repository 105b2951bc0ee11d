-------------------------------- MODULE Services --------------------------------
(***************************************************************************)
(* Three parts of the services beside the requests about one booking: the  *)
(* notification service, the database connections of the booking service,  *)
(* and the times of flights with the rules and the job that read them.     *)
(* They share no state: connections are held by statements whatever these  *)
(* say, and the notification service is given departures by their legs     *)
(* alone.  So a behaviour is one of the parts, and the others stay as they *)
(* start.                                                                  *)
(***************************************************************************)
EXTENDS Notifications, ConnectionPool, Departures

VARIABLE part

Parts == {"notifications", "connections", "departures"}
servicesVars == <<part, notificationVars, poolVars, departureVars>>

\* Without the notification service its initial state is one of those it may have.
ServicesInit ==
    /\ part \in Parts
    /\ NotificationsInit /\ PoolInit /\ DeparturesInit
    /\ part # "notifications" =>
          LET load == CHOOSE l \in Loads : TRUE
          IN  /\ linked /\ smtp /\ bound = {} /\ unsent = load.tasks \cap Events
              /\ due = load.tasks \cap Runs /\ maxFaults = load.faults

ServicesNext ==
    \/ part = "notifications" /\ NotificationsNext /\ UNCHANGED <<part, poolVars, departureVars>>
    \/ part = "connections" /\ PoolNext /\ UNCHANGED <<part, notificationVars, departureVars>>
    \/ part = "departures" /\ DeparturesNext /\ UNCHANGED <<part, notificationVars, poolVars>>

(* The fairness of each part: nothing of a part that stays as it starts is   *)
(* enabled.                                                                  *)
ServicesSpec ==
    /\ ServicesInit /\ [][ServicesNext]_servicesVars
    /\ NotificationsFair /\ PoolFair

-------------------------------------------------------------------------------
(* The state of every part is of its type. *)
ServicesTypeOK == NotificationsTypeOK /\ PoolTypeOK /\ DeparturesTypeOK
================================================================================
