----------------------------- MODULE MCBookingSaga -----------------------------
(* BookingSaga on two flights and three clients: a round trip, and a one-way   *)
(* trip on each of its flights.                                                *)
EXTENDS BookingSaga

CONSTANTS f1, f2, k1, k2, k3, c1, c2

MCParty == [k \in Clients |-> 1]
MCOffered == [f \in Flights |-> IF f = f1 THEN 2 ELSE 1]
MCOutbound == [k \in Clients |-> IF k = k2 THEN f2 ELSE f1]
MCReturn == [k \in Clients |-> IF k = k1 THEN f2 ELSE NoFlight]

\* Two requests may end the one-way booking, one the round trip, none the other.
MCLater == [k \in Clients |-> IF k = k3 THEN {c1, c2} ELSE IF k = k1 THEN {c1} ELSE {}]

\* At most one request per booking.
MCOnce == [k \in Clients |-> {c1}]
================================================================================
