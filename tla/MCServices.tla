------------------------------- MODULE MCServices -------------------------------
(* Services on small sets: events and runs that come up together with their  *)
(* faults; two connections, two payments of one booking and one of another,  *)
(* and a request that needs one at a time; two flights and a booking in a    *)
(* day of two hours.                                                         *)
EXTENDS Services

CONSTANTS e1, e2, w1, w2, p1, p2, p3, o1

MCKey == [e \in Events |-> IF e = e1 THEN "booking" ELSE "register"]
MCLoads == {[tasks |-> {e1, e2}, faults |-> 1], [tasks |-> {e1, w1}, faults |-> 1],
            [tasks |-> {w1, w2}, faults |-> 1], [tasks |-> {e1}, faults |-> 3],
            [tasks |-> {w1}, faults |-> 2]}

MCOf == [r \in Requests |-> IF r \in {p1, p2, o1} THEN 1 ELSE 2]

MCTimes == {<<1, 2>>, <<3, 4>>}
================================================================================
