----------------------------- MODULE MCSearchCache -----------------------------
(* SearchCache with a one-way key on one route and a round trip on both. *)
EXTENDS SearchCache

CONSTANTS out, back, oneway, round

MCReads == [k \in Keys |-> IF k = oneway THEN {out} ELSE {out, back}]
================================================================================
