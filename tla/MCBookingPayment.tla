-------------------------- MODULE MCBookingPayment --------------------------
(* BookingPayment on small sets, for TLC. *)
EXTENDS BookingPayment, TLC

Symmetry == Permutations(Handlers)
=============================================================================
