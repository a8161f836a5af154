--------------------------- MODULE MCReservations ---------------------------
(***************************************************************************)
(* Small instances of the reservation service for TLC.                     *)
(***************************************************************************)
EXTENDS ReservationsInvariant, TLC

\* Reservation ids, workers and Stripe's copies are interchangeable.
Symmetry == Permutations(Reservations) \cup Permutations(Workers)
=============================================================================
