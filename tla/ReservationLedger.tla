------------------------- MODULE ReservationLedger -------------------------
(***************************************************************************)
(* What the reservation service promises: a ledger in which a reservation  *)
(* is made only when its spots fit under the cap, and afterwards leaves    *)
(* "pending" once, for good.  A paid reservation keeps its spots; one that *)
(* expires, or whose Checkout never opened, gives them back.  The README's *)
(* state machine, read off the transitions in service.py.                  *)
(***************************************************************************)
EXTENDS ReservationRows

vars == <<body, status>>

Move(r, from, to) == /\ status[r] = from
                     /\ status' = [status EXCEPT ![r] = to]
                     /\ UNCHANGED body

Reserve(r) == /\ SpotsTaken(body[r].event_id) + body[r].quantity <= Cap
              /\ Move(r, "none", "pending")

Confirm(r) == Move(r, "pending", "confirmed")
Expire(r)  == Move(r, "pending", "expired")
Cancel(r)  == Move(r, "pending", "canceled")

Next == \E r \in Reservations :
           Reserve(r) \/ Confirm(r) \/ Expire(r) \/ Cancel(r)

Spec == RowsInit /\ [][Next]_vars
=============================================================================
