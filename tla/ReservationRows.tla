-------------------------- MODULE ReservationRows --------------------------
(***************************************************************************)
(* The reservations table (src/app/reservations/models.py) and the count   *)
(* of spots that its rows claim.  The abstract ledger and the detailed     *)
(* service share this module: the first changes a row in one step, the     *)
(* second in the transactions of service.py.                               *)
(***************************************************************************)
EXTENDS Integers, FiniteSets

CONSTANTS Reservations,  \* reservation ids, one per POST /api/reservations
          Shows,         \* event ids
          Quantities,    \* the quantities people ask for
          Cap            \* settings.reservation_cap_per_event

MaxQuantity == 4         \* ReservationIn.quantity: Field(ge=1, le=4)

ASSUME ReservationsFinite == IsFiniteSet(Reservations)
ASSUME QuantitiesInRange  == Quantities \subseteq 1..MaxQuantity
ASSUME CapPositive        == Cap \in Nat \ {0}

VARIABLES body,          \* body[r]: event and quantity that request r asks for
          status         \* status[r]: the committed status column, or "none"

Body   == [event_id : Shows, quantity : Quantities]
Status == {"pending", "confirmed", "expired", "canceled"}
Live   == {"pending", "confirmed"}

RowsTypeOK == /\ body \in [Reservations -> Body]
              /\ status \in [Reservations -> Status \cup {"none"}]

RowsInit == /\ body \in [Reservations -> Body]
            /\ status = [r \in Reservations |-> "none"]

(***************************************************************************)
(* A spot is a pair <<r, i>>: the i-th place reservation r asked for.      *)
(* Pending and confirmed rows both consume capacity.                       *)
(***************************************************************************)
Spots(e) == {s \in Reservations \X (1..MaxQuantity) :
                /\ status[s[1]] \in Live
                /\ body[s[1]].event_id = e
                /\ s[2] <= body[s[1]].quantity}

SpotsTaken(e) == Cardinality(Spots(e))

(***************************************************************************)
(* No event ever has more spots pending or confirmed than its cap.         *)
(***************************************************************************)
NoOversell == \A e \in Shows : SpotsTaken(e) <= Cap
=============================================================================
