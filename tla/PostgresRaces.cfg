SPECIFICATION Spec
CONSTANTS
    Reservations = {r1, r2, r3}
    Shows = {s1}
    Quantities = {1, 2}
    Cap = 2
    MaxRetries = 1
    Copies = 1
    Extra = {"other"}
    Workers = {w1, w2}
    Isolation = "postgres"
    Prompt = TRUE
    Faults = {"request", "webhook", "reply"}
CHECK_DEADLOCK FALSE
SYMMETRY Symmetry
INVARIANTS TypeOK IInv NoOversell PaidKept OneSession
