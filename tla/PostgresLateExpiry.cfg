SPECIFICATION Spec
CONSTANTS
    Reservations = {r1, r2}
    Shows = {s1}
    Quantities = {1, 2}
    Cap = 2
    MaxRetries = 0
    Copies = 1
    Extra = {"expired"}
    Workers = {w1, w2}
    Isolation = "postgres"
    Prompt = TRUE
    Faults = {}
SYMMETRY Symmetry
CHECK_DEADLOCK FALSE
PROPERTY ConfirmedStays
