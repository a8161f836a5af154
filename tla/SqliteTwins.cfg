SPECIFICATION Spec
CONSTANTS
    Reservations = {r1, r2}
    Shows = {s1}
    Quantities = {1, 2}
    Cap = 2
    MaxRetries = 0
    Copies = 2
    Extra = {"expired"}
    Workers = {w1, w2}
    Isolation = "sqlite"
    Prompt = TRUE
    Faults = {"request", "webhook", "reply"}
SYMMETRY Symmetry
CHECK_DEADLOCK FALSE
INVARIANTS IInv HoldExact AnsweredIsApplied
PROPERTY ImplementsLedger
