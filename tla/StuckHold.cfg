SPECIFICATION FairSpec
CONSTANTS
    Reservations = {r1, r2}
    Shows = {s1}
    Quantities = {1}
    Cap = 1
    MaxRetries = 1
    Copies = 1
    Extra = {"other"}
    Workers = {w1}
    Isolation = "sqlite"
    Prompt = TRUE
    Faults = {"request"}
CHECK_DEADLOCK FALSE
PROPERTY EveryHoldSettles
