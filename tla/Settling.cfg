SPECIFICATION SiteFairSpec
CONSTANTS
    Reservations = {r1, r2}
    Shows = {s1}
    Quantities = {1}
    Cap = 1
    MaxRetries = 0
    Copies = 1
    Extra = {"other"}
    Workers = {w1}
    Isolation = "sqlite"
    Prompt = TRUE
    Faults = {"webhook", "reply"}
    Buyers = {b1, b2}
    Polls = 2
    Settings <- EverySetting
CHECK_DEADLOCK FALSE
INVARIANTS SiteTypeOK SuccessPageIsTrue RefusedHoldsNothing
PROPERTIES TestModeOnly EveryHoldSettles PaidIsConfirmed
