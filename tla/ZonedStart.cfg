SPECIFICATION Spec
CONSTANTS
    Providers <- JamBaseOnly
    Universe <- JamBaseZoned
    Folded <- MCFolded
    Windows = {"week"}
    Days = {0}
    Limit = 2
    MaxPage = 3
CHECK_DEADLOCK FALSE
INVARIANT NoRecordFailsASearch
