SPECIFICATION FairSpec
CONSTANTS
    jambase = jambase
    other = other
    Searches = {s1, s2}
    Providers <- TwoProviders
    Queries = {austin, la}
    Places = {p1, p2}
    Filters = {all}
    TTL = 0
    MaxEntries = 2
    Horizon = 1
CHECK_DEADLOCK FALSE
INVARIANTS SearchInv PagesFit NeverGuesses AnswersOnly
PROPERTY LocatedIsAnswered
