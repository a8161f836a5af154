SPECIFICATION Spec
CONSTANTS
    Locations = {"austin", "la"}
    Windows = {"week", "month"}
    Sorts = {"date", "distance"}
    Genres = {"pop", "rock"}
    MaxSearches = 3
CHECK_DEADLOCK FALSE
INVARIANTS TypeOK CandidatesAlone ShownIsAsked FiltersHaveChips
