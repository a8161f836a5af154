SPECIFICATION Spec
CONSTANTS
    Providers <- TwoProviders
    Universe <- WithTrouble
    Folded <- MCFolded
    Windows <- AllWindows
    Days = {0, 5, 6}
    Limit = 2
    MaxPage = 3
CHECK_DEADLOCK FALSE
INVARIANTS MergeInv RichestOfEachShow NothingInvented SoonestShown UnknownPlacesLast ErrorsHaveACause FacetsMatchShown
