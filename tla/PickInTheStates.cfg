SPECIFICATION Spec
CONSTANTS
    Cities <- American
    Typed <- Texts
    Begins <- MCBegins
    USStates <- MCStates
    MaxRetries = 2
INVARIANTS TypeOK RetriesWhereItHelps NoOtherFits PickSettles NotFoundIsTold
