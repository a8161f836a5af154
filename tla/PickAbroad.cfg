SPECIFICATION Spec
CONSTANTS
    Cities <- World
    Typed <- Texts
    Begins <- MCBegins
    USStates <- MCStates
    MaxRetries = 2
INVARIANT PickSettles
