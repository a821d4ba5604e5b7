CONSTANTS
    SlotCapacity = 2
    MaxInFlight = 2
    MaxResident = 3
    MaxGeneration = 2
    MaxRequests = 4
    Sizes = {1, 2}
SPECIFICATION FairSpec
INVARIANT AccountsAreExact
INVARIANT ReferencesStayValid
INVARIANT LifetimeIsClean
PROPERTY CallsReturn
