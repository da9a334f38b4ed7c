SPECIFICATION TurnsFairSpec
INVARIANTS
    TurnsAreFair
PROPERTIES
    PlacesAreKept
