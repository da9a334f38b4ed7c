SPECIFICATION MCSpec
CONSTANTS
    Begin = Begin
    End = End
    b = b
    e = e
    both = both
    Calls = {b, e, both}
    Owns <- MCOwns
    Once = {b, e}
    Elsewhere = {End}
    Days = {1, 2}
    Unknown = Unknown
    Free = "free"
INVARIANTS
    RowsAreThePortals
    UnconfirmedIsAwaited
PROPERTIES
    WritesAreHonest
