SPECIFICATION Spec
CONSTANTS
    SEC = 2
    MinTtl = 4
    BadEndTtl = 6
    Ends = {5, 9}
    NoEnd = NoEnd
    BadEnd = BadEnd
    Caller = {stream, table}
    Horizon = 16
INVARIANTS ReclaimedOnlyAtEnd ClaimsApart TwiceBeforeEnd
CHECK_DEADLOCK FALSE
