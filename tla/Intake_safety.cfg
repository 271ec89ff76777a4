SPECIFICATION Spec
CONSTANTS
    NGu = 2
    MaxDay = 1
    Texts = {a, u}
    Dated = {a}
    Undated = {u}
    Blank = Blank
    Empty = Empty
    Count = 1
    ModelBound = TRUE
    MaxMsgs = 2
    MaxFaults = 2
    MaxCrashes = 1
INVARIANTS TypeOK AdmittedOnce AckAccounted StrandedPerFault
CHECK_DEADLOCK FALSE
