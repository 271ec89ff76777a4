SPECIFICATION Spec
CONSTANTS
    NGu = 1
    MaxDay = 1
    Texts = {u}
    Dated = {}
    Undated = {u}
    Blank = Blank
    Empty = Empty
    Count = 1
    ModelBound = TRUE
    MaxMsgs = 1
    MaxFaults = 0
    MaxCrashes = 1
INVARIANT AckedIsAnalysed
CHECK_DEADLOCK FALSE
