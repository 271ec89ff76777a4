SPECIFICATION FairSpec
CONSTANTS
    NGu = 1
    MaxDay = 2
    Texts = {a}
    Dated = {a}
    Undated = {}
    Blank = Blank
    Empty = Empty
    Count = 1
    ModelBound = TRUE
    MaxMsgs = 1
    MaxFaults = 1
    MaxCrashes = 1
PROPERTIES EntryHandled NoticeClaimed
CHECK_DEADLOCK FALSE
