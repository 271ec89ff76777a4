SPECIFICATION Spec
CONSTANTS
    Null = Null
    Words = {"Seoul", "special", "si", "Jung", "Mapo", "gu", "unsorted"}
    Trim <- MCTrim
    Table <- MCTable
    Links = {"way"}
    Kakao <- MCKakao
    Texts <- MCTexts
    Near <- MCNear
    StopOf <- MCStopOf
    Track <- MCTrack
    Called <- MCCalled
    Districts = {"Jung", "Mapo"}
    MaxAnalyses = 2
    MaxFaults = 1
    MaxRestarts = 1
INVARIANTS TypeOK EachOnItsOwn Upright PostedInFull ClosureScope
PROPERTIES OnBoard
CHECK_DEADLOCK FALSE
