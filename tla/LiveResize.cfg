CONSTANTS
    a = a
    b = b
    Panes <- MCPanes
    Sizes = {1, 2}
    Worlds <- MCWorlds
    MaxQueue = 2
    NoPane = NoPane
    NoSize = NoSize
    NoHold = NoHold
    NoAnswer = NoAnswer
SPECIFICATION FairSpec
INVARIANT TypeOK NoHoldOutlivesItsDrag TakenAtItsWordAlone EndIsTold NothingHeldBack
PROPERTY HeldBackTogether EveryHoldEnds EveryAnswerLands
CHECK_DEADLOCK FALSE
