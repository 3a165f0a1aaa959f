CONSTANTS
    a = a
    b = b
    Panes <- MCPanes
    Sizes = {1, 2}
    Worlds <- MCRoundWorlds
    MaxQueue = 2
    NoPane = NoPane
    NoSize = NoSize
    NoHold = NoHold
    NoAnswer = NoAnswer
SPECIFICATION Spec
INVARIANT TakenAtItsWord
CHECK_DEADLOCK FALSE
