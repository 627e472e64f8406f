\* The shell: two lines with one failure, scripts of up to six commands.
\* init, xargs, nbd and screen: the instances in MC_Applets.
SPECIFICATION AppletsSpec
CONSTANTS
    Lines <- MCLines
    MaxLines = 2
    MaxLen = 3
    Capacity = 1
    MaxFaults = 1
    MaxRan = 6
CHECK_DEADLOCK FALSE
INVARIANTS TypeOK EndsBelongToTheirCommands ForegroundIsOver RunsAsPosix ChildrenAreKept NbdIsRight
PROPERTY AppletsGoOn
