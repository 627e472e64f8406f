\* A script whose last command is exit with an operand.
SPECIFICATION AppletsSpec
CONSTANTS
    Lines <- MCLines
    MaxLines = 2
    MaxLen = 3
    Capacity = 1
    MaxFaults = 1
    MaxRan = 6
CHECK_DEADLOCK FALSE
INVARIANTS ExitStatusIsReturned
