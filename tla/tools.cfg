\* Applets that handle files and text, sessions, transfers, formats and languages: the instances in MC_Tools.
SPECIFICATION ToolsSpec
CONSTANTS
    Beyond = {}
    Lengths = {1, 3, 5}
    Transfers = {1, 2}
    Width = 4
    Lifetime = 2
    MaxFaults = 3
CHECK_DEADLOCK FALSE
INVARIANTS FilesAreKept EditsAreAsMeant SessionsAreKept TransfersAreWhole ArchivesRestore LanguagesAreRead
