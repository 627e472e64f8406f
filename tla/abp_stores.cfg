\* The database under two processes and one crash, every way an append can be cut short; adds and removals that fail or are killed.
SPECIFICATION StoresSpec
CONSTANTS
    NoOwner = NoOwner
    Absent = Absent
    Partial = Partial
    None = None
    Gone = Gone
    Foreign = Foreign
    Broken = Broken
    Paths = {f1}
    Names = {a}
    Versions = {v1, v2}
    Procs = {p1, p2}
    CutsPossible <- Cuts
    MaxLines = 1
    MaxCrashes = 1
INVARIANTS TypeOK TargetsWhole RenamesItsOwnData TempFilesCleaned
PROPERTIES RecordsAreAtomic CommitIsComplete TransactionsEnd
