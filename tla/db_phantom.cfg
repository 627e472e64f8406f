\* One process is killed between writing a record's temporary file and renaming it.
SPECIFICATION Spec
CONSTANTS
    NoOwner = NoOwner
    Absent = Absent
    Partial = Partial
    Paths = {f1, f2}
    Names = {a, b}
    Versions = {v1}
    Procs = {p1}
    CutsPossible = {"nothing", "all"}
    MaxLines = 3
    MaxCrashes = 1
INVARIANT ListsInstalledOnly
