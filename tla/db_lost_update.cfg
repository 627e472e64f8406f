\* Two processes rewrite the index: one writes back what the other removed or misses what it added.
SPECIFICATION Spec
CONSTANTS
    NoOwner = NoOwner
    Absent = Absent
    Partial = Partial
    Paths = {f1, f2}
    Names = {a, b}
    Versions = {v1}
    Procs = {p1, p2}
    CutsPossible = {"nothing", "all"}
    MaxLines = 3
    MaxCrashes = 0
PROPERTY UnregistersOnlyItsOwn
