\* Adds and removals in which nothing fails but verification: five packages, conflicts, replacements.
SPECIFICATION Spec
CONSTANTS
    NoOwner = NoOwner
    None = None
    Gone = Gone
    Foreign = Foreign
    Broken = Broken
    NameOf <- MCNameOf
    VersionOf <- MCVersionOf
    FilesOf <- MCFilesOf
    DirOf <- MCDirOf
    Available = {}
    Pkgs = {"a1", "a2", "b1", "c1", "d1"}
    Names = {"a", "b", "c", "d", "v"}
    Paths = {"f1", "f2", "f3", "f4", "f5"}
    ConfigFiles = {"f4"}
    InitialFiles = {"f1"}
    DependsOf <- Nothing
    ProvidesOf <- Providing
    ReplacesOf <- Replacing
    ConflictsOf <- Conflicting
    AddRequests <- UpToTwo
    Flags = {"purge"}
    Faults = {"verify"}
    MaxFaults = 1
INVARIANTS TypeOK StoresAgree ExclusiveOwnership
PROPERTIES CommitIsComplete OthersFilesAreSafe ConflictsEnforced
