\* A rebuild with the same version and other files.
SPECIFICATION Spec
CONSTANTS
    NoOwner = NoOwner
    None = None
    Gone = Gone
    Foreign = Foreign
    Broken = Broken
    Pkgs = {"a1", "a1r", "b1"}
    Names = {"a", "b"}
    Paths = {"f1", "f2", "f3", "f4"}
    ConfigFiles = {}
    Available = {}
    InitialFiles = {}
    Flags = {}
    Faults = {}
    MaxFaults = 0
    NameOf <- MCNameOf
    VersionOf <- MCVersionOf
    FilesOf <- MCFilesOf
    DependsOf <- Nothing
    ProvidesOf <- Nothing
    ConflictsOf <- Nothing
    ReplacesOf <- Nothing
    DirOf <- MCDirOf
    AddRequests <- Singles
INVARIANTS ExclusiveOwnership
