\* Adds of which any step may fail, two of them, and removals: four packages, one of which depends on another.
SPECIFICATION Spec
CONSTANTS
    NoOwner = NoOwner
    None = None
    Gone = Gone
    Foreign = Foreign
    Broken = Broken
    NameOf <- MCNameOf
    VersionOf <- MCVersionOf
    FilesOf <- MCFilesOf
    DirOf <- MCDirOf
    Available = {}
    Pkgs = {"a1", "a2", "b1", "c1"}
    Names = {"a", "b", "c"}
    Paths = {"f1", "f2", "f3", "f4", "f5"}
    ConfigFiles = {}
    InitialFiles = {"f1"}
    DependsOf <- Depending
    ProvidesOf <- Nothing
    ReplacesOf <- Nothing
    ConflictsOf <- Nothing
    AddRequests <- UpToTwo
    Flags = {}
    Faults = {"memory", "open", "write", "register", "torn", "put"}
    MaxFaults = 2
INVARIANTS OwnersAreInstalled DependenciesInstalled
PROPERTIES RollbackRestoresFresh
