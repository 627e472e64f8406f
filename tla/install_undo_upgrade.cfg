\* A failed upgrade.
SPECIFICATION Spec
CONSTANTS
    NoOwner = NoOwner
    None = None
    Gone = Gone
    Foreign = Foreign
    Broken = Broken
    Pkgs = {"a1", "a2"}
    Names = {"a"}
    Paths = {"f1", "f2", "f3"}
    ConfigFiles = {}
    Available = {}
    InitialFiles = {}
    Flags = {}
    Faults = {"open"}
    MaxFaults = 1
    NameOf <- MCNameOf
    VersionOf <- MCVersionOf
    FilesOf <- MCFilesOf
    DependsOf <- Nothing
    ProvidesOf <- Nothing
    ConflictsOf <- Nothing
    ReplacesOf <- Nothing
    DirOf <- MCDirOf
    AddRequests <- Singles
PROPERTIES RollbackRestores
