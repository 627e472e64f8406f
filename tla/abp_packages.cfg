\* Worlds to resolve and versions; archives; updates by two processes; indexes; transactions; the database of one process.
SPECIFICATION PackagesSpec
CONSTANTS
    p = p
    q = q
    r = r
    v = v
    Names = {p, q, r, v}
    Deps <- MCDeps
    Needs <- MCNeeds
    SatisfiedBy <- MCSatisfiedBy
    Versions <- MCVersions
    Worlds <- MCWorlds
    U32Max = 1000
    U64Max = 99
    Missing = Missing
    Truncated = Truncated
    NoOwner = NoOwner
    Packages <- MCPackages
    Components <- MCComponents
    Repos <- MCRepos
    Pkgs = {"a", "b"}
    Updaters = {"u1", "u2"}
    Offers <- MCOffers
    MaxCommands = 4
    MaxFaults = 1
    Files = {"f", "g"}
    FileContents = {1}
    NoSuchFile = 0
    CutShort = 9
    Operations <- MCOperations
    MaxOps = 2
    MaxTime = 1
    MaxRuns = 2
    PackageLists <- Lists
    SoughtNames <- IndexNames
    U16 = 4
    U32 = 10
CHECK_DEADLOCK FALSE
INVARIANTS TypeOK DependenciesFirst OrderedOnce SearchIsExact VersionsAreOrdered
INVARIANTS PayloadsAreAsVerified RepositoriesAreAsCommanded IndexIsFaithful
PROPERTIES ResolutionEnds RollbackRestoresFiles OneProcessSuffices
