SPECIFICATION HostSpec
CONSTANTS
    RestoreScenes <- MCRestoreScenes
    FsckScenes <- MCFsckScenes
    ScanScenes <- MCScanScenes
    RootsScenes <- MCRootsScenes
    KeyScenes <- MCKeyScenes
    StoreScenes <- MCStoreScenes
    ChangeScenes <- MCChangeScenes
    ChangePaths <- MCChangePaths
    ChangeChoices <- MCChangeChoices
    DaemonScenes <- MCDaemonScenes
    BranchScenes <- MCBranchScenes
    BranchNames <- MCBranchNames
    HostPart <- MCHostPart
    HostStem <- MCHostStem
    HostFiles <- MCHostFiles
    HostRootOf <- MCHostRootOf
    HostBlobs = {"x", "y"}
    HostLarges = {"l"}
    HostProcs = {"p", "q"}
    HostIds <- MCHostIds
    HostKeys = {"k1", "k2", "k3"}
INVARIANTS RestoreIsExact FsckIsSound WalkTakesManaged ChangeIsKept KeepsHistory StoreIsSound ChangesAreExact DaemonIsSound RefsAreSound
CONSTRAINT Unhurt
CHECK_DEADLOCK FALSE
