SPECIFICATION Spec
CONSTANTS
    Files = {1, 2, 3, 4}
    Directories = 2
    DirOf <- MCDirOf
    Inodes = {1, 2, 3}
    Inode <- MCInode
    Manifests <- MCManifests
    MaxVersion = 2
    RuntimeApi <- MCRuntimeApi
    Platform = {"linux", "ios"}
    CurrentPlatform = "linux"
    MaxChanges = 1
INVARIANTS EveryFileAccounted LoadedFits UnrelatedSpared GraphAnswers
CHECK_DEADLOCK FALSE
