SPECIFICATION Spec
CONSTANTS
    BreakingChangeVersion = 3
    DefaultBindAddr <- MCBindAddr
    Versions <- MCVersions
    Configs <- MCConfigs
    Indexes <- MCIndexes
    Merges <- MCMerges
    Settings <- MCSettings
    Worlds <- MCWorlds
    Keys = {"x", "y"}
    Leaves = {"file", "text"}
    Depth = 2
    ValueKeys <- MCValueKeys
    ValueTexts <- MCValueTexts
CHECK_DEADLOCK FALSE
INVARIANTS AddressesMeetWhenClose ReplicasProbed IndexCleaned IndexLatest ValuesMerged ValuesPrecedence LatestDownloads CacheKeysSound
