SPECIFICATION SyncSpec
CONSTANTS
    Syncs = {a}
    Files = {f}
    Chunks = {k, l}
    Nowhere = Nowhere
    MaxSyncs = 3
    MaxChanges = 2
    MaxBreaks = 0
PROPERTIES
    MemoryFollowsFiles
CHECK_DEADLOCK FALSE
