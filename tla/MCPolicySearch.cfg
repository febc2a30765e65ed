\* Two threads search corpora from none to all of the chunks; no ingest runs.
SPECIFICATION Spec
CONSTANTS
    Threads = {s1, s2}
    Indexers = {}
    Ids <- NumberedIds
    Texts <- OwnTexts
    Folders <- NumberedFolders
    PoolSize = 3
    NResults = 2
    MaxWasted = 0
    None = None
INVARIANTS
    ServesTheStore
