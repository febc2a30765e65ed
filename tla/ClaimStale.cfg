\* Does a search after an ingest serve the new corpus?
SPECIFICATION FairSpec
CONSTANTS
    Threads = {s1}
    Indexers = {i1}
    Ids = {c1, c2}
    Texts = {old, new}
    Folders <- GrowingFolders
    PoolSize = 2
    NResults = 1
    MaxWasted = 0
    None = None
INVARIANTS
    NeverServesStaleCorpus
