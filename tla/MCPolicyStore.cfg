\* Two threads search while one process re-indexes; every search ends.
SPECIFICATION FairSpec
CONSTANTS
    Threads = {s1, s2}
    Indexers = {i1}
    Ids = {c1, c2}
    Texts = {old}
    Folders <- GrowingFolders
    PoolSize = 2
    NResults = 1
    MaxWasted = 1
    None = None
INVARIANTS
    TypeOK
    LockProtects
    OneClientStands
    NoSelfDeadlock
    LookupsFailOnlyAfterIngest
PROPERTIES
    SearchesEnd
