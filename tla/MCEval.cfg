\* Every pair of rankings, every reranking, every pair of latencies.
SPECIFICATION Spec
CONSTANTS
    Ids <- MCIds
    Corpora <- MCCorpora
    Golden <- MCGolden
    RrfK = 60
    PoolSize = 3
    K = 2
    MaxTime = 3
    None = None
INVARIANTS
    TypeOK
    FusionRespectsAgreement
    MetricsAgree
    ReportIsWhole
\* A run ends.
CHECK_DEADLOCK FALSE
