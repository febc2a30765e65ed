---------------------------- MODULE EvalHarness ----------------------------
(***************************************************************************)
(* eval/run_eval.py: every golden query is first searched for and scored,  *)
(* then asked of the agent and timed; one report is written at the end.    *)
(* Nothing is caught: a search or a turn that raises ends the run and      *)
(* leaves no report.                                                       *)
(*                                                                         *)
(* Means and ratios are left to the reader of the report: a row keeps the  *)
(* counts they are made of.  Times are small numbers.                      *)
(***************************************************************************)
EXTENDS Retrieval

CONSTANTS
    Ids,            \* chunk ids
    Corpora,        \* the sets of chunks the store may hold
    Golden,         \* GOLDEN_SET: the expected ids of each query
    K,              \* results asked for
    MaxTime,        \* bounds a measured time
    None

\* 10^6 / log2(i + 1), the weight of the i-th result.
Discount == <<1000000, 630930, 500000, 430677>>

ASSUME EvalAssumption ==
    /\ IsFiniteSet(Ids)
    /\ Corpora \subseteq SUBSET Ids
    /\ Golden \in Seq((SUBSET Ids) \ {{}})
    /\ Golden # << >>
    /\ K \in 1..Len(Discount)
    /\ MaxTime \in Nat
    /\ None \notin Nat

VARIABLES
    corpus,         \* the chunks in the store, throughout the run
    pc,             \* the stage, one of Stages
    query,          \* the search just made: both rankings, pool and results
    rows,           \* retrieval_rows
    times,          \* latency_rows: time to first token, or None, and total
    report          \* latency_summary as written, or None

vars == <<corpus, pc, query, rows, times, report>>

-----------------------------------------------------------------------------
(* Metrics of one query.                                                   *)

Smaller(m, n) == IF m <= n THEN m ELSE n

Relevant(found, expected) == {i \in 1..Len(found) : found[i] \in expected}

\* 0, or the n of a reciprocal rank 1 / n.
ReciprocalRank(found, expected) ==
    LET hits == Relevant(found, expected)
    IN  IF hits = {} THEN 0 ELSE Min(hits)

Gain(places) == FoldSet(LAMBDA i, sum : Discount[i] + sum, 0, places)

\* Mutant: the ideal list is k places long, however many answers there are.
RowIdealOverK(found, expected) ==
    [relevant |-> Relevant(found, expected),
     top1 |-> Cardinality(Relevant(FirstOf(found, 1), expected)),
     hits |-> Cardinality(Range(found) \intersect expected),
     rank |-> ReciprocalRank(found, expected),
     dcg  |-> Gain(Relevant(found, expected)),
     idcg |-> Gain(1..K)]

\* relevant is what there is to know of the row's retrieved and expected ids.
Row(found, expected) ==
    [relevant |-> Relevant(found, expected),
     top1 |-> Cardinality(Relevant(FirstOf(found, 1), expected)),
     hits |-> Cardinality(Range(found) \intersect expected),
     rank |-> ReciprocalRank(found, expected),
     dcg  |-> Gain(Relevant(found, expected)),
     idcg |-> Gain(1..Smaller(Cardinality(expected), K))]

-----------------------------------------------------------------------------
(* Latencies.                                                              *)

\* Mutant: rounded down.
PercentileFloor(sorted, pct) ==
    IF sorted = << >> THEN None
    ELSE LET above == (pct * Len(sorted)) \div 100
         IN  sorted[IF above < 1 THEN 1 ELSE Smaller(above, Len(sorted))]

\* Nearest rank; None is the code's NaN.
Percentile(sorted, pct) ==
    IF sorted = << >> THEN None
    ELSE LET above == (pct * Len(sorted) + 99) \div 100
         IN  sorted[IF above < 1 THEN 1 ELSE Smaller(above, Len(sorted))]

\* sorted(...) of a sample, a function from turns to times.
Ascending(sample) ==
    LET turns == CHOOSE order \in SetToSeqs(DOMAIN sample) :
                     \A i, j \in 1..Len(order) :
                         i < j => sample[order[i]] <= sample[order[j]]
    IN  [i \in 1..Len(turns) |-> sample[turns[i]]]

Totals == [i \in 1..Len(times) |-> times[i].total]

\* The turns that said anything.
Heard == {i \in 1..Len(times) : times[i].ttft # None}

Ttfts == [i \in Heard |-> times[i].ttft]

Percentages == {50, 95, 99}

Percentiles(sample) ==
    [pct \in Percentages |-> Percentile(Ascending(sample), pct)]

SummarizeLatency ==
    [ttft    |-> Percentiles(Ttfts),
     total   |-> Percentiles(Totals),
     queries |-> Len(times),
     missing |-> Cardinality((1..Len(times)) \ Heard)]

-----------------------------------------------------------------------------
(* The run.                                                                *)

NoQuery == [dense |-> << >>, sparse |-> << >>, pool |-> << >>, found |-> << >>]

\* The rankings of a corpus, cut to the pool; an empty one has but the empty.
Rankings(ids) ==
    {s \in SetToAllKPermutations(ids) :
         Len(s) = Smaller(PoolSize, Cardinality(ids))}

Time == 1..MaxTime

Stages == {"retrieval", "scoring", "latency", "report", "written", "died"}

TypeOK ==
    /\ corpus \in Corpora
    /\ pc \in Stages
    /\ query.dense \in Rankings(corpus) \union {<< >>}
    /\ query.sparse \in Rankings(corpus) \union {<< >>}
    /\ Len(query.pool) <= PoolSize /\ Range(query.pool) \subseteq Ids
    /\ Len(query.found) <= K /\ Range(query.found) \subseteq Range(query.pool)
    /\ \A i \in 1..Len(rows) : rows[i].hits \in 0..K /\ rows[i].rank \in 0..K
    /\ times \in Seq([ttft : Time \union {None}, total : Time])
    /\ Len(rows) <= Len(Golden) /\ Len(times) <= Len(Golden)

Init ==
    /\ corpus \in Corpora
    /\ pc = "retrieval"
    /\ query = NoQuery
    /\ rows = << >>
    /\ times = << >>
    /\ report = None

\* Each ranking may be any; the BM25 ranking is cut to the pool size as well.
Search ==
    /\ pc = "retrieval"
    /\ Len(rows) < Len(Golden)
    /\ \E dense, sparse \in Rankings(corpus) :
       LET pool == Pool(dense, sparse) IN
       \E found \in Results(pool, K) :
           query' = [dense |-> dense, sparse |-> sparse, pool |-> pool,
                     found |-> found]
    /\ pc' = "scoring"
    /\ UNCHANGED <<corpus, rows, times, report>>

ScoreQuery ==
    /\ pc = "scoring"
    /\ rows' = Append(rows, Row(query.found, Golden[Len(rows) + 1]))
    /\ query' = NoQuery
    /\ pc' = "retrieval"
    /\ UNCHANGED <<corpus, times, report>>

EvaluateLatency ==
    /\ pc = "latency"
    /\ Len(times) < Len(Golden)
    /\ \E total \in Time : \E ttft \in (1..total) \union {None} :
           times' = Append(times, [ttft |-> ttft, total |-> total])
    /\ UNCHANGED <<corpus, pc, query, rows, report>>

NextStage ==
    \/ /\ pc = "retrieval" /\ Len(rows) = Len(Golden)
       /\ pc' = "latency"
       /\ UNCHANGED <<corpus, query, rows, times, report>>
    \/ /\ pc = "latency" /\ Len(times) = Len(Golden)
       /\ pc' = "report"
       /\ UNCHANGED <<corpus, query, rows, times, report>>

\* Chroma, the model API or a tool raises.
Die ==
    /\ pc \in {"retrieval", "latency"}
    /\ pc' = "died"
    /\ UNCHANGED <<corpus, query, rows, times, report>>

WriteReport ==
    /\ pc = "report"
    /\ report' = SummarizeLatency
    /\ pc' = "written"
    /\ UNCHANGED <<corpus, query, rows, times>>

Next ==
    \/ Search \/ ScoreQuery \/ EvaluateLatency
    \/ NextStage \/ Die \/ WriteReport

Spec == Init /\ [][Next]_vars

-----------------------------------------------------------------------------
(* Properties.                                                             *)

IsBefore(s, a, b) ==
    \E i, j \in 1..Len(s) : i < j /\ s[i] = a /\ s[j] = b

\* In the fused pool an id both rankings name comes before every id only one
\* of them names, and an id that is ahead of another in both rankings is ahead
\* of it in the pool; no id both name is cut (vector_store.py:171-177).
FusionRespectsAgreement ==
    LET agreed == Range(query.dense) \intersect Range(query.sparse) IN
    /\ agreed \subseteq Range(query.pool)
    /\ \A a \in agreed, b \in Range(query.pool) \ agreed :
           IsBefore(query.pool, a, b)
    /\ \A a, b \in agreed :
           IsBefore(query.dense, a, b) /\ IsBefore(query.sparse, a, b)
               => IsBefore(query.pool, a, b)

\* The metrics of a query agree with one another, however few results there
\* are: the hits in the set are the places on the list; there is a hit where
\* there is a rank and a gain; the first result is right where the rank is 1;
\* and NDCG is at most 1, and is 1 exactly when the best places, as many as
\* there are answers, are all hits (run_eval.py:50-68).
MetricsAgree ==
    \A n \in 1..Len(rows) :
        LET row  == rows[n]
            best == Smaller(Cardinality(Golden[n]), K)
        IN  /\ row.hits = Cardinality(row.relevant)
            /\ row.hits > 0 <=> row.rank \in 1..K
            /\ row.hits > 0 <=> row.dcg > 0
            /\ row.top1 = 1 <=> row.rank = 1
            /\ row.dcg <= row.idcg
            /\ row.dcg = row.idcg <=> 1..best \subseteq row.relevant

\* v is the smallest value of the sample, a function, that at least pct
\* percent of it do not exceed.
IsNearestRank(v, sample, pct) ==
    LET upTo(x) == Cardinality({i \in DOMAIN sample : sample[i] <= x})
        size    == Cardinality(DOMAIN sample)
    IN  /\ v \in Range(sample)
        /\ 100 * upTo(v) >= pct * size
        /\ \A x \in Range(sample) : x < v => 100 * upTo(x) < pct * size

\* A written report is about every golden query: each has its row, its total
\* time and either a time to first token or a place among the missing; its
\* percentiles are those of the samples, or absent where there is no sample;
\* and no first token comes later than the turn it belongs to
\* (run_eval.py:32-36, 86-136).
ReportIsWhole ==
    pc = "written" =>
        /\ Len(rows) = Len(Golden)
        /\ report.queries = Len(Golden)
        /\ report.missing + Cardinality(Heard) = Len(Golden)
        /\ \A pct \in Percentages :
               /\ IsNearestRank(report.total[pct], Totals, pct)
               /\ IF Heard = {} THEN report.ttft[pct] = None
                  ELSE IsNearestRank(report.ttft[pct], Ttfts, pct)
               /\ report.missing = 0 =>
                      report.ttft[pct] <= report.total[pct]

=============================================================================
