----------------------------- MODULE Retrieval -----------------------------
(***************************************************************************)
(* hr_rag/sources/vector_store.py, search: how two rankings of chunk ids   *)
(* become one list of results.  Reciprocal Rank Fusion gives an id         *)
(* 1 / (_RRF_K + rank) for each ranking that names it; a score is kept     *)
(* here as a fraction <<numerator, denominator>>.  PolicyStore has the     *)
(* same search with its caches and locks, and scores left open.            *)
(***************************************************************************)
EXTENDS Naturals, SequencesExt

CONSTANTS
    RrfK,           \* _RRF_K
    PoolSize        \* config.RERANK_POOL_SIZE

\* 60 and 20 in the code.
ASSUME RetrievalAssumption ==
    /\ RrfK \in Nat
    /\ PoolSize \in Nat \ {0}
    /\ PoolSize <= RrfK + 1

\* The rank of id in s, from 1; the ids of a ranking are distinct.
Rank(s, id) == CHOOSE i \in 1..Len(s) : s[i] = id

Divisor(s, id) == RrfK + Rank(s, id)

\* Mutant: the second ranking overwrites the score of the first.
ScoreOverwritten(dense, sparse, id) ==
    IF id \in Range(sparse) THEN <<1, Divisor(sparse, id)>>
                            ELSE <<1, Divisor(dense, id)>>

Score(dense, sparse, id) ==
    IF id \in Range(dense) /\ id \in Range(sparse)
    THEN <<Divisor(dense, id) + Divisor(sparse, id),
           Divisor(dense, id) * Divisor(sparse, id)>>
    ELSE <<1, Divisor(IF id \in Range(dense) THEN dense ELSE sparse, id)>>

Outscores(x, y) == x[1] * y[2] > y[1] * x[2]

\* When id entered the dict: with the dense ranking or with the rest.
Entered(dense, sparse, id) ==
    IF id \in Range(dense) THEN Rank(dense, id)
                           ELSE Len(dense) + Rank(sparse, id)

\* The order of sorted(rrf_scores, ..., reverse=True), which leaves equal
\* scores as they entered.
Precedes(dense, sparse, a, b) ==
    LET x == Score(dense, sparse, a)
        y == Score(dense, sparse, b)
    IN  \/ Outscores(x, y)
        \/ /\ ~Outscores(y, x)
           /\ Entered(dense, sparse, a) < Entered(dense, sparse, b)

\* The first n of s.
FirstOf(s, n) == SubSeq(s, 1, IF n < Len(s) THEN n ELSE Len(s))

Fused(dense, sparse) ==
    CHOOSE order \in SetToSeqs(Range(dense) \union Range(sparse)) :
        \A i, j \in 1..Len(order) :
            i < j => Precedes(dense, sparse, order[i], order[j])

Pool(dense, sparse) == FirstOf(Fused(dense, sparse), PoolSize)

\* Mutant: the reranked pool is not cut to what was asked for.
ResultsUncut(pool, n) ==
    IF Len(pool) <= n THEN {pool} ELSE SetToSeqs(Range(pool))

\* What the reranker may make of a pool: a pool of n or fewer is not reranked.
Results(pool, n) ==
    IF Len(pool) <= n
    THEN {pool}
    ELSE {FirstOf(order, n) : order \in SetToSeqs(Range(pool))}

=============================================================================
