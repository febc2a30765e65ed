---------------------------- MODULE PolicyClaims ----------------------------
(***************************************************************************)
(* What a comment of vector_store.py says of its cache that the code does  *)
(* not keep; a run refutes it.                                             *)
(***************************************************************************)
EXTENDS PolicyStore

\* "Invalidated whenever index_policy_docs() re-ingests, so it never serves a
\* stale corpus" (vector_store.py:36-37): a search during which no ingest ran
\* returns chunks as the store has them.
NeverServesStaleCorpus ==
    \A s \in Threads :
        At(s, "done") /\ search[s].quiet => search[s].result \subseteq Chunks(store, Ids)

=============================================================================
