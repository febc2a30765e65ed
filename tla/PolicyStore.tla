---------------------------- MODULE PolicyStore ----------------------------
(***************************************************************************)
(* hr_rag/sources/vector_store.py: the policy chunks in Chroma, and the    *)
(* caches the server process keeps over them.                              *)
(*                                                                         *)
(* Threads of the server (ToolNode runs tool calls in parallel) search;    *)
(* index_policy_docs runs in a process of its own (python -m               *)
(* hr_rag.ingest) and shares only the Chroma store with the server, so the *)
(* cache it invalidates is its own.  Scores are abstracted: a ranking may  *)
(* put any of its candidates first.                                        *)
(*                                                                         *)
(* External, as used here: count, query, get, delete and add each take     *)
(* effect at once on the shared store; query refuses n_results = 0; add    *)
(* leaves an id that is already present as it is.                          *)
(***************************************************************************)
EXTENDS Naturals, FiniteSets

CONSTANTS
    Threads,        \* the server's threads that search
    Indexers,       \* the ingest processes
    Ids,            \* chunk ids, "<file stem>-<position>"
    Texts,          \* chunk texts
    Folders,        \* the policy folders an ingest may find, as chunked
    PoolSize,       \* config.RERANK_POOL_SIZE
    NResults,       \* n_results of search
    MaxWasted,      \* bounds the clients given up (wasted)
    None            \* Python's None, and the text of an absent id

\* What a collection holds: the text under each id.
Corpus == [Ids -> Texts \union {None}]

ASSUME PolicyAssumption ==
    /\ None \notin Threads
    /\ IsFiniteSet(Ids)
    /\ Folders \subseteq Corpus
    /\ PoolSize \in Nat \ {0}
    /\ NResults \in Nat \ {0}
    /\ MaxWasted \in Nat

VARIABLES
    store,          \* the collection on disk, shared by all processes
    lock,           \* _client_lock: the thread that holds it, or None
    collection,     \* whether _collection is set
    clients,        \* ghost: PersistentClients this process has constructed
    wasted,         \* ghost: those given up, their collection not opened
    bm25,           \* _bm25_cache: the corpus it was built from, or None
    reranker,       \* whether _reranker is set
    loads,          \* ghost: CrossEncoders this process has loaded
    search,         \* search[s]: the call of search() thread s is in
    indexer,        \* indexer[i]: how far ingest process i is
    reindexed       \* ghost: an ingest changed the store since server start

cacheVars == <<lock, collection, clients, wasted, bm25, reranker, loads>>
vars == <<store, cacheVars, search, indexer, reindexed>>

-----------------------------------------------------------------------------
(* Data.                                                                   *)

Present(c) == {id \in Ids : c[id] # None}

NoChunks == [id \in Ids |-> None]

Smaller(m, n) == IF m <= n THEN m ELSE n

\* The first n of a ranking of the ids in S.
Top(S, n) == {T \in SUBSET S : Cardinality(T) = Smaller(n, Cardinality(S))}

\* Where a thread is while it holds the lock.
InCollectionLock == {"recheckCollection", "construct", "open"}
InBm25Lock == {"recheckBm25", "nested", "snapshot"}
Holding == InCollectionLock \union InBm25Lock

SearchPCs ==
    {"idle", "collection", "waitClient", "count", "pool", "query", "bm25",
     "waitBm25", "fuse", "reranker", "load", "rerank", "done", "raised"}
        \union Holding

Search ==
    [pc     : SearchPCs,
     pool   : Nat,                      \* pool_size
     dense  : SUBSET Ids,               \* dense_ids
     cached : Corpus,                   \* what _get_bm25 returned
     fused  : SUBSET Ids,               \* pool_ids
     result : SUBSET (Ids \X Texts),    \* the chunks returned
     error  : {"none", "call", "empty", "missing"},
     quiet  : BOOLEAN]                  \* ghost: no ingest ran meanwhile

NewSearch(quiet) ==
    [pc |-> "collection", pool |-> 0, dense |-> {}, cached |-> NoChunks,
     fused |-> {}, result |-> {}, error |-> "none", quiet |-> quiet]

NoSearch == [NewSearch(FALSE) EXCEPT !.pc = "idle"]

IndexerPCs == {"idle", "invalidated", "listed", "deleted"}

Indexer == [pc : IndexerPCs, existing : SUBSET Ids]

TypeOK ==
    /\ store \in Corpus
    /\ lock \in Threads \union {None}
    /\ collection \in BOOLEAN
    /\ clients \in Nat
    /\ wasted \in Nat
    /\ bm25 \in Corpus \union {None}
    /\ reranker \in BOOLEAN
    /\ loads \in Nat
    /\ search \in [Threads -> Search]
    /\ indexer \in [Indexers -> Indexer]
    /\ reindexed \in BOOLEAN

Init ==
    /\ store \in Folders
    /\ lock = None
    /\ collection = FALSE
    /\ clients = 0
    /\ wasted = 0
    /\ bm25 = None
    /\ reranker = FALSE
    /\ loads = 0
    /\ search = [s \in Threads |-> NoSearch]
    /\ indexer = [i \in Indexers |-> [pc |-> "idle", existing |-> {}]]
    /\ reindexed = FALSE

-----------------------------------------------------------------------------
(* Steps of a search, with the locks and caches of the process.            *)

At(s, pc) == search[s].pc = pc

GoTo(s, pc) == search' = [search EXCEPT ![s].pc = pc]

Acquire(s) == lock = None /\ lock' = s

Release == lock' = None

IndexersIdle == \A i \in Indexers : indexer[i].pc = "idle"

BeginSearch(s) ==
    /\ search[s].pc \in {"idle", "done", "raised"}
    /\ search' = [search EXCEPT ![s] = NewSearch(IndexersIdle)]
    /\ UNCHANGED <<store, cacheVars, indexer, reindexed>>

\* _get_collection: look, lock, look again, construct.
CheckCollection(s) ==
    /\ At(s, "collection")
    /\ GoTo(s, IF collection THEN "count" ELSE "waitClient")
    /\ UNCHANGED <<store, cacheVars, indexer, reindexed>>

LockCollection(s) ==
    /\ At(s, "waitClient")
    /\ Acquire(s)
    /\ GoTo(s, "recheckCollection")
    /\ UNCHANGED <<store, collection, clients, wasted, bm25, reranker, loads, indexer, reindexed>>

\* Mutant: no second look inside the lock.
RecheckCollectionNever(s) ==
    /\ At(s, "recheckCollection")
    /\ UNCHANGED lock
    /\ GoTo(s, "construct")
    /\ UNCHANGED <<store, collection, clients, wasted, bm25, reranker, loads, indexer, reindexed>>

RecheckCollection(s) ==
    /\ At(s, "recheckCollection")
    /\ IF collection THEN Release /\ GoTo(s, "count")
                     ELSE UNCHANGED lock /\ GoTo(s, "construct")
    /\ UNCHANGED <<store, collection, clients, wasted, bm25, reranker, loads, indexer, reindexed>>

ConstructClient(s) ==
    /\ At(s, "construct")
    /\ clients' = clients + 1
    /\ GoTo(s, "open")
    /\ UNCHANGED <<store, lock, collection, wasted, bm25, reranker, loads, indexer, reindexed>>

\* get_or_create_collection; only now is the client one that others find.
OpenCollection(s) ==
    /\ At(s, "open")
    /\ collection' = TRUE
    /\ Release
    /\ GoTo(s, "count")
    /\ UNCHANGED <<store, clients, wasted, bm25, reranker, loads, indexer, reindexed>>

Raise(s, error) ==
    search' = [search EXCEPT ![s].pc = "raised", ![s].error = error]

CountChunks(s) ==
    /\ At(s, "count")
    /\ GoTo(s, IF Present(store) = {} THEN "done" ELSE "pool")
    /\ UNCHANGED <<store, cacheVars, indexer, reindexed>>

\* Mutant: one off in the size of the pool.
SizePoolShort(s) ==
    /\ At(s, "pool")
    /\ search' = [search EXCEPT
           ![s].pc = "query",
           ![s].pool = Smaller(PoolSize, Cardinality(Present(store)) - 1)]
    /\ UNCHANGED <<store, cacheVars, indexer, reindexed>>

\* The collection is counted a second time.
SizePool(s) ==
    /\ At(s, "pool")
    /\ search' = [search EXCEPT
           ![s].pc = "query",
           ![s].pool = Smaller(PoolSize, Cardinality(Present(store)))]
    /\ UNCHANGED <<store, cacheVars, indexer, reindexed>>

DenseQuery(s) ==
    /\ At(s, "query")
    /\ IF search[s].pool = 0
       THEN Raise(s, "empty")
       ELSE \E ids \in Top(Present(store), search[s].pool) :
                search' = [search EXCEPT ![s].pc = "bm25", ![s].dense = ids]
    /\ UNCHANGED <<store, cacheVars, indexer, reindexed>>

\* _get_bm25 has returned the cache c.
WithBm25(s, c) ==
    search' = [search EXCEPT ![s].pc = "fuse", ![s].cached = c]

\* _get_bm25: the same pattern under the same lock, which is not reentrant.
CheckBm25(s) ==
    /\ At(s, "bm25")
    /\ IF bm25 # None THEN WithBm25(s, bm25) ELSE GoTo(s, "waitBm25")
    /\ UNCHANGED <<store, cacheVars, indexer, reindexed>>

LockBm25(s) ==
    /\ At(s, "waitBm25")
    /\ Acquire(s)
    /\ GoTo(s, "recheckBm25")
    /\ UNCHANGED <<store, collection, clients, wasted, bm25, reranker, loads, indexer, reindexed>>

RecheckBm25(s) ==
    /\ At(s, "recheckBm25")
    /\ IF bm25 # None THEN Release /\ WithBm25(s, bm25)
                      ELSE UNCHANGED lock /\ GoTo(s, "nested")
    /\ UNCHANGED <<store, collection, clients, wasted, bm25, reranker, loads, indexer, reindexed>>

\* Mutant: _get_collection takes the lock without looking first.
NestedGetCollectionLocks(s) ==
    /\ At(s, "nested")
    /\ GoTo(s, "waitClient")
    /\ UNCHANGED <<store, cacheVars, indexer, reindexed>>

\* _get_collection, called with the lock held: the slow path would wait for
\* the lock this thread holds.
NestedGetCollection(s) ==
    /\ At(s, "nested")
    /\ GoTo(s, IF collection THEN "snapshot" ELSE "waitClient")
    /\ UNCHANGED <<store, cacheVars, indexer, reindexed>>

\* Mutant: acquire without release.
BuildBm25KeepsLock(s) ==
    /\ At(s, "snapshot")
    /\ bm25' = store
    /\ WithBm25(s, store)
    /\ UNCHANGED <<store, lock, collection, clients, wasted, reranker, loads, indexer, reindexed>>

BuildBm25(s) ==
    /\ At(s, "snapshot")
    /\ bm25' = store
    /\ Release
    /\ WithBm25(s, store)
    /\ UNCHANGED <<store, collection, clients, wasted, reranker, loads, indexer, reindexed>>

\* Where a search calls Chroma or the reranker: predict only for a pool that
\* is to be cut.
Calling(s) ==
    \/ search[s].pc \in {"construct", "open", "count", "pool", "query",
                         "snapshot", "load"}
    \/ At(s, "rerank") /\ Cardinality(search[s].fused) > NResults

\* Mutant: acquire and release in place of with: an exception skips the release.
CallFailsLocked(s) ==
    /\ Calling(s) /\ ~At(s, "open")
    /\ Raise(s, "call")
    /\ UNCHANGED <<store, cacheVars, indexer, reindexed>>

\* The call raises; the with statement releases the lock.  A client whose
\* collection could not be opened is not used again: _collection is not set.
CallFails(s) ==
    /\ Calling(s)
    /\ Raise(s, "call")
    /\ lock' = IF lock = s THEN None ELSE lock
    /\ IF At(s, "open")
       THEN wasted < MaxWasted /\ wasted' = wasted + 1
       ELSE UNCHANGED wasted
    /\ UNCHANGED <<store, collection, clients, bm25, reranker, loads, indexer, reindexed>>

\* Both rankings, cut to the pool size, fused and cut again.
Fuse(s) ==
    /\ At(s, "fuse")
    /\ \E sparse \in Top(Present(search[s].cached), search[s].pool) :
       \E ids \in Top(search[s].dense \union sparse, search[s].pool) :
           search' = [search EXCEPT
               ![s].fused = ids,
               ![s].pc = IF Cardinality(ids) <= NResults THEN "rerank" ELSE "reranker"]
    /\ UNCHANGED <<store, cacheVars, indexer, reindexed>>

\* _get_reranker: no lock.
CheckReranker(s) ==
    /\ At(s, "reranker")
    /\ GoTo(s, IF reranker THEN "rerank" ELSE "load")
    /\ UNCHANGED <<store, cacheVars, indexer, reindexed>>

LoadReranker(s) ==
    /\ At(s, "load")
    /\ reranker' = TRUE
    /\ loads' = loads + 1
    /\ GoTo(s, "rerank")
    /\ UNCHANGED <<store, lock, collection, clients, wasted, bm25, indexer, reindexed>>

\* Mutant: ids and documents zipped the wrong way round.
ChunksSwapped(c, ids) == {<<c[id], id>> : id \in ids}

Chunks(c, ids) == {<<id, c[id]>> : id \in ids}

\* Mutant: the reranked pool is not cut to n_results.
RerankUncut(s) ==
    /\ At(s, "rerank")
    /\ search' = [search EXCEPT
           ![s].pc = IF search[s].fused \subseteq Present(search[s].cached)
                     THEN "done" ELSE "raised",
           ![s].result = Chunks(search[s].cached,
                                search[s].fused \cap Present(search[s].cached))]
    /\ UNCHANGED <<store, cacheVars, indexer, reindexed>>

\* The text and metadata of every pooled id are looked up in the cache, before
\* reranking, or on return when the pool needed none.
Rerank(s) ==
    /\ At(s, "rerank")
    /\ IF search[s].fused \subseteq Present(search[s].cached)
       THEN \E ids \in Top(search[s].fused, NResults) :
                search' = [search EXCEPT
                    ![s].pc = "done",
                    ![s].result = Chunks(search[s].cached, ids)]
       ELSE Raise(s, "missing")
    /\ UNCHANGED <<store, cacheVars, indexer, reindexed>>

SearchStep(s) ==
    \/ CheckCollection(s)
    \/ LockCollection(s)
    \/ RecheckCollection(s)
    \/ ConstructClient(s)
    \/ OpenCollection(s)
    \/ CountChunks(s)
    \/ SizePool(s)
    \/ DenseQuery(s)
    \/ CheckBm25(s)
    \/ LockBm25(s)
    \/ RecheckBm25(s)
    \/ NestedGetCollection(s)
    \/ BuildBm25(s)
    \/ Fuse(s)
    \/ CheckReranker(s)
    \/ LoadReranker(s)
    \/ Rerank(s)

-----------------------------------------------------------------------------
(* The ingest process: index_policy_docs.                                  *)

\* A step of an ingest is seen by every search under way.
Disturb == search' = [s \in Threads |-> [search[s] EXCEPT !.quiet = FALSE]]

\* It invalidates the cache of its own process, which holds none.
BeginIndex(i) ==
    /\ indexer[i].pc = "idle"
    /\ indexer' = [indexer EXCEPT ![i].pc = "invalidated"]
    /\ Disturb
    /\ UNCHANGED <<store, cacheVars, reindexed>>

ListExisting(i) ==
    /\ indexer[i].pc = "invalidated"
    /\ indexer' = [indexer EXCEPT ![i] = [pc |-> "listed", existing |-> Present(store)]]
    /\ UNCHANGED <<store, cacheVars, search, reindexed>>

DeleteExisting(i) ==
    /\ indexer[i].pc = "listed"
    /\ store' = [id \in Ids |-> IF id \in indexer[i].existing THEN None ELSE store[id]]
    /\ reindexed' = TRUE
    /\ indexer' = [indexer EXCEPT ![i].pc = "deleted"]
    /\ UNCHANGED <<cacheVars, search>>

AddFolder(i) ==
    /\ indexer[i].pc = "deleted"
    /\ \E folder \in Folders :
           store' = [id \in Ids |-> IF store[id] # None THEN store[id] ELSE folder[id]]
    /\ reindexed' = TRUE
    /\ indexer' = [indexer EXCEPT ![i] = [pc |-> "idle", existing |-> {}]]
    /\ UNCHANGED <<cacheVars, search>>

IndexerDies(i) ==
    /\ indexer[i].pc # "idle"
    /\ indexer' = [indexer EXCEPT ![i] = [pc |-> "idle", existing |-> {}]]
    /\ UNCHANGED <<store, cacheVars, search, reindexed>>

IndexStep(i) ==
    \/ ListExisting(i)
    \/ DeleteExisting(i)
    \/ AddFolder(i)

-----------------------------------------------------------------------------

\* The server process is replaced: its caches and calls are gone.
RestartServer ==
    /\ lock' = None
    /\ collection' = FALSE
    /\ clients' = 0
    /\ wasted' = 0
    /\ bm25' = None
    /\ reranker' = FALSE
    /\ loads' = 0
    /\ search' = [s \in Threads |-> NoSearch]
    /\ reindexed' = FALSE
    /\ UNCHANGED <<store, indexer>>

Next ==
    \/ \E s \in Threads : BeginSearch(s) \/ SearchStep(s) \/ CallFails(s)
    \/ \E i \in Indexers : BeginIndex(i) \/ IndexStep(i) \/ IndexerDies(i)
    \/ RestartServer

Spec == Init /\ [][Next]_vars

\* Running threads are scheduled, and a free lock is won eventually by each
\* thread that keeps asking for it.
FairSpec ==
    /\ Spec
    /\ \A s \in Threads :
           /\ WF_vars(SearchStep(s))
           /\ SF_vars(LockCollection(s) \/ LockBm25(s))

-----------------------------------------------------------------------------
(* Properties.                                                             *)

\* The lock is held exactly by the thread inside a locked block, so one thread
\* at a time constructs a client or builds the index, and no way out of a
\* block, Chroma's exceptions included, leaves it locked
\* (vector_store.py:43-52, 58, 68).
LockProtects ==
    \A s \in Threads : search[s].pc \in Holding <=> lock = s

\* However many threads search for the first time together, a PersistentClient
\* is constructed only when there is none, or when get_or_create_collection
\* has raised on the one before (vector_store.py:43-48, 55-62).
OneClientStands == clients <= wasted + 1

\* No thread waits for the lock it holds: _get_bm25 calls _get_collection
\* under the lock only when the collection is there (vector_store.py:65-70).
NoSelfDeadlock ==
    \A s \in Threads : search[s].pc \in {"waitClient", "waitBm25"} => lock # s

\* Until an ingest touches the store, a search that finds chunks returns as
\* many as it was asked for (or all there are), with the text the store has:
\* the two rankings and the cache agree (vector_store.py:155-199).
ServesTheStore ==
    \A s \in Threads : At(s, "done") /\ ~reindexed =>
        /\ search[s].result \subseteq Chunks(store, Ids)
        /\ Cardinality(search[s].result) =
               Smaller(NResults, Smaller(PoolSize, Cardinality(Present(store))))

\* A search fails on what it looks up, not in Chroma, only when an ingest has
\* touched the store behind the cache (vector_store.py:156-164, 186, 192-199).
LookupsFailOnlyAfterIngest ==
    \A s \in Threads :
        search[s].error \in {"empty", "missing"} => reindexed

\* Every search ends, so long as Chroma and the reranker do not fail again and
\* again (vector_store.py:145-199).
SearchesEnd ==
    <>[][\A s \in Threads : ~CallFails(s)]_vars =>
        \A s \in Threads :
            At(s, "collection") ~> search[s].pc \in {"done", "raised", "idle"}

=============================================================================
