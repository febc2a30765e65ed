------------------------- MODULE PolicyStore_proof -------------------------
(***************************************************************************)
(* Proofs about PolicyStore: types, the lock and the client constructed     *)
(* under it, and what a search returns while no ingest touches the store.  *)
(***************************************************************************)
EXTENDS PolicyStore, FiniteSetTheorems, TLAPS

USE PolicyAssumption DEF PolicyAssumption

-----------------------------------------------------------------------------
(* Types.                                                                  *)

LEMMA SmallerNat ==
    ASSUME NEW m \in Nat, NEW n \in Nat
    PROVE  Smaller(m, n) \in Nat
BY DEF Smaller

LEMMA PresentCount ==
    ASSUME NEW c
    PROVE  IsFiniteSet(Present(c)) /\ Cardinality(Present(c)) \in Nat
<1>1. Present(c) \subseteq Ids BY DEF Present
<1>2. IsFiniteSet(Present(c)) BY <1>1, FS_Subset
<1> QED BY <1>2, FS_CardinalityType

LEMMA TopSubset ==
    ASSUME NEW S, NEW n, NEW T \in Top(S, n)
    PROVE  T \subseteq S
BY DEF Top

LEMMA ChunksType ==
    ASSUME NEW c \in Corpus, NEW ids \in SUBSET Present(c)
    PROVE  Chunks(c, ids) \subseteq Ids \X Texts
BY DEF Chunks, Present, Corpus

LEMMA GoToType ==
    ASSUME TypeOK, NEW s \in Threads, NEW pc \in SearchPCs, GoTo(s, pc)
    PROVE  search' \in [Threads -> Search]
<1>1. [search[s] EXCEPT !.pc = pc] \in Search
      BY DEF TypeOK, Search
<1> QED BY <1>1 DEF GoTo, TypeOK

LEMMA RaiseType ==
    ASSUME TypeOK, NEW s \in Threads, NEW error \in {"none", "call", "empty", "missing"},
           Raise(s, error)
    PROVE  search' \in [Threads -> Search]
<1>1. "raised" \in SearchPCs BY DEF SearchPCs
<1>2. [search[s] EXCEPT !.pc = "raised", !.error = error] \in Search
      BY <1>1 DEF TypeOK, Search
<1> QED BY <1>2 DEF Raise, TypeOK

LEMMA WithBm25Type ==
    ASSUME TypeOK, NEW s \in Threads, NEW c \in Corpus, WithBm25(s, c)
    PROVE  search' \in [Threads -> Search]
<1>1. "fuse" \in SearchPCs BY DEF SearchPCs
<1>2. [search[s] EXCEPT !.pc = "fuse", !.cached = c] \in Search
      BY <1>1 DEF TypeOK, Search
<1> QED BY <1>2 DEF WithBm25, TypeOK

LEMMA NewSearchType ==
    /\ \A quiet \in BOOLEAN : NewSearch(quiet) \in Search
    /\ NoSearch \in Search
<1>1. {"collection", "idle"} \subseteq SearchPCs BY DEF SearchPCs
<1>2. \A quiet \in BOOLEAN : NewSearch(quiet) \in Search
  <2>1. NoChunks \in Corpus BY DEF NoChunks, Corpus
  <2> QED BY <1>1, <2>1 DEF NewSearch, Search
<1>3. [NewSearch(FALSE) EXCEPT !.pc = "idle"] \in Search
      BY <1>1, <1>2 DEF Search
<1> QED BY <1>2, <1>3 DEF NoSearch

LEMMA InitType == Init => TypeOK
<1> SUFFICES ASSUME Init PROVE TypeOK OBVIOUS
<1>1. search \in [Threads -> Search] BY NewSearchType DEF Init
<1>2. indexer \in [Indexers -> Indexer] BY DEF Init, Indexer, IndexerPCs
<1>3. store \in Corpus BY DEF Init
<1> QED BY <1>1, <1>2, <1>3 DEF Init, TypeOK

LEMMA StepType ==
    ASSUME TypeOK, [Next]_vars
    PROVE  TypeOK'
<1> USE DEF TypeOK
<1> {"count", "waitClient", "recheckCollection", "construct", "open", "pool",
     "query", "bm25", "waitBm25", "recheckBm25", "nested", "snapshot", "fuse",
     "reranker", "load", "rerank", "done"} \subseteq SearchPCs
      BY DEF SearchPCs, Holding, InCollectionLock, InBm25Lock
<1>1. ASSUME NEW s \in Threads, BeginSearch(s) PROVE TypeOK'
  <2>1. NewSearch(IndexersIdle) \in Search BY NewSearchType DEF IndexersIdle
  <2> QED BY <1>1, <2>1 DEF BeginSearch, cacheVars
<1>2. ASSUME NEW s \in Threads, CheckCollection(s) PROVE TypeOK'
      BY <1>2, GoToType DEF CheckCollection, cacheVars
<1>3. ASSUME NEW s \in Threads, LockCollection(s) PROVE TypeOK'
      BY <1>3, GoToType DEF LockCollection, Acquire
<1>4. ASSUME NEW s \in Threads, RecheckCollection(s) PROVE TypeOK'
      BY <1>4, GoToType DEF RecheckCollection, Release
<1>5. ASSUME NEW s \in Threads, ConstructClient(s) PROVE TypeOK'
      BY <1>5, GoToType DEF ConstructClient
<1>5a. ASSUME NEW s \in Threads, OpenCollection(s) PROVE TypeOK'
      BY <1>5a, GoToType DEF OpenCollection, Release
<1>6. ASSUME NEW s \in Threads, CountChunks(s) PROVE TypeOK'
      BY <1>6, GoToType DEF CountChunks, cacheVars
<1>7. ASSUME NEW s \in Threads, SizePool(s) PROVE TypeOK'
  <2> DEFINE pool == Smaller(PoolSize, Cardinality(Present(store)))
  <2>1. pool \in Nat BY PresentCount, SmallerNat
  <2> HIDE DEF pool
  <2>2. [search[s] EXCEPT !.pc = "query", !.pool = pool] \in Search
        BY <2>1 DEF Search
  <2>3. search' \in [Threads -> Search] BY <1>7, <2>2 DEF SizePool, pool
  <2> QED BY <1>7, <2>3 DEF SizePool, cacheVars
<1>8. ASSUME NEW s \in Threads, DenseQuery(s) PROVE TypeOK'
  <2>1. CASE Raise(s, "empty")
        BY <1>8, <2>1, RaiseType DEF DenseQuery, cacheVars
  <2>2. CASE \E ids \in Top(Present(store), search[s].pool) :
                 search' = [search EXCEPT ![s].pc = "bm25", ![s].dense = ids]
    <3>1. PICK ids \in Top(Present(store), search[s].pool) :
                 search' = [search EXCEPT ![s].pc = "bm25", ![s].dense = ids]
          BY <2>2
    <3>2. ids \subseteq Ids BY TopSubset DEF Present
    <3>3. [search[s] EXCEPT !.pc = "bm25", !.dense = ids] \in Search
          BY <3>2 DEF Search
    <3>4. search' \in [Threads -> Search] BY <3>1, <3>3
    <3> QED BY <1>8, <3>4 DEF DenseQuery, cacheVars
  <2> QED BY <1>8, <2>1, <2>2 DEF DenseQuery
<1>9. ASSUME NEW s \in Threads, CheckBm25(s) PROVE TypeOK'
      BY <1>9, GoToType, WithBm25Type DEF CheckBm25, cacheVars
<1>10. ASSUME NEW s \in Threads, LockBm25(s) PROVE TypeOK'
      BY <1>10, GoToType DEF LockBm25, Acquire
<1>11. ASSUME NEW s \in Threads, RecheckBm25(s) PROVE TypeOK'
      BY <1>11, GoToType, WithBm25Type DEF RecheckBm25, Release
<1>12. ASSUME NEW s \in Threads, NestedGetCollection(s) PROVE TypeOK'
      BY <1>12, GoToType DEF NestedGetCollection, cacheVars
<1>13. ASSUME NEW s \in Threads, BuildBm25(s) PROVE TypeOK'
      BY <1>13, WithBm25Type DEF BuildBm25, Release
<1>14. ASSUME NEW s \in Threads, CallFails(s) PROVE TypeOK'
      BY <1>14, RaiseType DEF CallFails
<1>15. ASSUME NEW s \in Threads, Fuse(s) PROVE TypeOK'
  <2>0. PICK sparse \in Top(Present(search[s].cached), search[s].pool) :
           \E ids \in Top(search[s].dense \union sparse, search[s].pool) :
               search' = [search EXCEPT
                   ![s].fused = ids,
                   ![s].pc = IF Cardinality(ids) <= NResults THEN "rerank" ELSE "reranker"]
        BY <1>15 DEF Fuse
  <2>1. PICK ids \in Top(search[s].dense \union sparse, search[s].pool) :
           search' = [search EXCEPT
               ![s].fused = ids,
               ![s].pc = IF Cardinality(ids) <= NResults THEN "rerank" ELSE "reranker"]
        BY <2>0
  <2>2. search[s].dense \subseteq Ids /\ sparse \subseteq Ids
        BY TopSubset DEF Present, Search
  <2>3. ids \subseteq Ids BY <2>2, TopSubset
  <2>4. \A pc \in SearchPCs : [search[s] EXCEPT !.fused = ids, !.pc = pc] \in Search
        BY <2>3 DEF Search
  <2>5. search' \in [Threads -> Search] BY <2>1, <2>4
  <2> QED BY <1>15, <2>5 DEF Fuse, cacheVars
<1>16. ASSUME NEW s \in Threads, CheckReranker(s) PROVE TypeOK'
      BY <1>16, GoToType DEF CheckReranker, cacheVars
<1>17. ASSUME NEW s \in Threads, LoadReranker(s) PROVE TypeOK'
      BY <1>17, GoToType DEF LoadReranker
<1>18. ASSUME NEW s \in Threads, Rerank(s) PROVE TypeOK'
  <2>1. CASE Raise(s, "missing")
        BY <1>18, <2>1, RaiseType DEF Rerank, cacheVars
  <2>2. CASE search[s].fused \subseteq Present(search[s].cached)
    <3>1. PICK ids \in Top(search[s].fused, NResults) :
              search' = [search EXCEPT
                  ![s].pc = "done",
                  ![s].result = Chunks(search[s].cached, ids)]
          BY <1>18, <2>2 DEF Rerank
    <3>2. ids \subseteq Present(search[s].cached) BY <2>2, TopSubset
    <3>3. Chunks(search[s].cached, ids) \subseteq Ids \X Texts
          BY <3>2, ChunksType DEF Search
    <3>4. [search[s] EXCEPT !.pc = "done", !.result = Chunks(search[s].cached, ids)]
              \in Search
          BY <3>3 DEF Search
    <3>5. search' \in [Threads -> Search] BY <3>1, <3>4
    <3> QED BY <1>18, <3>5 DEF Rerank, cacheVars
  <2> QED BY <1>18, <2>1, <2>2 DEF Rerank
<1>19. ASSUME NEW i \in Indexers, BeginIndex(i) PROVE TypeOK'
  <2>1. \A s \in Threads : [search[s] EXCEPT !.quiet = FALSE] \in Search
        BY DEF Search
  <2>2. search' \in [Threads -> Search] BY <1>19, <2>1 DEF BeginIndex, Disturb
  <2> QED BY <1>19, <2>2 DEF BeginIndex, Indexer, IndexerPCs, cacheVars
<1>20. ASSUME NEW i \in Indexers, ListExisting(i) PROVE TypeOK'
      BY <1>20 DEF ListExisting, Present, Indexer, IndexerPCs, cacheVars
<1>21. ASSUME NEW i \in Indexers, DeleteExisting(i) PROVE TypeOK'
      BY <1>21 DEF DeleteExisting, Corpus, Indexer, IndexerPCs, cacheVars
<1>22. ASSUME NEW i \in Indexers, AddFolder(i) PROVE TypeOK'
      BY <1>22 DEF AddFolder, Corpus, Indexer, IndexerPCs, cacheVars
<1>23. ASSUME NEW i \in Indexers, IndexerDies(i) PROVE TypeOK'
      BY <1>23 DEF IndexerDies, Indexer, IndexerPCs, cacheVars
<1>24. CASE RestartServer
      BY <1>24, NewSearchType DEF RestartServer
<1>25. CASE UNCHANGED vars
      BY <1>25 DEF vars, cacheVars
<1> QED
      BY <1>1, <1>2, <1>3, <1>4, <1>5, <1>5a, <1>6, <1>7, <1>8, <1>9, <1>10, <1>11,
         <1>12, <1>13, <1>14, <1>15, <1>16, <1>17, <1>18, <1>19, <1>20, <1>21,
         <1>22, <1>23, <1>24, <1>25
      DEF Next, SearchStep, IndexStep

\* Every variable keeps its type, for any numbers of threads, ingest
\* processes and chunks (vector_store.py, whole module).
THEOREM TypeCorrect == Spec => []TypeOK
BY InitType, StepType, PTL DEF Spec

-----------------------------------------------------------------------------
(* The lock, and the client constructed under it.                          *)

\* Where a search is once _get_collection has returned to it.
PastCollection ==
    {"count", "pool", "query", "bm25", "waitBm25", "fuse", "reranker", "load",
     "rerank"} \union InBm25Lock

\* A thread has a client whose collection it has yet to open.
Opening == \E s \in Threads : search[s].pc = "open"

\* Every client was given up but the one in use or about to be; nobody
\* constructs one beside it, and whoever is past _get_collection finds it.
ClientInv ==
    /\ clients = wasted + (IF collection \/ Opening THEN 1 ELSE 0)
    /\ \A s \in Threads : search[s].pc \in {"construct", "open"} => ~collection
    /\ \A s \in Threads : search[s].pc \in PastCollection => collection

LockInv == TypeOK /\ LockProtects /\ ClientInv

LEMMA InitLock == Init => LockProtects /\ ClientInv
BY DEF Init, LockProtects, ClientInv, NoSearch, NewSearch, Holding,
       InCollectionLock, InBm25Lock, PastCollection, Opening

\* Thread s goes to pc and every other thread stays where it is.
Moves(s, pc) ==
    /\ search'[s].pc = pc
    /\ \A q \in Threads \ {s} : search'[q].pc = search[q].pc

LEMMA MovesBy ==
    ASSUME TypeOK, NEW s \in Threads
    PROVE  /\ \A pc : GoTo(s, pc) => Moves(s, pc)
           /\ \A c : WithBm25(s, c) => Moves(s, "fuse")
           /\ \A error : Raise(s, error) => Moves(s, "raised")
           /\ \A x : search' = [search EXCEPT ![s] = x] => Moves(s, x.pc)
<1>1. /\ search \in [Threads -> Search]
      /\ \A q \in Threads : search[q] = [search[q] EXCEPT !.pc = @]
      BY DEF TypeOK, Search
<1>2. \A pc : GoTo(s, pc) => Moves(s, pc) BY <1>1 DEF GoTo, Moves, Search
<1>3. \A c : WithBm25(s, c) => Moves(s, "fuse") BY <1>1 DEF WithBm25, Moves, Search
<1>4. \A error : Raise(s, error) => Moves(s, "raised")
      BY <1>1 DEF Raise, Moves, Search
<1>5. \A x : search' = [search EXCEPT ![s] = x] => Moves(s, x.pc)
      BY <1>1 DEF Moves
<1> QED BY <1>2, <1>3, <1>4, <1>5

\* Neither where s was nor where it goes is there a collection to open.
LEMMA NotOpening ==
    ASSUME TypeOK, NEW s \in Threads, NEW pc, Moves(s, pc),
           search[s].pc # "open", pc # "open"
    PROVE  Opening' <=> Opening
BY DEF Opening, Moves

\* A step of s that leaves the lock alone ...
LEMMA LockUntouched ==
    ASSUME LockInv, NEW s \in Threads, NEW pc, Moves(s, pc),
           UNCHANGED <<lock, collection, clients, wasted>>,
           pc \in Holding <=> search[s].pc \in Holding,
           search[s].pc # "open", pc # "open",
           pc = "construct" => ~collection,
           pc \in PastCollection => collection
    PROVE  (LockProtects /\ ClientInv)'
<1>1. Opening' <=> Opening BY NotOpening DEF LockInv
<1> QED BY <1>1 DEF LockInv, LockProtects, ClientInv, Moves

\* ... takes it ...
LEMMA LockTaken ==
    ASSUME LockInv, NEW s \in Threads, NEW pc, Moves(s, pc),
           Acquire(s), UNCHANGED <<collection, clients, wasted>>,
           pc \in Holding \ {"construct", "open"},
           search[s].pc # "open",
           pc \in PastCollection => collection
    PROVE  (LockProtects /\ ClientInv)'
<1>1. Opening' <=> Opening BY NotOpening DEF LockInv
<1> QED BY <1>1 DEF LockInv, LockProtects, ClientInv, Moves, Acquire

\* ... or gives it back.
LEMMA LockReleased ==
    ASSUME LockInv, NEW s \in Threads, NEW pc, Moves(s, pc),
           search[s].pc \in Holding, Release,
           UNCHANGED <<collection, clients, wasted>>,
           search[s].pc # "open",
           pc \notin Holding,
           pc \in PastCollection => collection
    PROVE  (LockProtects /\ ClientInv)'
<1>1. {"construct", "open"} \subseteq Holding BY DEF Holding, InCollectionLock
<1>2. lock = s BY DEF LockInv, LockProtects
<1>3. \A q \in Threads \ {s} : search[q].pc \notin Holding
      BY <1>2 DEF LockInv, LockProtects
<1>4. Opening' <=> Opening BY <1>1, NotOpening DEF LockInv
<1> QED BY <1>1, <1>2, <1>3, <1>4
        DEF LockInv, LockProtects, ClientInv, Moves, Release

\* The thread that opens the collection is the only one in a locked block.
LEMMA OpeningAlone ==
    ASSUME LockInv, NEW s \in Threads, search[s].pc \in {"construct", "open"}
    PROVE  /\ lock = s
           /\ ~collection
           /\ \A q \in Threads \ {s} : search[q].pc \notin Holding
           /\ Opening <=> search[s].pc = "open"
<1>1. {"construct", "open"} \subseteq Holding BY DEF Holding, InCollectionLock
<1>2. lock = s BY <1>1 DEF LockInv, LockProtects
<1>3. \A q \in Threads \ {s} : search[q].pc \notin Holding
      BY <1>2 DEF LockInv, LockProtects
<1> QED BY <1>1, <1>2, <1>3 DEF LockInv, ClientInv, Opening

\* The client gets its collection, or is given up.
LEMMA LockOpened ==
    ASSUME LockInv, NEW s \in Threads, search[s].pc = "open", Release,
           NEW pc, Moves(s, pc), pc \notin Holding, UNCHANGED clients,
           \/ collection' = TRUE /\ UNCHANGED wasted
           \/ /\ UNCHANGED collection /\ wasted' = wasted + 1
              /\ pc \notin PastCollection
    PROVE  (LockProtects /\ ClientInv)'
<1>0. {"construct", "open"} \subseteq Holding BY DEF Holding, InCollectionLock
<1>1. /\ lock = s /\ ~collection /\ Opening
      /\ \A q \in Threads \ {s} : search[q].pc \notin Holding
      BY OpeningAlone
<1>2. ~Opening' BY <1>0, <1>1 DEF Opening, Moves
<1>3. clients = wasted + 1 BY <1>1 DEF LockInv, ClientInv
<1>4. LockProtects' BY <1>1 DEF LockProtects, Moves, Release
<1>5. \A q \in Threads : search'[q].pc \notin {"construct", "open"}
      BY <1>0, <1>1 DEF Moves
<1>6. clients' = wasted' + (IF collection' THEN 1 ELSE 0)
      BY <1>1, <1>3 DEF LockInv, TypeOK
<1>7. \A q \in Threads : search'[q].pc \in PastCollection => collection'
      BY <1>1 DEF Moves, LockInv, ClientInv
<1> QED BY <1>2, <1>4, <1>5, <1>6, <1>7 DEF ClientInv

LEMMA StepLock ==
    ASSUME LockInv, [Next]_vars
    PROVE  (LockProtects /\ ClientInv)'
<1> TypeOK BY DEF LockInv
<1> USE DEF cacheVars, Holding, InCollectionLock, InBm25Lock, PastCollection, At
<1>1. ASSUME NEW s \in Threads, BeginSearch(s) PROVE (LockProtects /\ ClientInv)'
  <2>1. NewSearch(IndexersIdle).pc = "collection" BY DEF NewSearch
  <2>2. Moves(s, NewSearch(IndexersIdle).pc) BY <1>1, MovesBy DEF BeginSearch
  <2>3. Moves(s, "collection") BY <2>1, <2>2
  <2> QED BY <1>1, <2>3, LockUntouched DEF BeginSearch
<1>2. ASSUME NEW s \in Threads, CheckCollection(s) PROVE (LockProtects /\ ClientInv)'
  <2>1. Moves(s, IF collection THEN "count" ELSE "waitClient")
        BY <1>2, MovesBy DEF CheckCollection
  <2> QED BY <1>2, <2>1, LockUntouched DEF CheckCollection
<1>3. ASSUME NEW s \in Threads, LockCollection(s) PROVE (LockProtects /\ ClientInv)'
  <2>1. Moves(s, "recheckCollection") BY <1>3, MovesBy DEF LockCollection
  <2> QED BY <1>3, <2>1, LockTaken DEF LockCollection
<1>4. ASSUME NEW s \in Threads, RecheckCollection(s) PROVE (LockProtects /\ ClientInv)'
  <2>1. CASE collection
    <3>1. Moves(s, "count") BY <1>4, <2>1, MovesBy DEF RecheckCollection
    <3> QED BY <1>4, <2>1, <3>1, LockReleased DEF RecheckCollection
  <2>2. CASE ~collection
    <3>1. Moves(s, "construct") BY <1>4, <2>2, MovesBy DEF RecheckCollection
    <3> QED BY <1>4, <2>2, <3>1, LockUntouched DEF RecheckCollection
  <2> QED BY <2>1, <2>2
<1>5. ASSUME NEW s \in Threads, ConstructClient(s) PROVE (LockProtects /\ ClientInv)'
  <2>1. Moves(s, "open") BY <1>5, MovesBy DEF ConstructClient
  <2>2. /\ search[s].pc = "construct"
        /\ UNCHANGED <<lock, collection, wasted>> /\ clients' = clients + 1
        BY <1>5 DEF ConstructClient
  <2>3. /\ lock = s /\ ~collection /\ ~Opening
        /\ \A q \in Threads \ {s} : search[q].pc \notin Holding
        BY <2>2, OpeningAlone
  <2>4. clients = wasted BY <2>3 DEF LockInv, ClientInv, TypeOK
  <2>5. Opening' BY <2>1 DEF Opening, Moves
  <2>6. LockProtects' BY <2>1, <2>2, <2>3 DEF LockProtects, Moves
  <2>7. ClientInv' BY <2>1, <2>2, <2>3, <2>4, <2>5 DEF LockInv, ClientInv, Moves
  <2> QED BY <2>6, <2>7
<1>5a. ASSUME NEW s \in Threads, OpenCollection(s) PROVE (LockProtects /\ ClientInv)'
  <2>1. Moves(s, "count") BY <1>5a, MovesBy DEF OpenCollection
  <2> QED BY <1>5a, <2>1, LockOpened DEF OpenCollection
<1>6. ASSUME NEW s \in Threads, CountChunks(s) PROVE (LockProtects /\ ClientInv)'
  <2>1. collection BY <1>6 DEF CountChunks, LockInv, ClientInv
  <2>2. Moves(s, IF Present(store) = {} THEN "done" ELSE "pool")
        BY <1>6, MovesBy DEF CountChunks
  <2> QED BY <1>6, <2>1, <2>2, LockUntouched DEF CountChunks
<1>7. ASSUME NEW s \in Threads, SizePool(s) PROVE (LockProtects /\ ClientInv)'
  <2>1. collection BY <1>7 DEF SizePool, LockInv, ClientInv
  <2>2. Moves(s, "query") BY <1>7 DEF SizePool, Moves, TypeOK, Search
  <2> QED BY <1>7, <2>1, <2>2, LockUntouched DEF SizePool
<1>8. ASSUME NEW s \in Threads, DenseQuery(s) PROVE (LockProtects /\ ClientInv)'
  <2>1. collection BY <1>8 DEF DenseQuery, LockInv, ClientInv
  <2>2. Moves(s, "raised") \/ Moves(s, "bm25")
    <3>1. CASE search[s].pool = 0 BY <1>8, <3>1, MovesBy DEF DenseQuery
    <3>2. CASE search[s].pool # 0
          BY <1>8, <3>2 DEF DenseQuery, Moves, TypeOK, Search
    <3> QED BY <3>1, <3>2
  <2> QED BY <1>8, <2>1, <2>2, LockUntouched DEF DenseQuery
<1>9. ASSUME NEW s \in Threads, CheckBm25(s) PROVE (LockProtects /\ ClientInv)'
  <2>1. collection BY <1>9 DEF CheckBm25, LockInv, ClientInv
  <2>2. Moves(s, "fuse") \/ Moves(s, "waitBm25") BY <1>9, MovesBy DEF CheckBm25
  <2> QED BY <1>9, <2>1, <2>2, LockUntouched DEF CheckBm25
<1>10. ASSUME NEW s \in Threads, LockBm25(s) PROVE (LockProtects /\ ClientInv)'
  <2>1. collection BY <1>10 DEF LockBm25, LockInv, ClientInv
  <2>2. Moves(s, "recheckBm25") BY <1>10, MovesBy DEF LockBm25
  <2> QED BY <1>10, <2>1, <2>2, LockTaken DEF LockBm25
<1>11. ASSUME NEW s \in Threads, RecheckBm25(s) PROVE (LockProtects /\ ClientInv)'
  <2>1. collection BY <1>11 DEF RecheckBm25, LockInv, ClientInv
  <2>2. CASE bm25 # None
    <3>1. Moves(s, "fuse") BY <1>11, <2>2, MovesBy DEF RecheckBm25
    <3> QED BY <1>11, <2>1, <2>2, <3>1, LockReleased DEF RecheckBm25
  <2>3. CASE bm25 = None
    <3>1. Moves(s, "nested") BY <1>11, <2>3, MovesBy DEF RecheckBm25
    <3> QED BY <1>11, <2>1, <2>3, <3>1, LockUntouched DEF RecheckBm25
  <2> QED BY <2>2, <2>3
<1>12. ASSUME NEW s \in Threads, NestedGetCollection(s) PROVE (LockProtects /\ ClientInv)'
  <2>1. collection BY <1>12 DEF NestedGetCollection, LockInv, ClientInv
  <2>2. Moves(s, "snapshot") BY <1>12, <2>1, MovesBy DEF NestedGetCollection
  <2> QED BY <1>12, <2>1, <2>2, LockUntouched DEF NestedGetCollection
<1>13. ASSUME NEW s \in Threads, BuildBm25(s) PROVE (LockProtects /\ ClientInv)'
  <2>1. collection BY <1>13 DEF BuildBm25, LockInv, ClientInv
  <2>2. Moves(s, "fuse") BY <1>13, MovesBy DEF BuildBm25
  <2> QED BY <1>13, <2>1, <2>2, LockReleased DEF BuildBm25
<1>14. ASSUME NEW s \in Threads, CallFails(s) PROVE (LockProtects /\ ClientInv)'
  <2>1. Moves(s, "raised") BY <1>14, MovesBy DEF CallFails
  <2>2. CASE search[s].pc = "open"
    <3>1. lock = s BY <2>2, OpeningAlone
    <3> QED BY <1>14, <2>1, <2>2, <3>1, LockOpened DEF CallFails, Release
  <2>3. CASE search[s].pc # "open" /\ lock = s
    <3>1. search[s].pc \in Holding BY <2>3 DEF LockInv, LockProtects
    <3> QED BY <1>14, <2>1, <2>3, <3>1, LockReleased DEF CallFails, Release
  <2>4. CASE search[s].pc # "open" /\ lock # s
    <3>1. search[s].pc \notin Holding BY <2>4 DEF LockInv, LockProtects
    <3> QED BY <1>14, <2>1, <2>4, <3>1, LockUntouched DEF CallFails
  <2> QED BY <2>2, <2>3, <2>4
<1>15. ASSUME NEW s \in Threads, Fuse(s) PROVE (LockProtects /\ ClientInv)'
  <2>1. collection BY <1>15 DEF Fuse, LockInv, ClientInv
  <2>2. Moves(s, "rerank") \/ Moves(s, "reranker")
        BY <1>15 DEF Fuse, Moves, TypeOK, Search
  <2> QED BY <1>15, <2>1, <2>2, LockUntouched DEF Fuse
<1>16. ASSUME NEW s \in Threads, CheckReranker(s) PROVE (LockProtects /\ ClientInv)'
  <2>1. collection BY <1>16 DEF CheckReranker, LockInv, ClientInv
  <2>2. Moves(s, IF reranker THEN "rerank" ELSE "load")
        BY <1>16, MovesBy DEF CheckReranker
  <2> QED BY <1>16, <2>1, <2>2, LockUntouched DEF CheckReranker
<1>17. ASSUME NEW s \in Threads, LoadReranker(s) PROVE (LockProtects /\ ClientInv)'
  <2>1. collection BY <1>17 DEF LoadReranker, LockInv, ClientInv
  <2>2. Moves(s, "rerank") BY <1>17, MovesBy DEF LoadReranker
  <2> QED BY <1>17, <2>1, <2>2, LockUntouched DEF LoadReranker
<1>18. ASSUME NEW s \in Threads, Rerank(s) PROVE (LockProtects /\ ClientInv)'
  <2>1. Moves(s, "done") \/ Moves(s, "raised")
    <3>1. CASE Raise(s, "missing") BY <3>1, MovesBy
    <3>2. CASE ~Raise(s, "missing")
          BY <1>18, <3>2 DEF Rerank, Moves, TypeOK, Search
    <3> QED BY <3>1, <3>2
  <2> QED BY <1>18, <2>1, LockUntouched DEF Rerank
<1>19. ASSUME NEW i \in Indexers, BeginIndex(i) PROVE (LockProtects /\ ClientInv)'
  <2>1. \A s \in Threads : search'[s].pc = search[s].pc
        BY <1>19 DEF BeginIndex, Disturb, TypeOK, Search
  <2>2. UNCHANGED <<lock, collection, clients, wasted>> BY <1>19 DEF BeginIndex
  <2> QED BY <2>1, <2>2 DEF LockInv, LockProtects, ClientInv, Opening
<1>20. ASSUME UNCHANGED <<cacheVars, search>> PROVE (LockProtects /\ ClientInv)'
      BY <1>20 DEF LockInv, LockProtects, ClientInv, Opening
<1>21. CASE RestartServer
      BY <1>21 DEF RestartServer, NoSearch, NewSearch, LockProtects, ClientInv,
                  Opening
<1> QED
      BY <1>1, <1>2, <1>3, <1>4, <1>5, <1>5a, <1>6, <1>7, <1>8, <1>9, <1>10, <1>11,
         <1>12, <1>13, <1>14, <1>15, <1>16, <1>17, <1>18, <1>19, <1>20, <1>21
      DEF Next, SearchStep, IndexStep, ListExisting, DeleteExisting, AddFolder,
          IndexerDies, vars

LEMMA LockInvariant == Spec => []LockInv
<1>1. Init => LockInv BY InitType, InitLock DEF LockInv
<1>2. LockInv /\ [Next]_vars => LockInv'
      BY StepType, StepLock DEF LockInv
<1> QED BY <1>1, <1>2, PTL DEF Spec

\* For any number of threads: a thread is inside a locked block exactly while
\* it holds the lock (vector_store.py:52, 58, 68).
THEOREM LockIsExclusive == Spec => []LockProtects
BY LockInvariant, PTL DEF LockInv

\* For any number of threads that search for the first time together, and any
\* number of clients given up because get_or_create_collection raised: no
\* client is constructed beside one in use or about to be
\* (vector_store.py:43-62).
THEOREM OneClient == Spec => []OneClientStands
<1>1. LockInv => OneClientStands
      BY DEF LockInv, ClientInv, TypeOK, OneClientStands
<1> QED BY <1>1, LockInvariant, PTL

\* No thread ever waits for the lock it holds, though _get_bm25 calls
\* _get_collection under a lock that is not reentrant (vector_store.py:65-70).
THEOREM NoThreadBlocksItself == Spec => []NoSelfDeadlock
<1>1. LockInv => NoSelfDeadlock
      BY DEF LockInv, LockProtects, NoSelfDeadlock, Holding,
             InCollectionLock, InBm25Lock
<1> QED BY <1>1, LockInvariant, PTL

-----------------------------------------------------------------------------
(* What a search returns while no ingest has touched the store.            *)

LEMMA TopCount ==
    ASSUME NEW S, IsFiniteSet(S), NEW n \in Nat, NEW T \in Top(S, n)
    PROVE  /\ T \subseteq S
           /\ IsFiniteSet(T)
           /\ Cardinality(T) = Smaller(n, Cardinality(S))
BY FS_Subset DEF Top

\* Two rankings cut to the pool size still fill the pool when they are fused.
LEMMA FusedCount ==
    ASSUME NEW S, IsFiniteSet(S), NEW n \in Nat, n <= Cardinality(S),
           NEW A \in Top(S, n), NEW B \in Top(S, n), NEW T \in Top(A \union B, n)
    PROVE  T \subseteq S /\ Cardinality(T) = n
<1>1. A \subseteq S /\ B \subseteq S BY DEF Top
<1>2. IsFiniteSet(A \union B) BY <1>1, FS_Subset
<1>3. Cardinality(S) \in Nat /\ Cardinality(A \union B) \in Nat
      BY <1>2, FS_CardinalityType
<1>4. Cardinality(A) = n BY <1>3 DEF Top, Smaller
<1>5. n <= Cardinality(A \union B) BY <1>2, <1>4, FS_Subset
<1>6. T \subseteq A \union B /\ Cardinality(T) = Smaller(n, Cardinality(A \union B))
      BY DEF Top
<1> QED BY <1>1, <1>3, <1>5, <1>6 DEF Smaller

\* There are as many chunks as ids they are looked up under.
LEMMA ChunksCount ==
    ASSUME NEW c, NEW ids, IsFiniteSet(ids)
    PROVE  Cardinality(Chunks(c, ids)) = Cardinality(ids)
<1> DEFINE f == [id \in ids |-> <<id, c[id]>>]
<1>1. f \in [ids -> Chunks(c, ids)] BY DEF Chunks
<1>2. \A a, b \in ids : f[a] = f[b] => a = b OBVIOUS
<1>3. \A t \in Chunks(c, ids) : \E a \in ids : f[a] = t BY DEF Chunks
<1>4. f \in Bijection(ids, Chunks(c, ids))
      BY <1>1, <1>2, <1>3 DEF Bijection, Injection, Surjection, IsInjective
<1>5. ExistsBijection(ids, Chunks(c, ids)) BY <1>4 DEF ExistsBijection
<1> QED BY <1>5, FS_Bijection

\* How many chunks a search over the corpus c pools.
PoolOf(c) == Smaller(PoolSize, Cardinality(Present(c)))

\* The steps left to a search that has counted the chunks, sized the pool,
\* queried Chroma, been given the cache, and fused the rankings.
Looked == {"reranker", "load", "rerank"}
Cached == {"fuse"} \union Looked
Queried == {"bm25", "waitBm25"} \union InBm25Lock \union Cached
Sized == {"query"} \union Queried
Counted == {"pool"} \union Sized

\* What search x has found so far is what the corpus c holds.
Agrees(x, c) ==
    /\ x.pc \in Counted => Present(c) # {}
    /\ x.pc \in Sized => x.pool = PoolOf(c)
    /\ x.pc \in Queried => x.dense \in Top(Present(c), PoolOf(c))
    /\ x.pc \in Cached => x.cached = c
    /\ x.pc \in Looked =>
           x.fused \subseteq Present(c) /\ Cardinality(x.fused) = PoolOf(c)
    /\ x.pc = "done" =>
           /\ x.result \subseteq Chunks(c, Ids)
           /\ Cardinality(x.result) = Smaller(NResults, PoolOf(c))
    /\ x.pc # "done" => x.result = {}
    /\ x.error \notin {"empty", "missing"}

\* While no ingest has touched the store, the cache holds what the store
\* holds, and so does every search.
FreshInv ==
    ~reindexed =>
        /\ bm25 \in {None, store}
        /\ \A s \in Threads : Agrees(search[s], store)

LEMMA PoolOfType ==
    ASSUME NEW c
    PROVE  /\ PoolOf(c) \in Nat
           /\ PoolOf(c) <= Cardinality(Present(c))
           /\ Present(c) # {} => PoolOf(c) # 0
<1>1. Cardinality(Present(c)) \in Nat BY PresentCount
<1>2. Present(c) # {} => Cardinality(Present(c)) # 0
      BY PresentCount, FS_EmptySet
<1> QED BY <1>1, <1>2 DEF PoolOf, Smaller

\* A step of one search, while the store stays as it is.
LEMMA OneSearch ==
    ASSUME TypeOK, FreshInv, NEW s \in Threads, NEW x,
           search' = [search EXCEPT ![s] = x],
           UNCHANGED <<store, reindexed>>, bm25' \in {bm25, store},
           ~reindexed => Agrees(x, store)
    PROVE  FreshInv'
<1> SUFFICES ASSUME ~reindexed
             PROVE  /\ bm25' \in {None, store}
                    /\ \A q \in Threads : Agrees(search'[q], store)
    BY DEF FreshInv
<1>1. bm25' \in {None, store} BY DEF FreshInv
<1>2. ASSUME NEW q \in Threads PROVE Agrees(search'[q], store)
  <2>1. CASE q = s
    <3>1. search'[q] = x BY <2>1 DEF TypeOK
    <3> QED BY <3>1
  <2>2. CASE q # s
    <3>1. search'[q] = search[q] BY <2>2 DEF TypeOK
    <3> QED BY <3>1 DEF FreshInv
  <2> QED BY <2>1, <2>2
<1> QED BY <1>1, <1>2

\* A step that only moves the search to another line.
LEMMA FreshGoTo ==
    ASSUME TypeOK, FreshInv, NEW s \in Threads, NEW pc, GoTo(s, pc),
           UNCHANGED <<store, reindexed, bm25>>,
           search[s].pc # "done", pc # "done",
           ~reindexed /\ pc \in Counted => Present(store) # {},
           pc \in Sized => search[s].pc \in Sized,
           pc \in Queried => search[s].pc \in Queried,
           pc \in Cached => search[s].pc \in Cached,
           pc \in Looked => search[s].pc \in Looked
    PROVE  FreshInv'
<1> DEFINE x == [search[s] EXCEPT !.pc = pc]
<1>1. search[s] \in Search BY DEF TypeOK
<1>2. /\ x.pc = pc /\ x.pool = search[s].pool /\ x.dense = search[s].dense
      /\ x.cached = search[s].cached /\ x.fused = search[s].fused
      /\ x.result = search[s].result /\ x.error = search[s].error
      BY <1>1 DEF Search
<1>3. search' = [search EXCEPT ![s] = x] BY DEF GoTo
<1> HIDE DEF x
<1>4. ~reindexed => Agrees(search[s], store) BY DEF FreshInv
<1>5. ~reindexed => Agrees(x, store) BY <1>2, <1>4 DEF Agrees
<1> QED BY <1>3, <1>5, OneSearch

LEMMA FreshRaise ==
    ASSUME TypeOK, FreshInv, NEW s \in Threads, NEW error, Raise(s, error),
           UNCHANGED <<store, reindexed, bm25>>,
           search[s].pc # "done",
           ~reindexed => error \notin {"empty", "missing"}
    PROVE  FreshInv'
<1> DEFINE x == [search[s] EXCEPT !.pc = "raised", !.error = error]
<1>1. search[s] \in Search BY DEF TypeOK
<1>2. x.pc = "raised" /\ x.result = search[s].result /\ x.error = error
      BY <1>1 DEF Search
<1>3. search' = [search EXCEPT ![s] = x] BY DEF Raise
<1> HIDE DEF x
<1>4. ~reindexed => Agrees(search[s], store) BY DEF FreshInv
<1>5. "raised" \notin Counted \union {"done"}
      BY DEF Counted, Sized, Queried, Cached, Looked, InBm25Lock
<1>6. ~reindexed => Agrees(x, store)
      BY <1>2, <1>4, <1>5 DEF Agrees, Counted, Sized, Queried, Cached
<1> QED BY <1>3, <1>6, OneSearch

\* _get_bm25 returns what the store holds.
LEMMA FreshBm25 ==
    ASSUME TypeOK, FreshInv, NEW s \in Threads, NEW c, WithBm25(s, c),
           UNCHANGED <<store, reindexed>>, bm25' \in {bm25, store},
           search[s].pc \in {"bm25"} \union InBm25Lock,
           ~reindexed => c = store
    PROVE  FreshInv'
<1> DEFINE x == [search[s] EXCEPT !.pc = "fuse", !.cached = c]
<1>1. search[s] \in Search BY DEF TypeOK
<1>2. /\ x.pc = "fuse" /\ x.pool = search[s].pool /\ x.dense = search[s].dense
      /\ x.cached = c
      /\ x.result = search[s].result /\ x.error = search[s].error
      BY <1>1 DEF Search
<1>3. search' = [search EXCEPT ![s] = x] BY DEF WithBm25
<1> HIDE DEF x
<1>4. ~reindexed => Agrees(search[s], store) BY DEF FreshInv
<1>5. search[s].pc \in Queried \ {"done"}
      BY DEF Queried, InBm25Lock
<1>6. "fuse" \notin Looked \union {"done"} BY DEF Looked
<1>7. ~reindexed => Agrees(x, store)
      BY <1>2, <1>4, <1>5, <1>6 DEF Agrees, Counted, Sized
<1> QED BY <1>3, <1>7, OneSearch

\* The collection is empty: there is nothing to return, and nothing more to do.
LEMMA FreshNothing ==
    ASSUME TypeOK, FreshInv, NEW s \in Threads, CountChunks(s),
           Present(store) = {}
    PROVE  FreshInv'
<1> DEFINE x == [search[s] EXCEPT !.pc = "done"]
<1>1. search[s] \in Search BY DEF TypeOK
<1>2. x.pc = "done" /\ x.result = search[s].result /\ x.error = search[s].error
      BY <1>1 DEF Search
<1>3. search' = [search EXCEPT ![s] = x] /\ search[s].pc = "count"
      BY DEF CountChunks, GoTo, At
<1> HIDE DEF x
<1>4. ASSUME ~reindexed PROVE Agrees(x, store)
  <2>1. Agrees(search[s], store) BY <1>4 DEF FreshInv
  <2>2. x.result = {} /\ x.error \notin {"empty", "missing"}
        BY <1>2, <1>3, <2>1 DEF Agrees
  <2>3. Cardinality({}) = Smaller(NResults, PoolOf(store))
        BY FS_EmptySet DEF PoolOf, Smaller
  <2>4. "done" \notin Counted
        BY DEF Counted, Sized, Queried, Cached, Looked, InBm25Lock
  <2> QED BY <1>2, <2>2, <2>3, <2>4 DEF Agrees, Counted, Sized, Queried, Cached
<1> QED BY <1>3, <1>4, OneSearch DEF CountChunks, cacheVars

LEMMA FreshSizePool ==
    ASSUME TypeOK, FreshInv, NEW s \in Threads, SizePool(s)
    PROVE  FreshInv'
<1> DEFINE x == [search[s] EXCEPT !.pc = "query", !.pool = PoolOf(store)]
<1>1. search[s] \in Search BY DEF TypeOK
<1>2. /\ x.pc = "query" /\ x.pool = PoolOf(store)
      /\ x.result = search[s].result /\ x.error = search[s].error
      BY <1>1 DEF Search
<1>3. search' = [search EXCEPT ![s] = x] /\ search[s].pc = "pool"
      BY DEF SizePool, PoolOf, At
<1> HIDE DEF x
<1>4. ~reindexed => Agrees(search[s], store) BY DEF FreshInv
<1>5. "query" \notin Queried \union {"done"} /\ "pool" \in Counted \ {"done"}
      BY DEF Counted, Queried, Cached, Looked, InBm25Lock
<1>6. ~reindexed => Agrees(x, store)
      BY <1>2, <1>3, <1>4, <1>5 DEF Agrees, Queried, Cached
<1> QED BY <1>3, <1>6, OneSearch DEF SizePool, cacheVars

LEMMA FreshDenseQuery ==
    ASSUME TypeOK, FreshInv, NEW s \in Threads, DenseQuery(s)
    PROVE  FreshInv'
<1>0. /\ search[s].pc = "query"
      /\ UNCHANGED <<store, reindexed, bm25>>
      BY DEF DenseQuery, At, cacheVars
<1>1. ~reindexed => Agrees(search[s], store) BY DEF FreshInv
<1>2. ~reindexed => Present(store) # {} /\ search[s].pool = PoolOf(store)
      BY <1>0, <1>1 DEF Agrees, Counted, Sized
<1>3. CASE search[s].pool = 0
  <2>1. reindexed BY <1>2, <1>3, PoolOfType
  <2> QED BY <1>0, <1>3, <2>1, FreshRaise DEF DenseQuery
<1>4. CASE search[s].pool # 0
  <2>1. PICK ids \in Top(Present(store), search[s].pool) :
            search' = [search EXCEPT ![s].pc = "bm25", ![s].dense = ids]
        BY <1>4 DEF DenseQuery
  <2> DEFINE x == [search[s] EXCEPT !.pc = "bm25", !.dense = ids]
  <2>2. search[s] \in Search BY DEF TypeOK
  <2>3. /\ x.pc = "bm25" /\ x.pool = search[s].pool /\ x.dense = ids
        /\ x.result = search[s].result /\ x.error = search[s].error
        BY <2>2 DEF Search
  <2>4. search' = [search EXCEPT ![s] = x] BY <2>1
  <2> HIDE DEF x
  <2>5. "bm25" \notin Cached \union {"done"} BY DEF Cached, Looked
  <2>6. ~reindexed => Agrees(x, store)
        BY <1>0, <1>1, <1>2, <2>3, <2>5 DEF Agrees, Cached
  <2> QED BY <1>0, <2>4, <2>6, OneSearch
<1> QED BY <1>3, <1>4

LEMMA FreshFuse ==
    ASSUME TypeOK, FreshInv, NEW s \in Threads, Fuse(s)
    PROVE  FreshInv'
<1>0. search[s].pc = "fuse" BY DEF Fuse, At
<1>1. PICK sparse \in Top(Present(search[s].cached), search[s].pool) :
         \E ids \in Top(search[s].dense \union sparse, search[s].pool) :
             search' = [search EXCEPT
                 ![s].fused = ids,
                 ![s].pc = IF Cardinality(ids) <= NResults THEN "rerank" ELSE "reranker"]
      BY DEF Fuse
<1>2. PICK ids \in Top(search[s].dense \union sparse, search[s].pool) :
         search' = [search EXCEPT
             ![s].fused = ids,
             ![s].pc = IF Cardinality(ids) <= NResults THEN "rerank" ELSE "reranker"]
      BY <1>1
<1> DEFINE pc == IF Cardinality(ids) <= NResults THEN "rerank" ELSE "reranker"
           x == [search[s] EXCEPT !.fused = ids, !.pc = pc]
<1>3. search[s] \in Search BY DEF TypeOK
<1>4. pc \in Looked BY DEF Looked
<1>5. search' = [search EXCEPT ![s] = x] BY <1>2
<1> HIDE DEF pc
<1>6. /\ x.pc = pc /\ x.pool = search[s].pool /\ x.dense = search[s].dense
      /\ x.cached = search[s].cached /\ x.fused = ids
      /\ x.result = search[s].result /\ x.error = search[s].error
      BY <1>3 DEF Search
<1> HIDE DEF x
<1>7. ASSUME ~reindexed PROVE Agrees(x, store)
  <2>1. Agrees(search[s], store) BY <1>7 DEF FreshInv
  <2>2. /\ Present(store) # {}
        /\ search[s].pool = PoolOf(store)
        /\ search[s].dense \in Top(Present(store), PoolOf(store))
        /\ search[s].cached = store
        /\ search[s].result = {}
        BY <1>0, <2>1 DEF Agrees, Counted, Sized, Queried, Cached
  <2>3. ids \subseteq Present(store) /\ Cardinality(ids) = PoolOf(store)
        BY <2>2, PresentCount, PoolOfType, FusedCount
  <2>4. pc # "done" BY <1>4 DEF Looked
  <2> QED BY <1>6, <2>1, <2>2, <2>3, <2>4 DEF Agrees
<1> QED BY <1>5, <1>7, OneSearch DEF Fuse, cacheVars

LEMMA FreshRerank ==
    ASSUME TypeOK, FreshInv, NEW s \in Threads, Rerank(s)
    PROVE  FreshInv'
<1>0. search[s].pc = "rerank" BY DEF Rerank, At
<1>1. ASSUME ~reindexed
      PROVE  /\ Agrees(search[s], store)
             /\ search[s].cached = store
             /\ search[s].fused \subseteq Present(store)
             /\ Cardinality(search[s].fused) = PoolOf(store)
      BY <1>0, <1>1 DEF FreshInv, Agrees, Cached, Looked
<1>2. CASE search[s].fused \subseteq Present(search[s].cached)
  <2>1. PICK ids \in Top(search[s].fused, NResults) :
            search' = [search EXCEPT
                ![s].pc = "done",
                ![s].result = Chunks(search[s].cached, ids)]
        BY <1>2 DEF Rerank
  <2> DEFINE x == [search[s] EXCEPT
                       !.pc = "done",
                       !.result = Chunks(search[s].cached, ids)]
  <2>2. search[s] \in Search BY DEF TypeOK
  <2>3. /\ x.pc = "done" /\ x.result = Chunks(search[s].cached, ids)
        /\ x.error = search[s].error
        BY <2>2 DEF Search
  <2>4. search' = [search EXCEPT ![s] = x] BY <2>1
  <2> HIDE DEF x
  <2>5. ASSUME ~reindexed PROVE Agrees(x, store)
    <3>1. IsFiniteSet(search[s].fused) BY <1>1, <2>5, PresentCount, FS_Subset
    <3>2. /\ ids \subseteq search[s].fused
          /\ IsFiniteSet(ids)
          /\ Cardinality(ids) = Smaller(NResults, PoolOf(store))
          BY <1>1, <2>5, <3>1, TopCount
    <3>3. Cardinality(x.result) = Smaller(NResults, PoolOf(store))
          BY <1>1, <2>3, <2>5, <3>2, ChunksCount
    <3>4. x.result \subseteq Chunks(store, Ids)
          BY <1>1, <2>3, <2>5, <3>2 DEF Chunks, Present
    <3>5. "done" \notin Counted
          BY DEF Counted, Sized, Queried, Cached, Looked, InBm25Lock
    <3> QED BY <1>1, <2>3, <2>5, <3>3, <3>4, <3>5
            DEF Agrees, Counted, Sized, Queried, Cached
  <2> QED BY <2>4, <2>5, OneSearch DEF Rerank, cacheVars
<1>3. CASE ~(search[s].fused \subseteq Present(search[s].cached))
  <2>1. reindexed BY <1>1, <1>3
  <2>2. Raise(s, "missing") /\ UNCHANGED <<store, reindexed, bm25>>
        BY <1>3 DEF Rerank, cacheVars
  <2> QED BY <1>0, <2>1, <2>2, FreshRaise
<1> QED BY <1>2, <1>3

LEMMA InitFresh == Init => FreshInv
<1>1. "idle" \notin Counted \union {"done"}
      BY DEF Counted, Sized, Queried, Cached, Looked, InBm25Lock
<1>2. \A c : Agrees(NoSearch, c)
      BY <1>1 DEF Agrees, NoSearch, NewSearch, Counted, Sized, Queried, Cached
<1> QED BY <1>2 DEF Init, FreshInv

LEMMA StepFresh ==
    ASSUME LockInv, FreshInv, [Next]_vars
    PROVE  FreshInv'
<1> TypeOK BY DEF LockInv
<1> USE DEF cacheVars, At
<1>a. /\ \A x \in {"idle", "collection", "waitClient", "recheckCollection",
                   "construct", "open", "count", "done", "raised"} :
             x \notin Counted \union Sized \union Queried \union Cached \union Looked
      /\ "pool" \notin Sized \union Queried \union Cached \union Looked
      /\ \A x \in {"bm25", "waitBm25", "recheckBm25", "nested", "snapshot"} :
             x \in Counted \cap Sized \cap Queried /\ x \notin Cached \union Looked
      /\ \A x \in {"reranker", "load", "rerank"} :
             x \in Counted \cap Sized \cap Queried \cap Cached \cap Looked
      BY DEF Counted, Sized, Queried, Cached, Looked, InBm25Lock
<1>b. ASSUME NEW s \in Threads, ~reindexed, search[s].pc \in Counted
      PROVE  Present(store) # {}
      BY <1>b DEF FreshInv, Agrees
<1>1. ASSUME NEW s \in Threads, BeginSearch(s) PROVE FreshInv'
  <2>1. Agrees(NewSearch(IndexersIdle), store)
        BY <1>a DEF Agrees, NewSearch
  <2> QED BY <1>1, <2>1, OneSearch DEF BeginSearch
<1>2. ASSUME NEW s \in Threads, CheckCollection(s) PROVE FreshInv'
      BY <1>2, <1>a, FreshGoTo DEF CheckCollection
<1>3. ASSUME NEW s \in Threads, LockCollection(s) PROVE FreshInv'
      BY <1>3, <1>a, FreshGoTo DEF LockCollection
<1>4. ASSUME NEW s \in Threads, RecheckCollection(s) PROVE FreshInv'
      BY <1>4, <1>a, FreshGoTo DEF RecheckCollection
<1>5. ASSUME NEW s \in Threads, ConstructClient(s) PROVE FreshInv'
      BY <1>5, <1>a, FreshGoTo DEF ConstructClient
<1>5a. ASSUME NEW s \in Threads, OpenCollection(s) PROVE FreshInv'
      BY <1>5a, <1>a, FreshGoTo DEF OpenCollection
<1>6. ASSUME NEW s \in Threads, CountChunks(s) PROVE FreshInv'
  <2>1. CASE Present(store) = {} BY <1>6, <2>1, FreshNothing
  <2>2. CASE Present(store) # {}
        BY <1>6, <1>a, <2>2, FreshGoTo DEF CountChunks
  <2> QED BY <2>1, <2>2
<1>7. ASSUME NEW s \in Threads, SizePool(s) PROVE FreshInv'
      BY <1>7, FreshSizePool
<1>8. ASSUME NEW s \in Threads, DenseQuery(s) PROVE FreshInv'
      BY <1>8, FreshDenseQuery
<1>9. ASSUME NEW s \in Threads, CheckBm25(s) PROVE FreshInv'
  <2>1. CASE bm25 # None
        BY <1>9, <2>1, FreshBm25 DEF CheckBm25, FreshInv
  <2>2. CASE bm25 = None
        BY <1>9, <1>a, <1>b, <2>2, FreshGoTo DEF CheckBm25
  <2> QED BY <2>1, <2>2
<1>10. ASSUME NEW s \in Threads, LockBm25(s) PROVE FreshInv'
      BY <1>10, <1>a, <1>b, FreshGoTo DEF LockBm25
<1>11. ASSUME NEW s \in Threads, RecheckBm25(s) PROVE FreshInv'
  <2>1. CASE bm25 # None
        BY <1>11, <2>1, FreshBm25 DEF RecheckBm25, FreshInv, InBm25Lock
  <2>2. CASE bm25 = None
        BY <1>11, <1>a, <1>b, <2>2, FreshGoTo DEF RecheckBm25
  <2> QED BY <2>1, <2>2
<1>12. ASSUME NEW s \in Threads, NestedGetCollection(s) PROVE FreshInv'
  <2>1. collection
        BY <1>12 DEF NestedGetCollection, LockInv, ClientInv, PastCollection, InBm25Lock
  <2> QED BY <1>12, <1>a, <1>b, <2>1, FreshGoTo DEF NestedGetCollection
<1>13. ASSUME NEW s \in Threads, BuildBm25(s) PROVE FreshInv'
      BY <1>13, FreshBm25 DEF BuildBm25, InBm25Lock
<1>14. ASSUME NEW s \in Threads, CallFails(s) PROVE FreshInv'
      BY <1>14, FreshRaise DEF CallFails, Calling
<1>15. ASSUME NEW s \in Threads, Fuse(s) PROVE FreshInv'
      BY <1>15, FreshFuse
<1>16. ASSUME NEW s \in Threads, CheckReranker(s) PROVE FreshInv'
      BY <1>16, <1>a, <1>b, FreshGoTo DEF CheckReranker
<1>17. ASSUME NEW s \in Threads, LoadReranker(s) PROVE FreshInv'
      BY <1>17, <1>a, <1>b, FreshGoTo DEF LoadReranker
<1>18. ASSUME NEW s \in Threads, Rerank(s) PROVE FreshInv'
      BY <1>18, FreshRerank
<1>19. ASSUME NEW i \in Indexers, BeginIndex(i) PROVE FreshInv'
  <2>1. ASSUME NEW s \in Threads, ~reindexed PROVE Agrees(search'[s], store)
    <3> DEFINE x == search'[s]
    <3>1. search[s] \in Search BY DEF TypeOK
    <3>2. x = [search[s] EXCEPT !.quiet = FALSE] BY <1>19 DEF BeginIndex, Disturb
    <3>3. /\ x.pc = search[s].pc /\ x.pool = search[s].pool
          /\ x.dense = search[s].dense /\ x.cached = search[s].cached
          /\ x.fused = search[s].fused /\ x.result = search[s].result
          /\ x.error = search[s].error
          BY <3>1, <3>2 DEF Search
    <3>4. Agrees(search[s], store) BY <2>1 DEF FreshInv
    <3> HIDE DEF x
    <3>5. Agrees(x, store) BY <3>3, <3>4 DEF Agrees
    <3> QED BY <3>5 DEF x
  <2> QED BY <1>19, <2>1 DEF BeginIndex, FreshInv
<1>20. ASSUME UNCHANGED <<cacheVars, search>>, UNCHANGED store, UNCHANGED reindexed
       PROVE  FreshInv'
      BY <1>20 DEF FreshInv
<1>21. ASSUME reindexed' PROVE FreshInv' BY <1>21 DEF FreshInv
<1>22. CASE RestartServer
  <2>1. Agrees(NoSearch, store) BY <1>a DEF Agrees, NoSearch, NewSearch
  <2> QED BY <1>22, <2>1 DEF RestartServer, FreshInv
<1> QED
      BY <1>1, <1>2, <1>3, <1>4, <1>5, <1>5a, <1>6, <1>7, <1>8, <1>9, <1>10, <1>11,
         <1>12, <1>13, <1>14, <1>15, <1>16, <1>17, <1>18, <1>19, <1>20, <1>21,
         <1>22
      DEF Next, SearchStep, IndexStep, ListExisting, DeleteExisting, AddFolder,
          IndexerDies, vars

LEMMA FreshInvariant == Spec => [](LockInv /\ FreshInv)
<1>1. Init => LockInv /\ FreshInv
      BY InitType, InitLock, InitFresh DEF LockInv
<1>2. LockInv /\ FreshInv /\ [Next]_vars => (LockInv /\ FreshInv)'
      BY StepType, StepLock, StepFresh DEF LockInv
<1> QED BY <1>1, <1>2, PTL DEF Spec

\* For any corpus, pool size and number of results, and however the threads
\* race to build the cache: until an ingest touches the store a search returns
\* as many chunks as it was asked for, or all there are, with the text the
\* store has (vector_store.py:155-199).
THEOREM SearchServesTheStore == Spec => []ServesTheStore
<1>1. FreshInv => ServesTheStore
  <2> SUFFICES ASSUME FreshInv, NEW s \in Threads, At(s, "done"), ~reindexed
               PROVE  /\ search[s].result \subseteq Chunks(store, Ids)
                      /\ Cardinality(search[s].result) =
                             Smaller(NResults, Smaller(PoolSize, Cardinality(Present(store))))
      BY DEF ServesTheStore
  <2>1. Agrees(search[s], store) BY DEF FreshInv
  <2> QED BY <2>1 DEF Agrees, At, PoolOf
<1> QED BY <1>1, FreshInvariant, PTL

\* For any corpus and any number of threads: n_results is never 0 and no id
\* is looked up in vain unless an ingest has touched the store since the
\* server started (vector_store.py:156-164, 186, 192-199).
THEOREM LookupsFailAfterIngest == Spec => []LookupsFailOnlyAfterIngest
<1>1. FreshInv => LookupsFailOnlyAfterIngest
      BY DEF FreshInv, Agrees, LookupsFailOnlyAfterIngest
<1> QED BY <1>1, FreshInvariant, PTL

=============================================================================
