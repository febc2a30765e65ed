# HR Portal RAG in TLA+

A model of the HR portal assistant of this repository: what a bearer token is worth, what a chat
turn of the agent does to the conversation it belongs to, how a streamed response ends, what the
page in the browser shows, how threads and processes share the policy store, how its rankings are
fused and evaluated, and what a boot of the container leaves behind.
TLC checks the model on small instances; the TLA+ proof system checks theorems about it for every
value of the constants.

## 1. Inventory

| Component | Code | State | Operations |
|---|---|---|---|
| Auth sessions | `hr_rag/session_store.py` | `_SESSIONS`, token -> employee, in memory | create, get, delete |
| Agent turn | `hr_rag/agent.py` | `_graph` (lazy global); a checkpoint per graph and thread; per turn: `prior_len`, the run's copy of the state | `_get_graph`, `run_turn_stream`, nodes `agent`, `tools`, `check_escalation` |
| Web layer | `api.py` | the open responses | `/login`, `/logout`, `/chat`, `event_stream` |
| Query log | `hr_rag/logging_util.py` | lines on stdout | `log_query`, `log_error` |
| Policy store | `hr_rag/sources/vector_store.py`, `hr_rag/ingest.py` | the Chroma collection on disk; `_client`, `_collection`, `_bm25_cache`, `_reranker`, `_client_lock` | `search`, `index_policy_docs` |
| Employee records | `hr_rag/sources/employee_db.py`, `hr_rag/table_catalog.py` | the tables of `employees.db`; a search's position | `search`, five scoped queries |
| Login check | `hr_rag/auth.py` | none | `verify_login` |
| Web search | `hr_rag/sources/web_search.py` | none | one call of the model API |
| Guardrails | `hr_rag/guardrails.py`, `hr_rag/models.py` | none | formatting, redaction |
| Bootstrap, seeding | `docker/entrypoint.sh`, `data/seed_employees.py`, `docker-compose.yml` | the data volume | seed, ingest, serve, restart |
| Browser client | `static/index.html` | `token`, the view, the messages; per handler: the response awaited, the stream read, `answerEl` | login, logout, submit |
| Terminal client | `cli.py` | the employee, a private token | `pick_employee`, a loop of turns, Ctrl+C, Ctrl+D |
| Evaluation | `eval/run_eval.py`, `eval/golden_set.py` | rows of metrics, rows of times, the report | `evaluate_retrieval`, `evaluate_latency`, `main` |
| Configuration, infrastructure, tests | `hr_rag/config.py`, `infra/`, `tests/` | none | none |

How they interact. A chat request is admitted against the session store in the handler and runs
later, in `event_stream`, in a thread of FastAPI's pool; the generator drives one turn of the
agent, which loads and saves the conversation stored under the token. The tools node calls the
policy store, the employee database and the web search, in parallel threads. The policy store is
shared with ingest processes through the disk only. The database is shared with whoever runs the
seed. Sessions, conversations and caches die with the process; database and policy store do not.
The page talks to the three endpoints by `fetch` and holds nothing but a token; the terminal and the
evaluation import the agent and run turns of it in their own process, one at a time.

What is hard here, and the property that makes each part right:

- *Sessions*: a token that is dead stays dead, and a conversation that outlives its session under
  the same key belongs to nobody else (`DeadTokensStayDead`, `RecordScoped`).
- *Turns*: overlapping turns of one conversation; a model that may call any tools, in any
  combination, for ever; nodes that raise; a recursion limit that may fall between any two nodes;
  a client that hangs up. The history left behind must be one the API accepts
  (`HistoryStaysUsable`), answered turns must be remembered (`AnsweredTurnsRemembered`), the tier
  and the report must be the turn's own (`TierDiscipline`, `ReportsOwnTurn`), and the turn must
  cost a bounded number of model calls (`ModelCallBudget`) and end (`ResponsesEnd`).
- *Policy store*: one lock, not reentrant, used in a nested call; caches filled at different times
  (`LockProtects`, `NoSelfDeadlock`, `OneClientStands`, `ServesTheStore`,
  `LookupsFailOnlyAfterIngest`, `SearchesEnd`).
- *Database and bootstrap*: DDL that commits at once and inserts that commit together; a search of
  up to five queries on five connections; boots cut short anywhere (`CoreRowsMeanAllRows`,
  `AnswersAreWhole`, `ServesWholeUnlessCut`, `SeededVolumeKept`, `ComesUp`).
- *Page*: async handlers that overlap on one global token, one view and one list of messages, while
  requests and responses get lost and the server restarts (`PageIsOneLogin`,
  `AnswersFollowQuestions`, `NoSessionForgotten`, `LoginEndsWithItsSession`, `QuestionsSettle`).
- *Terminal*: turn after turn on one thread, some of which fail and leave a checkpoint behind
  (`ImplementsConversation`, `TagIsOwnTurn`, `PromptReturns`).
- *Fusion and evaluation*: two constants in two files that must fit each other, ties, samples that
  are empty, runs that die half-way (`FusionRespectsAgreement`, `MetricsAgree`, `ReportIsWhole`).

## 2. Modules and code

| Module | Models | Extends |
|---|---|---|
| `Portal` | employees, tokens, `None` | |
| `SessionStore` | `session_store.py`; `token_urlsafe` returns a token never returned before | `Portal` |
| `AgentGraph` | `agent.py`: the lazy graph, `run_turn_stream`, the three nodes | `Portal` |
| `ChatService` | `api.py`: composes the two; handlers, `event_stream`, hang-ups, restarts; the properties | `AgentGraph`, `SessionStore` |
| `ChatClaims` | statements of the documents about a turn | `ChatService` |
| `Conversation` | abstract: what a conversation promises a caller who asks one question at a time | |
| `TerminalClient` | `cli.py`; shown to implement `Conversation` | `AgentGraph` |
| `BrowserClient` | `static/index.html`, beside the endpoints as the page sees them | `SessionStore` |
| `PolicyStore` | `vector_store.py` in the server, and the ingest process | |
| `PolicyClaims` | a statement of a comment about the cache | `PolicyStore` |
| `Retrieval` | rank fusion and the cut to the results in `vector_store.search`, with scores | |
| `EvalHarness` | `run_eval.py`: both evaluations, metrics, percentiles, the report | `Retrieval` |
| `EmployeeDb` | `seed_employees.py` statement by statement; `employee_db.search` query by query | |
| `Bootstrap` | `entrypoint.sh` under `restart: unless-stopped`, a seed by hand, the server's searches | `EmployeeDb` |
| `MCChatService`, `MCPolicyStore`, `MCBootstrap`, `MCTerminal`, `MCEval` | instances for TLC (`BrowserClient` needs none) | |
| `AgentGraph_proof`, `AgentHistory_proof` | lemmas about a turn: where it is, what it writes into a history | `AgentGraph` |
| `ChatService_proof`, `TerminalClient_proof`, `BrowserClient_proof`, `PolicyStore_proof`, `EvalHarness_proof`, `Bootstrap_proof` | theorems | |

`PROJECT.json` maps each definition to the lines it stands for. Definitions marked "Mutant" are
plausible mistakes, kept beside the definition they would replace; none is used by a specification.

**A turn.** `turn[r].pc` follows the code: `called` (the generator exists), `building` and
`returning` (inside `_get_graph`, which tests, assigns and reads a global without a lock; making
the models may raise, and then the global stays unset),
`bound`, `opened` (`get_state` has been read, `prior` is `prior_len`), then the node that is due
(`agent`, `tools`, `check`), `end`, and `done`, `raised` or `abandoned`. A graph is named by the
request that built it, because each graph has a `MemorySaver` of its own. Relied on from
LangGraph (external): a run loads the thread's last checkpoint when its stream starts and then
works on a private copy; it saves after the input and after each node that returns, last save
wins; a node that raises saves nothing; a node due after `MaxIterations` nodes raises
`GraphRecursionError`; `ToolNode` answers calls in their order and lets a tool's exception out;
`get_state` is the last checkpoint. Relied on from the Messages API: it refuses a tool call that
its results do not follow (`ApiAccepts`).

Abstracted: token events carry no state; `escalation_reason` is set exactly when `escalated` is;
`tools_used` is a set; message texts are gone, a tool message keeps whose record it holds; a login
that fails changes nothing. The two tool errors kept apart are the one `event_stream` catches
(`web`, an Anthropic error) and the ones it does not (`tool`, sqlite3 or Chroma; so is `build`). A client's
hang-up is seen where the generator is suspended: before its first step, at a token, at done.

**The terminal.** `pc` is where `main` is: choosing an employee, at the prompt, in a turn, ended. The
turn is `AgentGraph`'s, unchanged; the process holds one token, so `memory` has one thread that
matters. Of a turn's errors `Caught` are the two exception classes named by the `except` clause.
Ctrl+C is an action enabled anywhere, and abandons the turn under way.

**The promise of a conversation.** `Conversation` has a history, an outcome for each turn, and
whether a further turn can be answered. `TerminalClient` implements it with the last checkpoint of
its thread as the history, the turn's position as the outcome, and `ApiAccepts` as usable (calls
whose results are on the way count as usable while the tools node runs). So: only the turn under
way adds to the history and nothing is ever taken away, an answer is the last message of its own
turn, and after a failure that left a call without result no later turn is answered. A browser has
no such promise: turns of one token may overlap there, and `claim_grows` is what happens then.

**The page.** A `call` is one run of a click handler with the request it makes. Its `client` side
(`waiting` for the fetch, `reading` the stream, `over`, or `lost` when fetch or `read()` rejects) and
its `server` side (`pending`, `ok`, `refused`, `dropped`) move apart: a response can be lost after
the server has acted, and a request the page has given up may still be served. The page's list of
messages is a sequence, each message with the call it belongs to, and `addMessage` appends; an answer
whose element was made before the list was emptied goes on into a detached element, and that is what
`answered` records. The server is reduced to what the page can tell: sessions, and admitted or
refused. `RefuseLogin` stands for a wrong password (and any other reason for not answering 200).
Statuses other than 200 and 401 are never sent for `/chat` by `api.py` for a request the page makes;
the branch for `!res.ok` puts the same message on the page as the catch clause (`Lose`) and adds no
behaviour. `alone` is a ghost: it falls when the page changes hands (a token stored or
forgotten) while another handler is under way, and three of the properties are stated under it,
since they are not true otherwise (section 5). `crossed` is the other: the questions asked while
another waits for its answer, or whose answer is awaited while another is asked. Their replies are
appended as their first texts arrive, so the page may show both questions and then both answers, and
only a question asked alone has its answer directly below it.

**Fusion.** A ranking is a sequence of distinct ids. A score is a fraction, so nothing is rounded;
`sorted` is stable, so ties keep the order in which ids entered the dictionary (`Entered`). The
reranker may order the pool in any way; a pool that is not larger than the results asked for is
returned as it is. `PolicyStore` has the same search with its concurrency and without the scores.

A sorted list is any sequence of all the members that is in order (`Fused`, `Ascending`); that there
is one, for any rankings and any sample, is a lemma of `EvalHarness_proof`.

**An evaluation.** One step per query and stage. A row keeps counts, not ratios, and the gain in
units of 10^-6 (`Discount`); times are small numbers; the means over rows are not computed. A
search or a turn that raises ends the run with no report, since nothing is caught.

**A search of the policies.** `search[s].pc` names the statement, and inside a locked block it is
in `Holding`. Scores are abstract: `Top(S, n)` is any set of `n` members of `S` (or all of it).
Chroma's calls each take effect at once; `add` ignores ids that are there; a query for zero results
is refused. `Calling` lists where a search calls Chroma or the reranker: the client's constructor,
`get_or_create_collection`, both counts, the query, the `get` for BM25, the load of the
CrossEncoder and, for a pool that is to be cut, its `predict`. Each may raise (`CallFails`), and leaves
a locked block by its `with`. The client and its collection are two calls (`ConstructClient`,
`OpenCollection`): `_collection` alone is what others look at, so a client whose collection could not be
opened is given up, and `wasted` counts these. The ingest process fails by dying between its steps
(`IndexerDies`).

**The database.** A table's rows are the employees they belong to. A seed is three groups of `N`
statements and a commit; DROP and CREATE take effect at once, the inserts wait in `pending`.
Connecting creates the file. A search goes through the catalog in order, skipping what was not
requested. Left out: SQLite's lock waits, the text of the chunks, and the year that
`get_my_leaves` filters on. Two seeds never run at once in the model.

**A boot.** `boot` is the script's position. `StopContainer` is both a command that fails under
`set -e` and a kill. `OpenStore` is the ingest up to where Chroma has made its directory,
`FillStore` the rest: the chunks are added by one call at the end of `index_policy_docs`.

## 3. Runs

| Run | Instance | States | Shows |
|---|---|---|---|
| `chat_sessions` | 2 employees, 2 tokens, 2 requests, limit 3, fairness | 740 996 | types; records scoped to the token's owner; dead tokens stay dead; every admitted response ends |
| `chat_turns` | 1 token, 2 requests, limit 6, 4 answers of up to 2 tool calls | 1 366 688 | tiers, budget, report, memory, usable history |
| `policy_store` | 2 threads, 1 ingest, folders of 1 or 2 chunks, fairness | 734 978 | lock, client, self-deadlock, lookups; every search ends |
| `policy_search` | 2 threads, stores of 0 to 4 chunks, pool of 3, 2 results | 39 760 | a search returns what the store has, and as much as it should |
| `bootstrap` | 2 employees, 3 tables, 1 search, fairness | 8 261 | the six properties of the database and the boots |
| `browser` | 1 employee, 2 tokens, 4 clicks, fairness | 157 655 | what the page shows, whose and in which order; no session forgotten; every question gets one reply |
| `terminal` | 1 employee, 3 questions, limit 7, fairness | 209 713 | refinement of `Conversation`; the tag; the prompt returns |
| `evaluation` | corpora of 4, 2, 1 and no chunks, pool of 3, 2 results, 3 golden queries | 179 333 | fusion, metrics, percentiles and the report |
| `claim_grows` | 1 token, 2 requests, limit 6 | violated | overlapping turns: the last save drops the other turn's messages |
| `claim_usable` | as `claim_grows` | violated | a failed web search leaves a tool call unanswered, and every later turn is refused |
| `claim_stale` | 1 thread, 1 ingest, 2 chunks | violated | the server's cache outlives a re-ingest by another process |
| `claim_boot` | as `bootstrap` | violated | a first boot cut short is never made good |

Each `claim_` run refutes a sentence of the repository that `PROJECT.json` quotes under "findings".
Every property of a passing run is also run against one mutant of the mapped code that breaks it.

**Bounds.** Requests are used once each, so their number bounds the turns of a behaviour. Two
suffice for what the properties speak of: a turn and the one before it, or the one beside it.
Whether the history is usable, and the budget, depend on where the recursion limit falls in the
loop of three nodes. `MAX_ITERATIONS` is 12, a multiple of three, and the runs use 3 and 6: the
limit then always falls before an `agent` node. (With a limit one more than a multiple of three
`HistoryStaysUsable` would fail: the limit would fall between a tool call and its results.) Limit 6 lets a turn
escalate and answer on the deep model. The tool lists cover every route: none, a record lookup, a
web search, a policy search next to an escalation; in `chat_sessions`, which is about tokens and
failures, an answer, and a record lookup next to a web search, of which one fails with an exception
the API layer catches and the other with one it does not. The policy store has two runs because what they
ask needs
different instances. In `policy_store` two threads make every race for the lock; the pool of two is
as large as the store or larger, and the store shrinks to nothing and grows while an ingest refills
it; one wording is enough, since no property of that run compares texts, and one client is given up
at most (`MaxWasted`), after which the next one stands. `policy_search` is about
results: there is no ingest (none is allowed by the property), every chunk has a text of its own, so that
a wrong text shows, and stores of no chunk, fewer than asked for, as many, as many as the pool, and more
than the pool (as in the code: 106 chunks, a pool of 20, 4 results) are all there. In `claim_stale` there
are two wordings. Four clicks on the page allow a login, two questions and a logout, or two logins with what
is left over from the first between them; the second token is for the second login. At the
terminal three questions are a failed one, the next and the one after, and limit 7 lets the limit
fall after an `agent` node, between calls and their results, which no multiple of three does. In the
evaluation the corpora are larger than the pool, as large as the results, smaller than the results and
empty, the small ones with and without the answer; the two rankings range over all orders, and golden
queries have one or two answers, as in `golden_set.py`; three queries make samples of zero to three
first tokens, and times up to `MaxTime` make ties and all orders. In the bootstrap a core table, one
everybody has a row in and one not everybody has are the three cases a table can be. No state constraint
is used; the counters of ghosts (`logged`,
`clients`, `wasted`, `loads`) are bounded by the steps that move them or by `MaxWasted`. Symmetry is used
only in runs
without liveness. Deadlock checking is off where the system may properly stop: in the chat service
when all requests are answered and all tokens dead, on the page when the clicks are used up, at the
terminal after Ctrl+D or with no question left, in the evaluation at its end.

**Fairness.** `ChatService`: weak fairness of each request's steps. Sync endpoints and generators run
in a thread pool, each in its own thread, and the calls they make return or raise; nothing is
assumed of clients, hang-ups or restarts. `PolicyStore`: weak fairness of a thread's steps and strong
fairness of its lock acquisition, since a contended `threading.Lock` promises a waiter no more than
that; `SearchesEnd` further assumes that Chroma and the reranker do not fail for ever. `Bootstrap`: the restart
policy starts the container again and its processes run; `ComesUp` assumes that it is eventually
left alone. `BrowserClient`: each fetch settles and each stream ends, well or badly; nothing is assumed of
clicks, of the server, or of texts. `TerminalClient`: the process runs and each call of a turn returns or
raises; nothing is assumed of the user.

## 4. Theorems

Each is about every behaviour of `Spec`, with only the named assumptions on constants
(`NoneAssumption`, `AgentAssumption`, `PolicyAssumption`, `DbAssumption`, `BrowserAssumption`,
`RetrievalAssumption`, `EvalAssumption`) unless it says otherwise. Every invariant that a passing run checks has
its theorem.

**Chat service** (`ChatService_proof`).

- `TypeCorrect`, `RecordsAreScoped`, `DeadTokens`. The invariant `Inv` adds to the types that a live
  session is the one the token was issued for, and, turn by turn (`TurnInv`), that a turn under way
  has a token that was issued and that employee, and a graph where it needs one. `RecordScoped` is
  not inductive: a turn copies the checkpoint of its token, so `ScopeInv` says the same of every
  checkpoint. `DeadTokens` is an action property, proved from `Inv` step by step.
- `DeepWhenAsked`, `CallsAreBudgeted`. `HistInv` joins three facts about a history, each of a turn's
  copy and of every checkpoint. `AuthorInv`: a message was written by a turn that has started,
  so a new turn finds none of its own. `TierInv`: the tiers are right so far, and the flag that
  chooses the next model is up exactly when this turn has asked for it; the property alone does not say
  what the next call will be. `BudgetInv`: a turn's model calls are at most one per three steps it has
  taken; the property compares with the limit, which no step preserves.
- `ReportsAreOwn`. `ThreadInv`: while a turn has its conversation to itself, the checkpoint it saves
  to is what it has in hand, and everything after `prior_len` is its own. A turn under way elsewhere
  may take `alone` away; no step gives it back.
- `AnswersAreRemembered`. `GraphOwned` says that no turn holds the graph of a request that has yet
  to build one, so a graph once replaced does not come back. `RememberInv` says of every finished turn,
  while its
  graph is the process's and the turns of its token were all alone, that its history is a prefix of
  the checkpoint. By `ThreadInv` the next turn on the token works on that checkpoint itself, so that it
  only grows.
- `HistoriesStayUsable` has one more hypothesis: `MaxIterations % 3 # 1`. `CountInv` says that the
  number of steps modulo three tells which node is due, so the limit is reached between a call and
  its results exactly under the excluded limits; `UsableInv` says that a checkpoint of a token whose turns did
  not overlap is one the API accepts unless a tools node is due or a tool raised. The hypothesis is
  necessary: with limit 4 TLC finds a history left with an unanswered call. The code's
  `MAX_ITERATIONS` is 12, which satisfies it, though nothing in the code says that it must.

**Terminal** (`TerminalClient_proof`): `TypeCorrect`, `Implements`, `TagsAreOwn`. The refinement is
proved step by step: the initial state maps to `Conversation`'s, and each step of the program to one
of its steps or to none. It needs to know (`Inv`) that only the turn `main` waits for is under way,
and on the process's token (`MainInv`), that no graph but the process's one has a memory
(`GraphInv`), and that a turn in the graph works on the history itself, has written its last message,
and leaves no call without a result behind when it ends (`HistoryInv`): hence an answered turn closes
its own history, and no turn gets past a history the API refuses. `TagsAreOwn` adds `TagInv`
to `ThreadInv`: every turn has the conversation to itself, and an answer not yet tagged is what the
history ends with.

**Page** (`BrowserClient_proof`): `TypeCorrect`, `PageIsOneLoginHolds`, `AnswersFollow`,
`NoSessionForgottenHolds`, `LoginEnds`. `TokenInv` says that the chat view is shown exactly with a token,
and that it and every
live session were issued; `CallInv`, what a call holds at each place, and that a session it was told
is gone is gone for good; `PageInv`, that a reply on the page belongs to a handler that knows it has
replied, which is why there is no second one; `CrossInv`, that two questions under way together are
both `crossed`; `AloneInv`, that while the page has never changed hands under a running
handler, an open login handler finds no token on the page, any other open handler carries the
page's, a question still waiting is on the page, and if it is not `crossed` and has no answer yet it is
the last message (`LastIs`): where its answer is appended is directly below it. `AnswersFollow` alone
is not inductive, as it says nothing of a question whose answer is yet to come.

**Policy store** (`PolicyStore_proof`): `TypeCorrect`, `LockIsExclusive`, `OneClient`,
`NoThreadBlocksItself`, `SearchServesTheStore`, `LookupsFailAfterIngest`. `LockInv` joins the lock's
meaning to `ClientInv`: every client but one was given up, and that one is there exactly while there is a
collection or a thread about to open it (`Opening`); a thread that constructs or opens finds no
collection; and a thread past `_get_collection` implies one. The last part is why the
nested call under the lock never waits for it. `FreshInv` is for the last two: until an ingest
begins, the cache and what a search has read so far (its count, its pool size, its two rankings)
are those of the store as it is, so that each later read agrees with the earlier ones.

**Fusion and evaluation** (`EvalHarness_proof`).

- `AgreementWins`, `AheadInBothWins`: about any two rankings of any length up to the pool. The first
  needs `PoolSize <= RrfK + 1`, which `RetrievalAssumption` states and 20 and 60 satisfy: with a
  larger pool an id that one ranking puts first could beat one that both rankings put last.
- `TypeCorrect`, `FusionAgrees`, `MetricsAlwaysAgree`, `ReportsAreWhole`. The invariant `EvalInv` is
  plain: each row is the row of its golden query for some results (`RowsInv`), a query being scored
  has the pool of its rankings (`QueryInv`), no first token is later than its turn (`TimesInv`), a
  stage is left when it is through (`StageInv`). The work is in what the operators compute.
  `SortingExists`: a strict total order on a finite set can be followed by a sequence of it, since how many
  come before each member is a bijection to `1..n`; it makes the `CHOOSE` of `Fused` and `Ascending`
  mean what it says. `PrecedesIsOrder`: comparing fractions, then order of entry, is such an order.
  `PoolAgrees`: an agreed id is not cut, since all before it are agreed as well and there are no more
  of those than a ranking is long. `GainIs`: the fold is the sum of four weights, by minimality of a
  counterexample among finite sets. `RowAgrees`, `PercentileIsNearest`, `PercentileGrows`. `RowAgrees` has
  both directions of the NDCG: a query has at most as many hits as it has best places and the four
  weights decrease, so the hits reach the gain of the best places only by taking those places.

**Bootstrap** (`Bootstrap_proof`): `TypeCorrect`, `CoreMeansAll`, `WholeAnswers`, `ServesWhole`,
`BootsWipeNothing`. `SeedInv` carries the progress of a seed: from its second statement to its commit
the core table is empty, tables already dropped have no rows, tables already created are there, rows
already inserted are pending. `ReaderInv` says that a search that has not been torn still has the
whole database before it, and what it owes for the part of the catalog it is past. `BootInv` says
that a database file that no seed was cut short on is complete, and that a seed begun by the script
begins with no tables.

Only model-checked: the liveness properties (`ResponsesEnd`, `SearchesEnd`, `ComesUp`,
`QuestionsSettle`, `PromptReturns`), since fairness and ENABLED are outside the prover's reach.

## 5. Not modelled

`guardrails.py` and `models.py` format and redact text: `wrap_untrusted` is only ever given the chunks of one
source, and the two patterns of `redact_pii` decide nothing. `auth.py` is a hash and one lookup; its
answer is taken as given. The parsing of front matter and headings, the text of prompts and
results, the statements of `infra/`, and the unit tests are data or declarations. A reload of the page
is not an action: it is the initial page again, beside a session that lives on until the process
ends (`api.py` has no expiry).

Seen while modelling and not made into a run:

- A response is cut off with no event where a tool raises something other than the two exception
  classes that `event_stream` catches (`Break`).
- Two first requests that race in `_get_graph` build two graphs, and what was said on the first is
  forgotten; the reranker may likewise be loaded twice (`loads`), which costs memory and nothing else.
- The done event of overlapping turns may report the other turn's tools, since `prior_len` indexes a
  checkpoint both write.
- One Chroma client is constructed per process, as vector_store.py:46-48 says, only while
  `get_or_create_collection` does not raise: when it does, `_collection` stays unset and the next call
  constructs another client. `OneClientStands` is what remains true.
- A search whose cache and store disagree fails with a `KeyError`.
- Where the models cannot be made (no API key, say), every turn ends in an exception that neither
  `event_stream` nor `cli.py` catches: the response is cut off, the terminal dies (`BuildFails`).
- A client that hangs up at the done event loses the turn's log line; a logout between admission and
  turn does not stop the turn.
- On the page, a handler that outlives its login meddles with the next one: a late 401, a second
  click on Logout or a late login response resets or replaces a newer login, and a first token that
  arrives late is shown in the newer login's page. Hence the premises of `PageIsOneLogin`,
  `AnswersFollowQuestions`, `NoSessionForgotten` and `LoginEndsWithItsSession`. A logout whose fetch
  fails leaves the chat view with a token that may be dead; the next question then finds out.
- Two questions sent one right after the other may be answered in the other order, each answer below
  both questions and nothing on the page telling whose it is.

## 6. Plan

Done, in this order: `SessionStore`, `AgentGraph`, `ChatService` and its proofs; `PolicyStore` and
its proofs; `EmployeeDb`, `Bootstrap` and their proofs; `BrowserClient` and its proofs; `Conversation`,
`TerminalClient` and the refinement; `Retrieval`, `EvalHarness` and their
proofs; the proofs about histories, tiers, budgets and reports. What is left:

1. Chunking as functions: chunk ids unique over a folder, the headings a partition of the body.
2. `ChatService` restricted to turns that do not overlap, as a second implementation of
   `Conversation`: `claim_grows` shows that the restriction is needed.
