# GroundGraph: a TLA+ model of its core, checked and proved

GroundGraph answers questions from documents. It ingests files into PostgreSQL,
projects the knowledge found in them into a Neo4j graph through a transactional
outbox, and answers queries with evidence from a vector search, a keyword
search and a walk over the graph. This directory models the parts of it in which
processes, transactions and failures meet, and the algorithms that decide what a
user gets to see. `PROJECT.json` lists components, runs, mutants, hazards,
findings and theorems, and maps every definition to the lines it models.
Paths below are relative to `src/groundgraph/` unless they start with `docs/` or
`evals/`.

## 1. Inventory

| Component | State | Operations | Hard part | What makes it correct |
|---|---|---|---|---|
| Outbox (`infrastructure/postgres/outbox_repository.py`) | rows with status, claim token, lease, attempts, next attempt | `add`, `claim_batch`, `mark_completed`, `mark_failed` | leases that expire under a running worker, retries with backoff | one valid claim per row, completion is final, a lease protects its holder |
| Graph worker (`outbox_graph_projector.py`, `infrastructure/neo4j/repository.py`) | its batch; the Neo4j graph | poll, project, complete, fail, stop | two stores without a common transaction, death between two commits | at-least-once delivery, completion only after projection, progress past a bad event |
| Ingestion (`application/ingestion/services.py`, `document_repository.py`, `ingestion_checkpoint_repository.py`, object storage) | documents, versions, chunks, checkpoints, raw objects | ingest, delete, register and deactivate a source | concurrent ingestions of one file, resumption from a checkpoint, failure at any await | pointer and flags agree, a version is published once, an answer was true during the call |
| Improvement proposals (`api/operator.py`) | proposal rows, evaluation runs | create, transition | read and update without lock or version | nothing reaches canary without evaluation and approval; one outcome |
| Query and replay (`api/query.py`, `api/execution.py`, `execution_store.py`) | execution runs | query, replay, status transitions | failing or lost commits, death of the process, index versions published meanwhile | what the client was told is recorded, terminal runs are frozen, runs end |
| Query workflow and answering (`workflows/query_graph.py`, `answer_generator.py`, `claim_validator.py`) | response, evidence, error, retry count | execute, validate, decide, retry, fail | state of an earlier attempt, outputs that cite what was not retrieved | answers are grounded, everything else is a bare failure |
| Graph retrieval (`application/retrieval/graph_fusion.py`) | queue, seen pairs, results | one `find_facts` at a time | the graph changes between reads, limits | breadth-first over what is stable, real paths, it ends |
| Planning, fusion, reranking (`retrieval_planner.py`, `hybrid_retrieval.py`, `fusion.py`, `reranker.py`) | result lists, scores | plan, search, fuse, deduplicate, limit, rerank | ties, limits and deduplication in the right order, zero as a score | the best evidence is selected |
| Parsers, chunker (`application/ingestion/parsers.py`, `chunker.py`) | none between calls; a window over the text within one | parse, split by heading, slide | window arithmetic in three coordinate systems: body lines, section lines, characters | no text is lost, blocks are whole, paths and locators are right, the window moves on |
| Extraction (`workflows/extraction_graph.py`, `application/extraction/*`) | mentions, entities, facts, two open transactions | extract, resolve, create, emit, commit twice | check-then-create of entities by concurrent runs, one store commits and the other does not | one canonical entity per name, no fact without its entities |
| Review queue, feedback (`api/operator.py`) | review items, feedback | decide, comment, list | blind update, answer read after the commit, runs deleted meanwhile | tenants stay apart, a caller is answered with his own decision |
| Identity (`api/dependencies.py`, `api/operator.py`) | cached keys of the provider, a lock | authenticate | an asyncio lock shared by event loops in many threads, key rotation | who is let in was verified; requests are answered |
| M6 evaluation runner (`evals/runners/m6_hybrid_evaluation.py`) | two containers, two connections, results | start, fill, evaluate, report, release | any call may raise, release depends on how far it got | nothing is left running |
| Version records (`version_records.py`) | index versions | create, deactivate previous | order against a partial unique index | not modelled: no caller |
| Ontology, smoke gate and DeepEval adapter, injection screening, application shell, telemetry | configuration or none | | | not modelled, see section 8 |

Components interact as follows. Ingestion and extraction write outbox rows in the
transactions that change the documents; the worker reads them and writes Neo4j.
A query reads PostgreSQL (chunks of current versions of active sources under the
active index version) and Neo4j (verified facts), and records its run in
PostgreSQL. Proposals and reviews touch PostgreSQL only. Every request is
authenticated first, in a thread of its own.

## 2. Modules

| Module | Models | Extends / instantiates |
|---|---|---|
| `Outbox` | the `outbox_events` table and its repository | |
| `Neo4jGraph` | the MERGE statements as operators on a graph | |
| `OutboxDelivery` | abstract: an event is accepted, delivered, settled | |
| `GraphWorker` | any number of workers over `Outbox` and `Neo4jGraph` | both; instantiates `OutboxDelivery` |
| `Ingestion` | ingestion jobs, deletion, source state, checkpoints, raw objects | |
| `OperatorIdentity` | who an operator is and which rows he may touch | |
| `Proposals` | proposals, evaluation runs, calls in flight | `OperatorIdentity` |
| `Reviews` | review decisions, feedback, the dashboard's reads | `OperatorIdentity` |
| `Authentication` | identity of both APIs, the key cache and its lock | |
| `Evaluation` | the M6 evaluation runner | |
| `Parsers` | the eight parsers: body, headings and blocks of a document | |
| `ChunkWindows` | the sliding window of `_chunk_text` with its protected ranges | |
| `Chunker` | parse, sections, windows, chunks with path and locators | `Parsers`, `ChunkWindows` |
| `Extraction` | runs of the extraction workflow over two stores | `Neo4jGraph` |
| `QueryResponses` | what handlers see of a response | |
| `QueryRuns` | query and replay handlers and the runs' rows | `QueryResponses` |
| `Answering` | generator, validator and routing of the workflow | `QueryResponses` |
| `GraphTraversal` | `retrieve_evidence` and `_traverse` | |
| `HybridRetrieval` | planner, fusion, selection, reranking | |
| `MC*` | instances for TLC | |
| `GraphWorkerProofs`, `IngestionProofs`, `QueryRunsProofs`, `AnsweringProofs`, `GraphTraversalProofs`, `HybridRetrievalProofs` | theorems and proofs | the module named |
| `OperationsProofs` | theorems and proofs | `Proposals`, `Reviews`, `Authentication`, `Evaluation` |
| `DocumentsProofs` | theorems and proofs | `Chunker`, `Extraction` |

`QueryRuns` takes the outcome of an attempt from the set `AttemptResponses`;
`Answering` shows (`OutcomesAreModelled`, checked and proved) that generator and
validator produce nothing else. That is how the two are composed without
multiplying their states. In the same way `Extraction` projects its events with
the operators of `Neo4jGraph` that `GraphWorker` uses, and takes from
`GraphWorker` only that each event is projected at least once, in any order.
`MCDocuments` and `MCOperations` each check several modules that share no
state: the variable `focus`, chosen initially, says which one moves.

Definitions named as a variant of the one after them (`PopShallow`,
`SetBlindly`, ...) are plausible mistakes in that code. Nothing uses them; each
property is shown to fail when one of them takes the place of the original.

### Correspondence with the code

* **Outbox and worker.** A row's `available_at` and lease are countdowns
  (`delay`, `lease`), decreased by `Tick`. `claim_batch` is one action: `FOR
  UPDATE SKIP LOCKED` is the set `locked` of rows that others hold at that
  moment. Claim tokens are fresh per claim of a row. A Neo4j transaction takes
  effect at its commit, and a commit may take effect although its answer is lost
  (`ProjectErrorSwallowed`). `mark_failed` raises where `2.0 ** n` overflows
  (exponent 1024 in the code, a small constant in the runs), which leaves the
  batch. `DOCUMENT_PARSED` is logged and completed. Mentions link to Chunk nodes,
  which no code creates, so they are nodes without edges.
* **Ingestion.** One action per statement that can be interleaved under READ
  COMMITTED; `INSERT ... ON CONFLICT` on the document takes the row's lock, which
  a job holds until commit or rollback. `Fail` is an exception at any await, the
  parser's included. The
  history variable `seen` holds the versions that were current during a call.
* **Proposals.** `Check` reads and validates, `Commit` writes what SQLAlchemy
  writes: the columns the request changed, by primary key. Evaluation runs
  are never deleted by any code path. The history variable `raced` remembers on
  which proposals two calls were in flight at once.
* **QueryRuns.** One action per commit and one per node of the workflow.
  Commits fail or lose their answer for the calls in `Unreliable`. The graph runtime is
  external, and the model takes one that runs the workflow: `query_graph.py:119` compiles it
  with a `MemorySaver` and `:202` calls `ainvoke` without a `thread_id`, which LangGraph is
  expected to refuse before any node. If it does, every query goes from `Begin` to the
  handler's `Except` (as after `BeginFails`) and the workflow never runs; the tests stub it.
  The status `cancelled` is never set by any code. `active = None`
  stands for no active version and also for one of another embedding model.
* **Answering.** A claim is its flags and evidence ids; an output's claims are a
  set. `ExecuteFails` is retrieval raising, or `QueryResponse` refusing a blank
  answer.
* **GraphTraversal.** `visible` is what the filters on status, tenant and
  principal leave; it changes at any time. The choice the database makes at its
  LIMIT is free (`Fetches`), and so is the order in which it lists facts
  (`Listings`).
* **Parsers, Chunker.** A document is a sequence of elements, a kind and a length
  each: what the regular expressions of a parser tell apart. A parser turns it
  into body lines, headings and line ranges of blocks, as its code does, including
  where ranges are off. Lines end with LF or with CRLF (`eol`), which parsers keep, so
  there are two ways to count characters, as in the code: `CharOf` counts those of the
  text, and `line_to_char` adds one for every line end (`chunker.py:201`) and is one
  behind per CRLF. Chunk texts and `char_window` use the first, protected ranges the
  second. Extraction of headings looks at lines as they are, splitting at
  `line.strip()` (`chunker.py:110`): an indented `# name` (kind `note`) starts a section
  but is no heading, and a heading with a tab or several spaces after its marks (`loose`)
  is one but starts no section. `marked` is an indented line that begins like a bullet
  and is none (`  *emph*`); it ends a list item (`parsers.py:162`). White space is
  line ends, carriage returns included, blank lines and indentation.
  `SlideWindow` is one pass of the `while` loop.
  Tokens are `CharsPerToken` characters, 4 in the code.
* **Extraction.** The model's answers are arbitrary; an answer that cannot be
  parsed is an empty one, as in the code. Similarity is a table. Resolution reads
  what is committed and the writes of its own transaction. The caller that owns
  both transactions is not in the repository: it commits them in either order, and
  may die in between. `Create` is the resolver with a graph repository to write to. The
  other branch (`entity_resolver.py:69`, `:116`), for read-only use, is the query
  planner's (`api/dependencies.py:422`): it writes nothing to the graph and is left out.
* **Reviews.** Each call is its reads, its commit and, for a decision, the read
  after it. `decided_at` is the name of the call that took the time. Nothing in
  the repository creates review items; `MakeItem` does. Runs may be deleted
  by whoever maintains the database, with the effect of the foreign keys.
* **Authentication.** Both dependencies are synchronous, so each request runs in a
  thread and `asyncio.run` gives it a loop of its own, while `_jwks_lock` is one
  `asyncio.Lock`. Acquire and release are modelled step by step: the lock is
  tested and then set, a waiter is bound to its loop, queues a future and goes to
  sleep, and a release in another thread completes the future without waking
  that loop. A token is well-formed, and signature, issuer, audience and expiry
  are one bit of it.
* **Evaluation.** One action per call that can raise. A text is the set of names it
  mentions, so that looking a name up in a list of texts finds nothing, as in the
  code.
* **HybridRetrieval.** Scores are exact fractions, compared by cross multiplication.
  `Arranged` is a stable sort: the place of an entry is the number of entries that
  come before it. The lists of the searches are independent of each other, each with
  a limit of its own. The text and the
  `retrieval_method` of evidence are left out. `ChunkOf` is total: the code falls back to
  the fact's id when a fact has no evidence (`graph_fusion.py:100`), but the fusion reads
  verified facts only (`graph_fusion.py:145`, `:173`), and `KnowledgeFact` refuses a
  verified fact without evidence (`domain/knowledge.py:110`).

## 3. Runs and what they show

| Run | Shows |
|---|---|
| `outbox_race` | two workers, leases that expire in mid-batch, crashes, failures of both stores: tokens fence stale workers, completion follows projection and is final, a lease is respected, and the whole implements `OutboxDelivery` |
| `outbox_progress` | one worker that may die anywhere, an event that can never be projected ahead of others: the others complete; the fair abstract specification is implemented too |
| `ingestion_race` | two ingestions of a file edited back and forth, deleted and ingested again, with failures everywhere; jobs queueing for the document's row all end |
| `operations` | *proposals:* no interleaving of two calls bypasses evaluation or approval; a proposal whose calls do not overlap has one outcome, and what is in canary is what was approved. *Reviews:* an operator decides, comments on and sees what is his tenant's only, also when runs are deleted between check and write, and is answered with his own decision if no other call overlapped. *Authentication:* whoever is let in was verified, with any race for the keys and any rotation; a request is answered unless it met another one in `_fetch_jwks`. *Evaluation:* whatever raises, nothing is left running but what the code's except branches cannot reach |
| `documents` | *chunker:* every visible character of a section is in a chunk unless blocks are nested or a block ends exactly at a window's end; for headings that are proper the heading path is the chain of headings above; locators cover the text; blocks are whole but for what the CRLF line ends before it cost a block at its end; chunking ends. *Extraction:* entities stay distinct unless runs overlap or the row limit cuts, and when the outbox is empty every fact's entities are in the graph, whichever commit failed |
| `query_runs` | a query and a replay, one of them with failing commits and deaths: the client's answer is recorded, terminal rows are frozen, the other one's run ends |
| `answering` | all outputs of up to two claims over all evidence sets: answers are grounded in their own attempt's evidence |
| `graph_traversal` | the traversal is breadth-first with respect to facts visible throughout, its paths are walks, a fact is evidence once, the limit is overshot by one queue entry at most, and it ends while the graph changes |
| `hybrid_retrieval` | selection and corroboration over all plans and lists |

Runs that end in a violation record a disagreement between the code and the
repository's own words; each has an entry under `findings`:

| Run | The code does |
|---|---|
| `fact_before_entity` | a fact projected before its entity is completed without its edges, for ever |
| `answers_delivered` | an answer with citations cannot be stored as JSON, and the query fails |
| `code_block_split` | a comment line in a fenced block is taken for a heading and the block is split there |

Also seen while modelling, without a run of their own:

* Outbox: from the 1023rd failure of one event on, `mark_failed` raises
  `OverflowError` (`outbox_repository.py:123`) and what shares the event's batch
  is never completed. `outbox_progress` runs below that count; with
  `OverflowExponent = 3` in its configuration `EventuallyCompleted` fails.
* Ingestion: `deactivate_source` leaves `is_current` set, contrary to ADR-009;
  retrieval also filters on `sources.is_active` and is unaffected.
* Proposals: a slow EVALUATED call can replace the evaluation of a proposal that
  was approved in the meantime; a CANARY call in flight then commits with it.
  `SoundWithoutRaces` is stated for calls that do not overlap for that reason.
* Proposals: two decisions on one canary both commit, one PROMOTED and one
  ROLLED_BACK, although the table gives neither a successor (`api/operator.py:631`).
* Answering: a factual claim that the model itself calls unsupported, but gives
  ids, is skipped (`answer_generator.py:219`) and the answer that makes it is
  delivered with the other claims.
* Reviews: a decision overwrites an earlier one without a trace, where plan.md
  asks for an audit trail; if the read after the commit fails the caller is
  answered 500 although the decision stands. `list_recent_executions` applies its
  limit before the tenant filter, so an operator may see none of his runs.
* Authentication: once two requests meet in `_fetch_jwks` the one that waits may
  hang for ever, and from then on every request that needs a key is refused with
  503 or fails, also when the keys are cached: hence the condition in
  `UncontendedIsAnswered`. The keys are never fetched again, so after a rotation
  new tokens are refused until a restart.
* Chunker: in a file with CRLF line ends protected ranges fall behind their blocks, one
  character for every line of the section before, and windows cut the ends of blocks off
  (`chunker.py:201`). An indented line that repeats a heading, in code say, starts a section
  and resets the path (`chunker.py:110`); a heading with a tab or several spaces after its
  marks never starts one.
* Chunker: text is lost after a block that ends exactly where a window ends; a
  protected range inside another loses text; a start locator may name an earlier
  line and an end locator one line too many; sibling headings become nested when a
  level is skipped; a heading whose text begins another's is taken for it; PDF
  code lines are dropped and their ranges are empty; an indented fence of a Python or
  TypeScript file pairs with one at the margin, in Markdown only those at the margin
  count; a window may begin behind the indentation of a block it keeps whole, which is
  why `BlocksAreWhole` speaks of what a block shows; ranges of DOCX blocks count
  paragraphs of another numbering, and tables are not extracted; headings of Python
  and TypeScript files are never found in the body; an EPUB chapter is one line.
* Extraction: a failed call of the model is an empty answer, and nothing records
  it; a surface form that was matched by similarity is not added to the aliases.
* Evaluation: the runner looks for an entity's name in a list of texts that contain
  it (`evals/runners/m6_hybrid_evaluation.py:451`, `:499`), so vector and hybrid
  recall are always 0 and the 15 % target is never met, where the docstring says
  "whether the expected_object_entity name appears in the retrieved results".
  Containers whose port cannot be looked up are never stopped.
* Version records: `create` of a second active version violates the unique index
  before `deactivate_previous` could make room for it.
* Query runs: every attempt resolves the active index version again, so the one
  searched need not be the one the run records; a replay too searches what is
  active now, contrary to its docstring.
* Retrieval: only the first predicate of a plan filters (`graph_fusion.py:145`); a
  vector hit at distance 0.0 is labelled keyword (`hybrid_retrieval.py:270`); a
  relationship question without a resolved entity gets the graph strategy, which
  drops what the searches found (`retrieval_planner.py:105`); the `source_id` of
  graph evidence is a chunk id, so a fact and its chunk both survive deduplication
  by source (`graph_fusion.py:100`).
* `replay_execution` accepts failed runs where its docstring speaks of succeeded
  ones; the docstring of the claim validator swaps the two downgrades; facts are
  emitted as candidates and no code verifies them, while the traversal reads
  verified ones; the canary result of a request is not stored.

## 4. Bounds

Bounds are CONSTANTS with names. They are small because the interesting cases
are: two workers are enough for a stale one, two jobs for a race on a row, two
calls for a lost update, one retry is what the code has, two claims for one that
hides another.

* Outbox: two events and two workers, or three events and one worker; leases of
  one or two units; `AttemptCap` saturates attempts once the backoff has reached
  its maximum (`AttemptCapIsEnough` is an assumption TLC evaluates), so nothing
  depends on higher counts except the overflow, which has its own constant.
* Ingestion: one file, two contents, two jobs. Jobs meet only at the file they
  ingest.
* Proposals: one proposal, two calls, two evaluations; two operators, one of them
  global. Proposals share nothing but evaluations, which only ever complete.
* Reviews: two calls, two items, two runs of two tenants: enough for a call on the
  other's item, and for an overwritten decision.
* Authentication: two requests, so that one can wait; two keys, so that the cached
  one can be old; four tokens, one good and three that each lack something.
* Evaluation: three cases over two fixtures: one that can be answered, one without an
  expected object, one without its seed.
* Documents: up to four elements, so that a block can begin and end inside a section
  with text on both sides; windows of six characters that overlap in two, which
  lines of three, four and nine characters fill, split and exceed. Four families have
  CRLF line ends or mix them with LF, others have the lines the two heading tests or the
  item scanner treat differently (`Note`, `Loose`, `marked`). With extraction the run
  has 294 928 distinct states and takes about two minutes with two workers.
* Extraction: two runs, names that differ in case, that are near each other, and that
  are not; up to three mentions; `FindLimit` 2, so that it cuts.
* Query runs: two calls, so that one can replay the other, one of them
  unreliable; two users, two index versions.
* Answering: two ids, two claims, one retry.
* Traversal: three graphs of four facts (a triangle with a loop, a star with more
  facts than a fetch returns, a chain with dates), one seed or two, with and
  without predicate and date; depth 3 as in the code; `MaxFacts` 5 and
  `FetchLimit` 2, so that some traversals hit the limits and others do not;
  `MaxChanging` bounds how many facts change, each any number of times.
* Retrieval: three chunks of two sources, two facts of one chunk, lists of up to
  three, final limit two: deduplication and limit both bite. `K` is the code's 60.

No run uses symmetry.
`CHECK_DEADLOCK FALSE` is set where the system may stop: an empty outbox,
terminal proposals, a workflow or retrieval that has ended, handlers that have
answered.

## 5. Fairness

* Workers: weak fairness of each worker's step and of time (the polling loop has
  no exit but `stop`), and strong fairness that an event's projection and its
  marks, tried again and again, succeed at some time: failures are transient.
  Progress is checked for one worker. With several, a batch that takes
  longer than its lease can be taken over again and again, and the code gives no
  guarantee.
* Ingestion: weak fairness of a job's steps (the event loop) and strong fairness
  of taking the row's lock (PostgreSQL grants row locks in order of arrival).
* Authentication: weak fairness of each request's thread; the call of the provider
  has a timeout. A waiter that sleeps is not woken, and no fairness wakes it.
* Chunker: weak fairness of the next step of a sequential program.
* Query runs, traversal: weak fairness of the coroutine's next step. `EveryRunEnds`
  speaks of calls that are not in `Unreliable`: nothing in the code ends the run
  of a process that died.

## 6. Proofs

TLAPS proves the following for every value of the constants that satisfies the
named assumptions. Most say only that sets are finite or disjoint and that bounds
are natural numbers. The ones that say more:

* `AgreementOutweighs` (HybridRetrieval): `(K + V)(K + W) < (K + 1)(2K + V + W)` for
  the limits V and W of the two searches. It holds for `RRF_K` 60, `keyword_top_k` 20
  and any `vector_top_k` a request may ask for (up to 100); with both limits at 100 it
  does not, and neither does `CorroborationWins`.
* `ExtractionConstants`: similarity is symmetric and 100 for a name and itself, and the
  confident mentions of an answer are again mentions (`SelectSeq`, on which the prover
  has no facts; TLC evaluates the assumption).
* `ReviewConstants`: runs and operators have a tenant, which the column and the identity
  check require.
* `ChunkerConfig`: the overlap is not longer than the window.
* `DocumentsAreDocuments`: a document's elements are of its format, and every element but
  a blank one shows a character after its indentation and before its line end (`Lines`,
  `Elements`). There may be any number of elements, of any width, with either line end.

Each module defines its inductive invariant, and each proof has one lemma per
action or group of like actions. The inductive invariants were checked by TLC
before they were proved (of `ChunkerIInv` all but `doc \in Documents`, a set too large to
search in every state).

* `GraphWorkerProofs`: `TypeCorrect`, `ProjectionPrecedesCompletion`,
  `TokensFence`, `CompletionIsFinal`, `LeaseIsRespected`,
  `ProjectionIsIdempotent`, and `WorkersImplementDelivery`, the refinement.
  `CompletedIsProjected` is not inductive alone: a worker about to complete must
  already have projected (`CompletingIsProjected`), must hold the event it works
  on (`CurrentIsHeld`), and no two workers may share a token (`TokensNotShared`).
* `IngestionProofs`: `PointerAndFlagAgree`, `VersionsPublishedOnce`,
  `CheckpointsAreDurable`, `AnswersWereCurrent`, `VersionsAppendOnly`. The
  strengthening says who holds the row lock (`LockIsHeld`), that a decision made
  under the lock is still right (`DecisionHolds`), that the raw bytes are stored
  before they are referred to (`RawIsStored`), and what a job in flight has
  observed (`Watching`, `Found`).
* `QueryRunsProofs`: `AnswersAreRecorded`, `ReplaysAreOfFinalRuns`,
  `TerminalRowsAreFrozen`, from `RowFollowsHandler`, which ties the row's status
  to the handler's place in its code.
* `AnsweringProofs`: `AnswersAreGrounded`, `FailsClosed`, `OutcomesCovered`. The
  invariant says that a response is well-formed for the evidence next to it at
  every stage, also when an attempt that raised left both behind.
* `GraphTraversalProofs`: `EvidenceHasProvenance`, `TraversalIsLimited` and
  `TraversalIsBreadthFirst`, for any graph, any number of facts that come and go and
  any limits. A path in the results is a walk only if the path of the queue entry
  it extends was one (`PathsAreWalks`, `LeadsTo`, `Traced`). The limit needs that
  paths of different entries differ (`PathsAreNew`) and that an entry yields no
  more than two fetches (`ResultsCounted`). Breadth first rests on two facts:
  depths in the queue ascend and differ by one at most (`DepthsAscend`), and every
  steady fact at the end of an expanded path has been crossed, that is found, with
  its other end queued, at that depth or before (`SteadyIsCrossed`). The theorem
  compares with the recursive reference `Ball`, by a least counterexample.
* `HybridRetrievalProofs`: `SelectionKeepsTheBest` and `AgreementWins`. The invariant
  is short, since the lists do not change between fusion and reranking; the work is in
  the lemmas on the operators: counting predecessors gives every entry of a strict order
  a place of its own (`ArrangedInOrder`, by injections into an interval), fractions are
  ordered by cross multiplication (`FractionsAreOrdered`), the ranking is a permutation
  of what was found (`CandidatesAreDistinct`, `RankingIsInOrder`), deduplication keeps
  the first of each source (`FirstOfEachSource`) and a limit cuts only behind a
  full list (`PrefixIsFull`).
* `DocumentsProofs`: `ChunksKeepText`, for every text, every list of protected ranges,
  window and overlap. While the window slides, what is behind it is kept
  (`BehindIsKept`), and no window ends inside a block (`NoBlockIsCut`), so that a start
  moved to the end of a block skips only what an earlier window has; both under the two
  conditions of `TextIsKept`.

  `ChunkerImplementsWindows` carries this over to documents: whatever a parser returns,
  the text of a section is a text and its protected ranges are ranges of it, so every step
  of `Chunker` is a step of `ChunkWindows` or leaves the window alone (`DocumentsKeepText`
  is the corollary). `ChunkerInvariant` is the inductive invariant `ChunkerIInv` of the
  whole: content is what the parser made of the document (`ContentIsParsed`), text and
  ranges are those of the current section (`TextIsCurrent`), every section left carries
  its headings (`SectionsHaveAncestry`), and so do the chunks made. It gives
  - `LocatorsAreRight`: what a window shows lies before its `last` (`WindowsKeepContent`),
    and the newlines before a visible character number its line (`NewlinesCountLines`);
  - `BlocksStayWhole`: a block a reader sees in the body is one its parser lists
    (`FencesArePaired`, `TablesAreFound`, `ItemsAreFound`), one protected
    range begins no later than it and ends with it or as far before its end as
    `line_to_char` is behind there (`DriftIs`, `RangeCoversBlock`), and a range behind the
    window is in one window (`BlocksAreKept`);
  - `ChunksNameTheirHeadings`: along the heading lines, cutting the path down to the level
    above a heading and adding it gives the headings that no later one replaced
    (`PathsAreAncestry`); there is one of each level up to its own (`OneOfEach`), which is
    where a skipped level would break it. That the sections begin at the heading lines and
    nowhere else (`HeadedIsHead`) needs the rest of `ProperHeadings`: one space after the
    marks, no heading's text that begins another's of its level, and no indented line that
    reads like a heading;
  - `ChunkerMovesOn`: every step leaves fewer sections, or a start further on, since the
    next start lies beyond this one even after it is moved back by the overlap
    (`NextStartAdvances`). That is the part of `ChunkingEnds` that needs no fairness.

  The parsers' scanners are recursive functions over the lines of a body. They are
  unfolded once each (`Iterated`, `TablesUnfold`, `CharsUnfold`, `PathsUnfold`) and what
  they return is shown by a least counterexample, line by line.

  `FactsFindTheirEntities` needs that the events of
  entities are in the outbox with those of the facts (`FactsHaveEntities`) and that
  projection adds only (`ProjectedIsInGraph`). `ResolverKeepsApart` needs that a job
  about to create an entity sees all there are (`CreatesAlone`).
* `OperationsProofs`: *Proposals:* `EvaluationAndApprovalFirst` and
  `SequentialCallsAreSound`. A call in flight carries what it read; `CallsAreGrounded`
  says that it was justified then, and evaluation and approval are never taken back. For
  proposals without races `FreshWithoutRaces` says more: there is at most one call, and
  what it read is still there. *Reviews:* `TenantsAreIsolated` and
  `DecisionsAnswerTheirOwn`; a check once passed stays good although the run it
  looked at may be deleted (`ChecksStayGood`), because an item never moves to another
  run. *Authentication:* `OnlyVerifiedAreGranted`, since the keys a request holds have
  been published (`KeysWerePublished`) and only requests with a token get that far
  (`TokenBeforeKeys`). *Evaluation:* `EvaluationReleases`, from what is open at each
  stage (`HeldAtStage`).

## 7. Model-checked only

* Liveness (`EventuallyCompleted`, `EveryIngestionEnds`, `EveryRunEnds`,
  `RetrievalEnds`, `ChunkingEnds`, `UncontendedIsAnswered`) and the fair refinement,
  because fairness and ENABLED are outside the prover.
* The violation runs: what the code does against the repository's words is shown by a
  behaviour, not by a theorem.

Every safety invariant and every action property that a passing run checks is also a
theorem. Type invariants of the proved modules are conjuncts of their inductive invariants, so
they are proved and no run repeats them.

## 8. Not modelled

Regular expressions below a line, titles, metadata and checksums of parsers; line ends
other than LF and CRLF (a form feed or U+2028 is one to `splitlines` and none to the
regular expressions), headings whose text is on the next line, trailing white space and
indented table rows; the prompt and the language model (an arbitrary output); ranking inside PostgreSQL;
embedding; signatures of tokens; telemetry, logging, settings and error formats;
the smoke gate and the DeepEval adapter, which compute on metric values; the
dashboards of the operator API that aggregate. Schema and migrations appear as the
constraints the modules rely on. The legacy outbox consumer and the version
records have no caller. Process death while a run is pending or running leaves
the run in that status: the code has no recovery, so there is nothing to check
beyond what `query_runs` does.

## 9. Plan

Modelled first, because it loses or corrupts data when wrong: outbox and worker,
ingestion. Then what users see: query runs, answering, retrieval; then documents
and extraction; then the operators' side. The safety invariants and action properties
that the runs check are proved. What is left:

1. A measure for `RetrievalEnds` as there is one for `ChunkingEnds` (`ChunkerMovesOn`):
   that every step of the traversal uses up one of finitely many pairs of entity and
   depth, or a queue entry.
2. `BlocksAreWhole` without its two conditions, once `_find_safe_end` and the overlap
   treat nested ranges and ranges that end at a window's end, and without the drift, once
   `line_to_char` counts the line ends that are there.
