# Verification of omf-retrieval

omf-retrieval indexes the Markdown documents of a fixed Git commit into PostgreSQL,
keeps several generations of the index per source, and answers authenticated searches
from the generation that is active. This directory holds TLA+ models of its core, the TLC
configurations that check them on small instances, and TLAPS proofs of the results that
matter most. `PROJECT.json` maps every definition to the lines it models, lists the hazards
of the code, the mutants that show each property can fail, and the findings.

Paths below are relative to `src/src/omf_retrieval/` of the repository.

## 1. Inventory

### Index lifecycle

`infrastructure/database/repository_activation.py`, `application/indexing/activation.py`,
`domain/enums.py`.

* *State*: `index_runs.status` (BUILDING, READY, FAILED, ACTIVE, PREVIOUS, ARCHIVED),
  `source_profiles.active_index_run_id`, `document_occurrences`, `document_contents`.
* *Operations*: activate a READY run (the ACTIVE run becomes PREVIOUS, the PREVIOUS one
  ARCHIVED, and what only that one linked is pruned), roll back (ACTIVE and PREVIOUS change
  places), after a readiness check of the embedding provider.
* *Interaction*: one transaction per switch, a transaction advisory lock and a row lock per
  source; meets builds through the advisory lock (same source) or through content rows (other
  sources), and searches through the source row.
* *Hard*: three flushes under non-deferrable partial unique indexes; a pointer read before
  the lock; batched deletion of contents that another source may be linking; crash anywhere.
* *Correct when*: pointer, ACTIVE status and fallback agree; no needed document is ever
  collected; a serving source keeps serving and keeps its fallback; garbage is collected.

### Index build

`application/indexing/pipeline.py`, `service.py`, `infrastructure/database/repositories.py`,
`repository_artifacts.py`, `application/indexing/artifact_identity.py`, `metadata.py`.

* *State*: the run row, contents, occurrences, parses, sections, chunks, embeddings, relations.
* *Operations*: lock, create the BUILDING run, per file upsert content, reuse or create its
  parse and embeddings, create the occurrence; relations; READY, or FAILED after rolling a
  savepoint back.
* *Interaction*: builds of different sources share contents, parses and embeddings.
* *Hard*: what a concurrent build inserted or a concurrent activation deletes; partial failure;
  deadlocks between insertion orders; crash between READY and activation.
* *Correct when*: a build is all or nothing; a READY run has every document; artifacts reused
  are those that would be rebuilt; a failure is recorded for what it was.

### Search

`application/search/`, `infrastructure/database/search.py`, `repository_policy.py`.

* *State*: none of its own but the open transaction of a request and the row locks it holds;
  at startup a registered search policy.
* *Operations*: look the active index up, embed the query, retrieve a keyword and a vector
  lane, fuse them by reciprocal rank, group evidence; readiness; retrieval for calibration.
* *Interaction*: locks client, source and run rows FOR SHARE, against revocation and switches.
* *Hard*: the pointer moves between the transactions of a request or while one waits; the
  grant is revoked or expires in between; two statements must read one generation.
* *Correct when*: an answer is the whole of one generation that the client may see; errors
  mean what they say; every request is answered; fusion and grouping are deterministic.

### Client access

`application/admin/`, `infrastructure/database/repository_auth.py`.

* *State*: `api_clients` (status, expiry, token digest), `client_source_grants`.
* *Operations*: create (up to three key ids), list, revoke, authenticate, check a grant.
* *Hard*: revocation and expiry against requests in flight; key id collisions; atomic creation;
  an answer of the database lost after the commit.
* *Correct when*: no request reads after a revocation has committed; a revoked client stays so.

### HTTP API and command line

`interfaces/`. The API composes access and search and turns exceptions into responses; the
readiness probe reports every error past the access check as unavailable. The index command
ensures source and configuration, builds, and activates. *Hard*: the ensure step takes the
source row FOR UPDATE and waits for a whole build; exit codes against committed state.

### Embedding provider

`infrastructure/embedding/sentence_transformer.py`, `provider.py`. A process-wide runtime per
model identity, loaded on first use under a condition variable by one of several waiting
threads, with one inference lane. *Hard*: load failures seen by a cohort of waiters,
interrupts, re-entrance. *Correct when*: one thread loads and one works at a time, no waiter
sleeps on, and a failure does not poison the process.

### Model preparation

`infrastructure/embedding/prepare.py`, `prepare_lock.py`, `manifest.py`.

* *State*: the manifest, the snapshots it may name, a lock file, a hard link to the manifest
  being replaced.
* *Operations*: download into a private stage, move it to the coordinate its content names,
  replace the manifest, validate again, or roll back; readers open, read and verify.
* *Hard*: an exception, a kill or a power loss between any two file operations, a later
  preparation after it, a reader whose inode is replaced while it is read.
* *Correct when*: a manifest is replaced as a whole and names a snapshot that is there, success
  is durable, a failure leaves what it found, the lock is let go.

### Source reading

`infrastructure/source/git_archive.py`, `profiles.py`. A git process writes an archive, a tree
or blobs into pipes; its archive is scanned, read and compared with the blobs of the commit; a
profile selects paths by patterns. *Hard*: both sides of a pipe waiting, a git that crashes
after its output or ignores SIGTERM, failing calls of the cleanup, metadata headers that rename
the next member, limits, export attributes. *Correct when*: what is accepted is the whole,
bounded content of the commit, no process is left, and a pattern matches what it means.

### Chunking

`infrastructure/source/chunker.py`. Sections become children (joined texts, cut tables and
lists, windows of texts that are too long) and a match gets a context. Every candidate is
tokenized anew, so a window may count more or fewer tokens than it has in the text, and the
searches have budgets. *Hard*: off by one at the ends of windows, overlaps, groups of tokens
that share characters, a budget that runs out. *Correct when*: children fit, keep every written
line in order, and a context fits, holds its match and cannot grow.

### Ranking, policy and calibration

`application/search/rrf.py`, `evidence.py`, `policy.py`, `calibration.py` and
`scripts/calibrate_search.py`. Pure functions from two lanes to evidence and from smoke cases to floors; the
policy is registered at startup by several processes. *Correct when*: the order respects the
lanes, the evidence is the best sections, the proposed floors separate the cases.

### Web client

`web/src` of the repository: a token gate or a search workspace, one request at a time each,
with a timer and an abort controller. *Hard*: answers after a timeout, after a disconnect, or
for a token that is no longer the connected one. *Correct when*: the screen shows the answer
of its last search, tells of timeouts, and an old request touches nothing new.

### The rest

Document metadata, settings (environment only), schema and migrations. `PROJECT.json` records for each
component whether and how it is modelled, and under "hazards" each behaviour that is hard to
test, at its line.

## 2. What is modelled

| module | models | grain of a step |
|---|---|---|
| `IndexGenerations` | what the lifecycle of runs promises | one committed transaction |
| `IndexTransactions` | builds, activations, rollbacks; implements `IndexGenerations` | one SQL statement |
| `SearchSession` | search and readiness requests, with the lifecycle of `IndexGenerations` | one statement of a request |
| `ArtifactReuse` | parses and vectors shared by concurrent builds | one SQL statement, one answer of the model |
| `Registration` | commands that register sources, configurations, policies, clients | one SQL statement |
| `EmbeddingRuntime` | loading the model on first use, the inference lane | one critical section or semaphore operation |
| `PublishedModel` | what model preparation promises | one replacement of the manifest |
| `ModelPublication` | preparations and readers; implements `PublishedModel` | one file system operation |
| `GitProcess` | a git command, its pipes, its reader and the cleanup | one unit through a pipe, one system call |
| `TarSnapshot` | scan, reading and provenance of an archive | one header |
| `ProfilePatterns` | the match of a pattern and a path | one position of the search |
| `SourceReading` | these three, and what they promise together | |
| `ChildWindows` | windows of a long text | one probe of a window search |
| `ChildBlocks`, `ChildContexts` | children of a section; whether they can have a context | one block |
| `ParentContext` | the search for the context of a match | one probe |
| `Chunking` | windows and contexts, and what they promise together (`ChunkNumbers`: min, max and division) | |
| `SearchRanking` | from two lanes to evidence | one stage |
| `Calibration` | from retrieved smoke cases to floors | one case |
| `WebClient` | token gate, workspace, requests, timers | one task of the event loop |
| `Answers` | these three, and what ranking and calibration promise together | |

`IndexTransactions` implements `IndexGenerations` (property `ImplementsGenerations`), and
`SearchSession` composes requests with `IndexGenerations`, guarded by the source row lock.
So what searches may rely on is stated once, shown of the code in the detailed module, and
used in the third. `ModelPublication` implements `PublishedModel` in the same way.
`ChildContexts` extends `ChildBlocks` with the question `ParentContext` asks of its children. The
others meet the rest only through results: `EmbeddingRuntime` yields an embedding or an error,
source reading yields files, chunking yields children.

The `MC` modules run parts that share no state side by side: a behaviour is one of one part
(`part`), and the variables of the others stay in one initial state. An answer about one part therefore never
depends on another one; it only saves repeating the set-up. Every MC module extends the modules
it checks, so that what TLC evaluates is the very definition the theorems state. Hence the names: the parts that
meet in one module have their own `GitInit`, `TarNext`, `WindowSpec`, and so on, instead of `Init`, `Next` and `Spec`.
Where a question needs other constants than the rest of its run (a tokenizer whose counts add up, short texts), the MC
module also has an instance with those. The list in section 3 says what each
conjunction of named invariants consists of.

### IndexGenerations

The four variables are the four pieces of committed state. A run is the *name* of one build;
the constants `SourceOf` and `Snapshot` say which source it belongs to and which distinct
contents its commit holds, so that every execution of the code is an execution for some choice
of constants. BUILDING is never committed and does not occur here.

`PublishReady` and `PublishFailed` are the two commits of a build, `Activate` and `Rollback`
the two of a switch. `Succession` is the common change of statuses. Collection removes *some*
of the contents that only the retiring run linked: see the finding on shared garbage for why
not all of them.

### IndexTransactions

Each worker is a process with one open transaction, `tx[w]`: the stage it is in and what it
wrote and has not committed. Others see nothing of it before commit, but feel its locks:

* `owner` is `pg_try_advisory_xact_lock`, tried and never awaited;
* an `INSERT ... ON CONFLICT DO NOTHING` waits for a row another transaction inserts or
  deletes (`UpsertContent`), an occurrence locks its content FOR KEY SHARE and so waits for a
  deletion and makes deletions wait (`CreateOccurrence`, `DeleteContent`);
* a circular wait is broken by cancelling one of its transactions (`CancelDeadlock`).

READ COMMITTED matters in three places. The existing content that `upsert_content` finds is
not locked, so it may be gone when the occurrence is inserted: its id then *dangles*
(`Resolve`, `DanglingReference`). A batched DELETE selects its rows by a statement snapshot
(`SelectBatch`) and, after waiting for a row, does not look at the occurrences again
(`DeleteContent`); the foreign key with ON DELETE RESTRICT does (`RestrictedDelete`). The pointer read
before the lock may be stale under it (`CanLock` compares).

A failing build rolls its savepoint back and commits a FAILED run, whatever the exception
(`SnapshotFault`, `DanglingReference`, a build that loses a deadlock). `Crash` is the death of
the process or connection, and any exception outside the savepoint. Parsing and embedding
are reduced to whether they fail; their tables are in `ArtifactReuse`.

What pruning promises is `OrphansComeFromRaces`. That every stored content is linked by some run is false (finding 2), and
the property says in which way alone: a content loses its last link to a switch that has passed over it (`PassedOver`), and it
comes to hang on the run which that switch retires (`Forsaken`) only when another switch commits that has passed over it
too. So one switch at a time deletes all that it must, whatever builds, batches, cancelled deadlocks and crashes do beside it.

Abstracted: the batch size of pruning (any batches), file order within a build (any order),
the occurrences of one content at several paths (one link), config rows.

### SearchSession

A request goes through `Authenticate`, `Precheck` (a transaction each), then lookup and
retrieval, each a transaction that re-checks and locks the grant (`Grant`), runs the active
index query in two steps, and holds its row locks to the end. The query is two steps because
`FOR SHARE OF sp, ir` locks after the join: `FindActive` reads the committed pointer,
`PinActive` waits for a switch and re-evaluates. `KeywordLane` and `VectorLane` read what the
tables hold *at their step*; that they agree is a result, not an assumption. Every stored chunk matches the query,
so that a lost row would show. `Compatible` and `Embedded` separate
what `_active_index` compares from what the vector lane joins on (the embedding config hash
also covers the library version).

The lifecycle of the searched source acts between `LockSource` (FOR UPDATE, which waits for the
readers) and `EndSwitch`; other sources and builds act at any time (`Publish`).

### EmbeddingRuntime

`_LazyRuntime` of `infrastructure/embedding/sentence_transformer.py`: the first variables are
its attributes, `pc` is where each thread stands, `joined` the local `load_generation` or
`wait_generation`. `asleep` is the inside of `Condition.wait`; a notified thread is `awake` until
it gets the lock back, and then either leaves its failed cohort (`LeaveFailed`) or looks at the
state as a new call does (`Look`). `LeaveCohort` is `_leave_cohort_locked` with what its callers
do around it. The threads of a search service, its workers, call it through `embed_query`; an indexing process through
`embed_documents` and the token counter.

Control-flow exceptions (`InterruptWait`, `InterruptLoad`, `InterruptAcquire`) arrive where a thread waits or runs
the model library. An operation that raises one ends as any other does (`EndOperation`). `Reenter` is a nested call from a
load or an operation; it has no room for a second nesting, because the code refuses the
first before it waits for anything, which `CallsEnd` and `Nesting` of the proof confirm.
Several runtimes in a process share nothing, so one is enough.

### ArtifactReuse

Each build is one transaction that goes through the files of its commit: upsert the content,
link it, find or store its parse, then find, reuse or ask for the vector of each chunk.
`FindVector` is `find_embedding` and `find_reusable_embedding`; missing texts are embedded
together (`Embed`), and stored one after the other, those of one text together (`NextMissing`).
The files come in the order of their paths, so two builds may meet the same contents in opposite orders;
a commit without files goes straight to `Commit`. `CheckVector` and `InsertVector` are the two halves of `save_embedding`, because another build may commit
between them. Builds wait for the uncommitted keys of others; one of those in a circle of waits, of
whatever length, is cancelled (`Deadlocked`). `Collect` is the
pruning of another source. A chunk is its content, its place and its hash; parser and model
answer or fail.

### Registration

The index command up to its build (`AdoptSource` to `CommitConfiguration`, `ensure` of
`repository_config.py`), the registration of a policy at startup (`Register`, `Resolve`), the creation of a
client with its grants and its attempts (`InsertClient`, `Collide`), revocation. A row is its
name, the command that wrote it and the attempt: what a command goes on with can be compared
with what is stored. `Seen` is what a statement sees, `Waits` an insertion that meets an
uncommitted row of its name. The build itself appears as far as it locks the source row
(`TryBuild`, `CreateRun`, `EndBuild`), because the FOR UPDATE of another `ensure` waits for it.
`LoseConnection` fails a transaction, `LoseAnswer` loses the answer of a commit. A policy that PostgreSQL
gives back changed (a weight of 1e16 or more comes back from JSONB as an integer) is
not `Readable`: its process refuses to start with "Search policy is unavailable".

### PublishedModel and ModelPublication

`PublishedModel` has what is published, what a power loss may bring back (`durable`), which snapshots are stored
undamaged (`intact`), what the publication that is going on has verified and what it found (`verified`, `prior`), and
whether a preparation has reported success. Only the content that was verified while it was intact is published
(`Publish`), only the one found is put back (`Withdraw`), and success needs that the verified content is published, intact
and durable (`End`). A foreign writer puts a manifest of a stored snapshot there (`Replace`), which `replacements` counts, so
that the refinement cannot pass a replacement of the preparation's own off as a foreign one. `ModelPublication` has the steps of
`prepare_embedding_model` and `_atomic_publish`, under the lock of `prepare_lock.py`: the stage is downloaded,
moved or compared, pinned, the previous manifest linked, the new one put in place, the directory
synchronized, everything validated again, the link removed. Every step may raise (`Fault`), and the handlers
(`BeginRollback`, `PutBack`, `RecheckManifest`, `RewritePrevious`, `Resynchronize`, `CleanUp`) do what
they do, failing themselves if they may.

Three variables are history and guard nothing. `found` is what the manifest named when the preparation took the lock, or
what a foreign writer has put there since. `spoiled` says that this may be lost: an exception came at
one of the five steps of `Fragile`, after which the code does not roll back, or a foreign writer came
between the look at the manifest and its replacement (`Replacing`). `unsettled` are the contents whose move to their
coordinate was cut off before its directories were synchronized (`CutOff`). They stand for the two
weaknesses of section 4: `FailureRestores` excepts nothing but `spoiled`, `ManifestNamesSnapshot` nothing but `unsettled`.

A reader opens the manifest, reads it between two `fstat`s (`disturbed` is a change of the
inode in between), and verifies the snapshot. `survivors` and `onDisk` are what a power loss may leave;
`WriteBack` is the kernel's own writing. A killed process leaves files nobody reads.

`PreparedStays` of the abstract module needs no run of its own: it is proved of `PublishedModel`
and so of the detailed one.

### Source reading

`GitProcess`: `job` is the command, `stdin` and `stdout` are pipes of `Capacity` units; `Git`
(external) writes, blocks, crashes, is deaf to SIGTERM; `Reader` is the loop of the code, any call of which may
raise (`RaiseOSError`), and then `_cleanup_git_process`, each call of which may fail. `TarSnapshot`: the raw scan
(`_validate_tar_structure`) with the metadata headers that apply to the next member, the reading of included
members with its limits, and the comparison with `git ls-tree` and `cat-file`
(`Verify`). What makes an archive acceptable, `Faithful`, allows the directory members that git writes above the files and
includes a terminator whose bytes are sound; the runs have archives with a damaged one. A path is the sequence of its
parts; one that leads out of the repository is refused (`IsSafe`). A batch asks for at least one object, since the code does not start git for none.
`ProfilePatterns`: `_match_segments` as the search of pairs of positions it is,
compared with the declarative meaning of `**`. `SourceReading` puts the three together: its `SourceIsCommit`
is what indexing relies on.

### Chunking

`ChildWindows` is `_split_oversized_normal` and `_split_oversized_atomic_unit` with the window
search between them: candidates, estimates, probes around the estimate, the budget of
characters and calls, the rests that are kept or split, and the errors. The drift of a window
(how many tokens more or fewer it has when it is tokenized alone) is arbitrary but constant
per window; groups of tokens that share characters bound where it may be cut. `ChildBlocks` is the loop
over the blocks of a section: joining, overlaps, rows and items, blank lines. There a line is
a token and nothing drifts. `ParentContext` is `ParentContextBuilder`: section, seed, probes of
growing windows (estimated by the tokens that overlap them, both sides, nearest first), and the part of a block that is
too long. The checks of the input before the search, which raise, are not modelled: the section and the match are valid. `Chunking` puts windows and
contexts together and states what holds of both for every configuration; what depends on its numbers is in `MCChunking`.

### Ranking and calibration

`SearchRanking` starts from any pair of small lanes. What the code sorts by a key is `Sorted` here: the element
at a place is the one with as many before it as the place says, which is defined for any order and needs no recursion. A
lane is what `ORDER BY ... LIMIT` may return of any found set. A fused score is an exact rational; the code
adds floats, so two children that tie exactly under unequal weights may be ordered
by rounding in the code, and `rrf_k` beyond 2^53 is out of the model. `Calibration` numbers the floats of
0.0 to 1.0 in order; `StrictFloorAbove` is `math.nextafter`. `FloorsSeparate` says that proposed floors tell the
cases apart and that no *positive* floors do when none are proposed. `CalibrationAssumption` says of the fixture what
`config/smoke/omf_mvp_v2.json` and its test have: known cases and exactly one no-evidence case (of several, the script would
use the last). For a maximum of 1.0 there is no float above, and the script fails. A
float4 similarity compared in SQL is compared again by `retain_at_or_above`, which is the one modelled.

### WebClient

`screens` are the mounts of `App`'s two children over time, `requests` what they have sent, each with its timer. An
answer arrives in two parts, headers and body (`SearchHeaders`, `SearchBody`), since the timer or
a disconnect may abort between them. A click renders at once, a state set in a task later
(`Render`). The server answers anything at any time, or never.

## 3. The runs

All runs set `CHECK_DEADLOCK FALSE`: the system may really stop, since nobody has to start
another command, names are finite and faults are bounded.

| run | checks | what it shows |
|---|---|---|
| `administration` | `RegistrationTypeOK`, `SourcesAreConsistent`, `ContentsAreConsistent`, `SwitchKeepsFallback`; `RegistrationsAreWhole`, `LastAdopterWins`, `FailuresHaveCause`, `RegistrationsEnd` | the promises of the lifecycle, with two sources that share contents; commands that register the same names |
| `two_sources` | `TypeOK`, `ImplementsGenerations`, `FlushesRespectUniqueIndexes`, `LockedSourceIsStable` | the SQL statements implement the promises, with row waits, deadlocks and a crash |
| `commands_end` | `CommandsEnd`, `OrphansComeFromRaces` | a pruning activation against a build of what it prunes, and two sources that retire the same contents at once: all end, and only the race leaves a content behind |
| `searches` | `TypeOK`, `OpenReadsStayValid`, `AnswersAreWholeGenerations`, `RequestsEnd` | two requests against everything that may happen to them, and an answer for each though the pointer may move for ever |
| `embeddings` | `TypeOK`, `ReuseTypeOK`, `LoadIsOrderly`, `OwnerHoldsLane`, `RetryAwaitsCohort`; `ReuseIsSafe`; `WorkEnds` | loads that fail, succeed or are interrupted; builds that share parses and vectors; all of them end |
| `publication` | `TypeOK`, `ImplementsPublishedModel`, `PreparedIsLoadable`, `FailureRestores`, `LocksAreFreed` | preparations in turn and side by side, faults, kills, a power loss, damage, readers |
| `chunking` | `WindowsAreRight`, `ContextsAreBest`, `ChunksAreWhole`, `LoopsAdvance` | every small text, section and match |
| `reading_and_answers` | `SourceIsCommit`, `SearchIsRight`, `AnswersAreBest`, `ScreenIsTrue`, `OnlyItsTokenIsRefused`, `RequestsEnd` | git processes, archives, patterns, lanes, smoke cases and the web client |
| `recorded_failures` | `FailuresComeFromTheSnapshot`, violated | finding 1 |
| `shared_garbage` | `NoOrphanContent`, violated | finding 2 |
| `spurious_conflict` | `ConflictMeansNoActiveRun`, violated | finding 3 |
| `conflicting_vectors` | `OneVectorPerText`, violated | finding 4 |

*Conjunctions.* What the properties of several parts consist of:

* `SourcesAreConsistent` = `PointerNamesActive`, `FallbackIsUnambiguous`;
  `ContentsAreConsistent` = `RetainedRunsIntact`, `DiscardedRunsHoldNothing`.
* `RegistrationsAreWhole` = `ResultsAreStored`, `FailuresLeaveNothing`, `GrantsAreWhole`.
* `LoadIsOrderly` = `OneLoader`, `NoSleeperIsForgotten`, `CohortIsCounted`;
  `ReuseIsSafe` = `LinkedIsSearchable`, `VectorsAreOfTheirText`, `SharingIsHarmless`;
  `WorkEnds` = `CallsEnd`, `FailureIsTransient`, and the end of every build.
* `PreparedIsLoadable` = `ManifestNamesSnapshot`, `MissHasCause`.
* `WindowsAreRight` = the types, `ChildrenFit`, `TextIsCovered`; `ContextsAreBest` = `ContextFits`,
  `NothingMoreFits`, `WorkIsBounded`; `ChunksAreWhole` = of blocks `ChildrenFit`, `ChildrenAreSlices`, `ChildrenFollow`,
  `NothingIsLost`, and what depends on the numbers of the configuration: `ShortTextsHaveContexts`, `FailureHasCause`,
  `SmallDriftIsHarmless`, `BoundedIsGreedy`, `PartsFillLimit`; `LoopsAdvance` = what a step of the
  window loop brings nearer to its end (`Follows`, `NearsEnd`), and `ContextGrows`.
* `SourceIsCommit` = `GitOutputIsWhole`, `ArchiveIsCommit`;
  `GitOutputIsWhole` = `AcceptedIsWhole`, `ReadIsBounded`, `NoProcessIsLeft`;
  `ArchiveIsCommit` = `MetadataIsBound`, `EntriesAreTree`, `FilesAreBounded`, `SnapshotIsCommit`,
  `FaithfulIsAccepted`; `SearchIsRight` also has `EachStateOnce`;
  `AnswersAreBest` = `FusionRespectsLanes`, `BestSectionsAreKept`, `StrictOnlyRemoves`,
  `FloorsSeparate`; `ScreenIsTrue` = `AnswersAreOfLastSearch`, `TimeoutsAreTold`.

*Bounds: the database.* `administration`, lifecycle: four runs of the first source give two prunings and a
rollback between them, three of the second one pruning; three contents give one shared by the
sources, one shared by runs of a source, one private. Registration: three commands, since a
third must be able to come between two that collide; every combination of kinds that
shares a name, over what an empty, a partly and a fully installed database may hold; two
patterns, two key ids (so that three clients exhaust their attempts), one lost connection or answer.
`two_sources`: two workers, since every conflict of
the code is between two transactions (deadlocks are stated for any number);
three runs reach the first pruning; contents `x` and `y` let two builds wait for each other; one crash
hits every stage. `commands_end` has two initial databases. In one, the next activation of the first source prunes both
contents while the second source builds a run of them, and one transaction may die. In the other, which is also where
`shared_garbage` starts, both sources are about to retire their last runs of the contents, of which one keeps `x` and the other
nothing: so two switches prune at once, `x` may be passed over by one of them only, `y` by both. Both activations have begun, and
no transaction dies there, to keep the run small. These databases are reached by indexing and activating each run in turn; a prefix adds nothing to liveness.
`searches`: two requests meet in the row locks. The run has three initial databases: an empty one, whose two runs of the searched
source, the second without documents and without vectors, make a mixed answer visible; one where the next activation of the
searched source collects the document that only its fallback links; and one where that of the other source does, while
the searched source serves a document they share.

*Bounds: embeddings and publication.* Three threads are a loader, a waiter of its load and a caller that
comes after its failure; four calls let one of them come again or nest; two exceptions hit a
load and a waiter of it. Builds: texts repeat within and between contents, and one content has no text. Two
builds of the same contents in opposite orders and one of the empty content, with one failure of parser or model, begin with
any of their contents unlinked in the database, which collection may take at any time. For liveness three builds whose
commits overlap in a circle (`Circle`) begin with an empty database, so that all three may wait for each other.
Publication (`Quota`): `publish` is one process with three preparations, a fault at any step, a kill, a power loss, a
foreign manifest and a damage, and so reaches a reused snapshot, a rollback and a power loss in the middle of it;
`seek` is two preparations and two reads with a fault, a power loss and a damage; in `contend` two
processes share three preparations with two faults, so that a rollback may fail too, a kill and a damage.

*Bounds: text and answers.* Windows: texts of up to seven tokens with drifts of 0, 1 and 3, and of up to ten with a drift
of at most one, with limits of 4 and 5 tokens: two to three windows with an overlap and a rest that is
tiny or not. Blocks: five blocks of every kind, shorter and longer than a child, one of them a list whose
item is too long. Contexts: six blocks whose sizes stay below, meet and exceed the limit.
Git: objects below, at and above each limit, pipes of one and two units, three faults.
Archives: up to three headers (files of each size, a directory above a file, a link, metadata headers of either scope, a name
that leads out of the repository, a damaged header), whole or cut, and four of fewer kinds, which exceed the limit of members. The
other types that are refused by their type alone (`longlink`, `sparse`, `solaris`) are not in them, since the check of the type does not
depend on which of them it is; the proof has all types. Patterns and paths:
four segments. Lanes: four children of three sections in lanes that hold three. Smoke
cases: three. Web client: two tokens, four requests.

*Fairness.* A running command executes its next statement, and a request its next step; nobody
has to start one. Both wait only for row locks (the advisory lock is tried, never awaited).
PostgreSQL queues the waiters of a row and wakes them in turn, so a waiter that is
again and again able to go on does go on: strong fairness of `Progress(w)` and of `Serve(w)`.
A lifecycle transaction ends (`WF` of `EndSwitch`), which `CommandsEnd` shows of the detailed
model. A *switch* that waits for searches gets no fairness: the code does not bound how
many of them share the row, so steady searches may starve it. Registering commands and builds are
finitely many and each ends, so `WF` is enough for them. A thread in the embedding runtime goes
on, and a load and an operation end (`WF` of `Progress(t)`); the semaphore needs no more,
because the calls that could overtake a waiter are bounded. A preparation is scheduled and its
download ends. git and its reader are processes that are scheduled, each on its side of the pipe. In the web client
React renders and timers fire; no user and no server has to act.

*Mutants.* Each property of a passing run is violated by a change to one definition that a
plausible bug would make: a missing archive flush, collection that asks only the own source,
a FOR SHARE left out, a nested call that queues for its own semaphore, a manifest unlinked where it must be put back, an
exit status that is not looked at. The mutated operators stand next to the originals, marked "Mutant:"; no action uses them.

## 4. Findings

1. **A lost deadlock is recorded as a violated identity contract.** The pipeline turns every
   exception inside the savepoint into a FAILED run with `invariant_failure`
   (`pipeline.py:122`). Two indexers of different sources that insert shared contents in opposite orders
   deadlock; the one PostgreSQL cancels is recorded as having broken its artifacts' identity
   contract. Run `recorded_failures`.
2. **Contents shared by two retiring runs are never collected.** Each of two concurrent
   activations sees the other's occurrence, leaves the content to it, and no later pruning
   has it as a candidate. Run `shared_garbage`.
3. **A search can be told that there is no active index while there always is one.** The active
   index query joins before it locks; when it waits for a switch, its row no longer joins, and
   the result is empty (`search.py:455`). Run `spurious_conflict`.
4. **Two vectors can be stored for one text.** A build looks for a reusable vector among the
   committed rows; two concurrent builds of different contents each calculate and commit one.
   When the model's answers differ (they may, with the batch), every later build of that text
   fails with a conflict (`repository_artifacts.py:334`). Run `conflicting_vectors`;
   `SharingIsHarmless` shows that nothing of the kind happens if the model always answers the same.

Met while modelling, visible in the modules, without a run of their own because no line of the
repository claims otherwise:

* `prepare.py:301`: a failure between the replacement of the manifest and the record of the
  publication is not rolled back (hence `Fragile` and `spoiled`).
* `prepare.py:110`: a snapshot that is reused is not synchronized again; when an earlier preparation
  was killed between rename and synchronization, a later one may report what a power loss still takes
  (hence `unsettled`).
* `manifest.py:226`: the backup link of a preparation changes the inode's ctime, so a reader
  may miss a model that is there all the time (`disturbed`).
* `chunker.py:241`: a match in two blocks that together exceed the limit has no context although
  it would fit itself; `ShortTextsHaveContexts` says when that cannot happen.
* The first index commands of an empty database that run at once may fail with an integrity
  error; `FailuresHaveCause` has exactly this exception.
* A READY run whose process dies before it activates is collected by nobody; the audit event of
  a switch is written after its commit, and the index command writes none.

## 5. Proofs

For every value of the constants that meets the named assumptions: each run has a source
(`SourceOfAssumption`) and a set of contents (`SnapshotAssumption`), the null values are none of
the others (`NullsAssumption`, `NoRunAssumption`), the crash bound is a number
(`MaxCrashesAssumption`), the workloads of registration are jobs and its tables have names of their own
(`RegistrationAssumption`), the commits of builds are sequences of contents, contents have finitely many chunks and no answer
of the model is the null (`ReuseAssumption`), limits, capacities and sizes are numbers (`SourceAssumption`), so are those of chunking, with an overlap below the target and
the target, the soft and the atomic maximum in this order, as `ports.py` requires (`ChunkingAssumption`), chunks are
finitely many and numbered, weights positive, the smoke fixture is as above (`AnswersAssumption`), no token is the null
(`WebAssumption`). `SearchSession` also assumes what its own constants are. That the model has *one* answer for each text (`SingleAnswers`) is assumed
by `SharingIsSafe` alone; without it finding 4 is what happens, and `LinkedContentsAreSearchable` is what remains. No assumption limits how many sources, runs, contents,
workers, requests, commands, preparers or readers there are, and none limits faults.
`Registration`, `ArtifactReuse` and `ModelPublication`, of which a run has several instances or parts, have their assumption as a definition: their
theorems start with `ASSUME`, and the module of the run assumes it of its constants.

| module | theorem | says |
|---|---|---|
| `IndexGenerations_proofs` | `LifecycleIsConsistent`, `CollectionIsSafe`, `FallbackIsKept` | the promises of the lifecycle |
| `IndexTransactions_proofs` | `TypeCorrect`, `Refinement`, `FlushesAreAccepted`, `LockProtectsSource`, `OnlyRacesLeaveOrphans` | the SQL statements keep those promises in every interleaving, and collection leaves a content behind in one race only |
| `SearchSession_proofs` | `TypeCorrect`, `OpenReadsAreProtected`, `AnswersAreWhole` | what a request has checked stays true, and it answers with one whole generation |
| `Embeddings_proofs`, runtime | `TypeCorrect`, `LoadingIsOrderly`, `LaneIsExclusive`, `RetriesAwaitCohort` | one loader, no forgotten waiter, a counter that is right, one thread at the model |
| `Embeddings_proofs`, reuse | `ReuseTypeCorrect`, `LinkedContentsAreSearchable`, `SharingIsSafe` | what a committed run links can be searched, and no build fails because of what another has stored |
| `ModelPublication_proofs` | `TypeCorrect`, `Refinement`, `PreparedModelStays`, `PreparedModelLoads`, `FailedPreparationRestores` | preparations implement `PublishedModel`: what is published was verified, what is put back was found; what was reported prepared stays and can be loaded, power losses included; a preparation that fails restores what it found |
| `Registration_proofs`, adoption | `TypeCorrect`, `NoUpdateIsLost` | the patterns of a source are those of the last command that adopted |
| `Registration_proofs`, rows | `RegistrationIsWhole`, `FailuresAreExplained`, and the parts `CommandsAgree`, `FailedCommandsLeaveNothing`, `ClientsHaveTheirGrants` | commands leave all of their rows or none and go on with the one row of each name; they fail for known reasons only |
| `SourceAndAnswers_proofs`, reading | `SourceIsWhole`, and its parts `GitIsWhole`, `TarIsCommit`; `PatternIsRight` | what is accepted is the whole output of a git that is gone, and exactly the files of the commit; a pattern matches what it means, and no pair of positions is visited twice |
| `SourceAndAnswers_proofs`, answers | `BestAnswers`; `AnswerIsOfLastSearch`, `RefusalHitsItsToken` | for all lanes, weights, limits and scores the answer keeps the order of the lanes and the best sections, and calibrated floors separate the cases; the screen shows its last search, and a refusal closes the screen of its token only |
| `Chunking_proofs` | `WindowsHold`, `ContextsHold`, `LoopsProceed` | for all texts, sections, matches, limits and whatever the tokenizer counts: children fit, follow each other and leave nothing out; a context fits, holds its match, cannot grow by a block and stays within the budget; both loops end |

*IndexGenerations.* The conjunction of the promises is inductive as it stands. They need each
other: a switch archives one run only because the fallback is unambiguous, and demotes the run
it leaves only because the pointer agrees with ACTIVE.

*IndexTransactions.* The promises are not inductive here: between two statements a transaction
relies on what it read before. The invariant `Inv` adds

* `Holds`: a transaction between its locks and its end holds its source, so two of them never
  share one;
* `Local`: what it knows of that source. A build's run is unpublished and its snapshot is
  accounted for (linked, to do, or in hand). A switch knows the only ACTIVE and the only
  PREVIOUS run, has flushed exactly what its stage says (`Flushed`), and collects only from
  the run it retires;
* `Stored`: what it knows of the shared contents. What it links is stored or its own; what it
  has deleted and checked against the foreign key is linked by no other run;
* `Apart`: for each two transactions, that neither deletes what the other inserts, deletes or links.

The advisory lock makes `Local` survive the steps of others, row locks make `Stored` and `Apart`
survive them. A step that commits nothing concerns one transaction (`UncommittedStep`); a
commit is a step of the lifecycle (`CommitReadyStep`, `CommitFailedStep`,
`CommitSwitchIsPromised`) and leaves what the others know intact (`OthersSurvive`). Hence the
refinement, and with it every theorem about `IndexGenerations`. `FlushesAreAccepted`
then is a matter of `Flushed`, and `LockProtectsSource` of `Holds`.

`OnlyRacesLeaveOrphans` adds `Visits`: a switch begins to prune with every content of the run it retires as a candidate, and
no candidate is left when it commits, so each has been deleted or passed over by then. A batch passes over
a content only when it sees a link of another run (`SelectBatch`), so the content is not `Forsaken` by that; it becomes so when that other
link goes, which only the commit of a switch does, and this switch must have visited it (`LinkIsLost`).

*SearchSession.* The invariant adds to the lifecycle's what one open request knows at its stage
(`Sound`); the steps of the lifecycle cannot disturb it because of the readers they wait for.

That it pins and reads from a *run*
(`TypeOK`) needs the lifecycle too: a pointer that is set names one.

*EmbeddingRuntime.* The threads are assumed to be finitely many (`ThreadsAssumption`). The invariant adds that nested calls are refused at once
(`Nesting`) and that nobody is ahead of the generation (`Generation`). All of it but the count
is a matter of single threads (`Shape`). For the count, `Members` is the set of threads that
load or wait for the current load; each critical section adds one member
(`JoiningKeepsCount`), removes one (`LeavingKeepsCount`), dissolves the set, or leaves it
alone, and the counter follows its cardinality. `RetriesAwaitCohort` follows: a counter of one
means that who leaves is alone.

*ModelPublication.* The lock is the argument: whoever has begun holds it (`Exclusive`, part of
the type invariant), so what the holder has learned stays true under the steps of others. `Knows` says by its step that it
has a content, that the manifest names a model once it has been replaced, and that no missing
manifest is durable once the directory has been synchronized. The content in hand and the manifest kept for a rollback are
`verified` and `prior` of the abstract publication. Then each file operation is a
step of `PublishedModel` or a stutter: the pinning is `Verify`, a replacement `Publish`, a rollback `Withdraw`, the end of a
preparation `End`. `PreparedModelStays` follows from the abstract module alone, with the
strengthening `Kept`: the current manifest is always among the durable ones.

That the model can be loaded rests on what stands on the disk. A snapshot `Stands` when it is there now and after a
power loss, or its move was once cut off. No step takes that away: a move begins only where nothing stands, and it
ends synchronized or cut off (`StandsStays`). So whatever a preparation is about to publish stands (`Settled`), and with it
every manifest in place, on disk, or kept for a rollback (`Named`), and every manifest a reader has open (`Seen`). A
reader that began after a success has found a manifest, since by `Kept` there is one.

That a failure restores is a matter of inodes. At each step the manifest is untouched, or the one just
published with the one kept being what was found (`Restores`). Where it may be either, at the
steps at which an exception may have come before or after the replacement, the comparison of inodes in
`OwnsManifest` decides, and it decides rightly, because an inode is used once (`Named` bounds all that are in use).

*Registration.* One command at a time is between its statement on a source profile and its
commit (`Alone`): by the row lock when the row is committed, by the unique name when it is not. So the
patterns such a command found or wrote are what it commits (`Adopting`), and the last to commit
is the last to have adopted.

*Registration, rows.* `Provenance` says where rows come from: each is left by the command it names, which
has committed, and those of a client are the key and the grants of its last attempt, as far as
that attempt is. A step concerns the rows of the command that takes it (`OthersStayWhole`): it inserts
under its own name, and commits or drops everything it has inserted.

`NamesAreUnique` says of every two rows, committed or not, that they differ in their name: an insertion
that would break it waits (`Waits`) or finds the committed row. What a command has found or inserted (`Knows`) is therefore all there is to
find, and what it goes on with once it has committed is the row stored under each name it asked for. For the causes of
failures, `Missed` remembers what was *not* there when an index command looked. What is there when its insertion
collides has come since, and so is of a concurrent command; it stays (`EarlierStays`), and so does the cause (`Cause`).

*ArtifactReuse.* Of each build, `Placed` says where it is in its files, `Working` that what it has passed it has
stored or seen (every content up to its file linked, every chunk up to the current one with a vector or among those it asks
the model for), and `Genuine` that every vector at hand is one of its text. The steps of other builds only add to what is
committed, and collection spares what a build links: an uncommitted link holds its content by the foreign key. So what a build has
seen it need not look at again (`Grown`), and what it commits can be searched. For `SharingIsSafe`,
all genuine vectors of a text are one when the model has one answer, so the comparisons of
`CheckVector` and `InsertVector` succeed, and `find_reusable_embedding` never finds two.

*Induction.* The library's induction theorems take an operator as a parameter, which the provers cannot instantiate. What needs
induction over data is proved by a least counterexample instead: a set of numbers that is not empty has a least element
(`Least`, `LeastNumber`, and `LeastSet` for finite sets; both from the library's theorem that strict inclusion of finite sets is
well-founded), and the step from there to its predecessor is the contradiction. That a recursive function is what its definition says
(`RecursionExists`, for ranges of numbers) is proved in the same way, from the chains of its finite beginnings.

*Source reading, git.* `GitInv` accounts for every unit: what the reader has got, what is in the pipe and what git still
writes make up the whole output, in order (`StreamReading`; `BatchReading` for headers, contents and newlines of each object),
unless git has crashed, which its status will tell, or the reader is already cleaning up with a failure
(`CleaningUp`). So accepting after the end of the stream and a status of zero is accepting the whole.

*Source reading, archives.* `TarInv` says what the scan has established of the headers before `position` (`Scanned`,
`Structured`: metadata headers are bound to their file, no name twice, no file under another file), that what was read is the content of the included
members before it and no more (`Joined`), and that the running total is the sum of their sizes, stated with the cardinality of a set of bytes (`Weight`,
`TotalIsWeight`) because the sum is a fold. At the end, the comparison with the tree then is one of the whole archive.
`FaithfulIsAccepted` is part of the invariant: each check that may reject has its part in `Faithful`. The proof is what showed that
`Faithful` must ask for a sound terminator. Directory members cannot conflict, because what is under a directory is under
those above it (`UnderIsTransitive`) and no file of the tree is under another.

*Source reading, patterns.* A match is a *cut*: for each segment of the pattern, the place in the path where it begins. Every pair
the search has visited is reached by the beginning of a cut (`EachReached`), and each pair it took from its stack is the end of both or
has its followers visited (`TakenAreDone`). If the stack is empty, no cut leads to the end: the first pair on it that was not
visited would have a predecessor that was taken (`NoCutLeft`). `OneEachCounts` gives that no pair is taken twice.

*Ranking.* The one idea is that counting those before an element is an order-preserving numbering: of a finite set with a strict total order the
counts rise (`CountsRise`), so they differ, and as many different counts as elements take every value
(`EveryCountIsTaken`); hence `Sorted` lists the set, each element once, in order (`Lists`). `Better`, `Ahead`, the order of a
lane and the order of numbers are instances. `Denominator` is divided by every `k + rank` (`DenominatorIsCommon`, from the recursive product), so shares are exact
and fall with the rank (`ExactDivision`, `SharesFall`), which is `FusionRespectsLanes` (`ScoresRespectLanes`).
`RankingInv` says that what is stored is a function of the lanes; `GroupsAre` that the groups partition the fused children, headed
by their best. The strict level then is a subsequence, and the limit a prefix.

*Calibration.* `CalibrationInv`: what is kept of the cases done is a function of their batches, and the unknown batch is that
of the one no-evidence case. `AssessIsRight` compares any positive floors with the proposed ones, which are the least
that keep the unknown case out.

*Web client.* A request that is not settled is the last one, of the mounted screen, which is busy with it and connected with the
token it carries (`OneAtATime`): an answer to any other request finds nothing to change. Both theorems follow from `WebInv`, which
is this and the types.

*Chunking, windows.* `WindowInv` says that the last child reaches to where the text is covered and the next one starts at most the
overlap before (`Placed`), and that a window is sought only in a text that does not fit as a whole: its rest is longer than the
soft maximum, or was measured so (`Sought`). The second is why the loop ends: a window that is found ends beyond
`covered`, or the cursor moves there. A child that is taken was measured to fit (`TakeKeeps`, for each action that takes one).

*Chunking, contexts.* What has been found was measured to fit and is a window of whole blocks or a part of the match's only block
(`InBlocks`, `InParts`). While blocks are probed it is one of the expansions (`InProbes`), which hold each other in their order
(`ExpansionsGrow`), as the parts do (`PartsGrow`); so the longer one that fits is one around it, whatever the order of the probes.
A side is only tried when the window on it is measured, and stays too long until the context grows (`InBlocks`): when neither is
left, no block could be added. For the budget, the loop that does not count has called at most twice for each block it has added
and once for each side that is too long (`InGrowth`), and `Exhaustible` allows two calls for each block there is.

## 6. What is only model-checked

* Liveness (`CommandsEnd`, `RequestsEnd`, `WorkEnds`, `RegistrationsEnd`, `LocksAreFreed`), since ENABLED and fairness
  are beyond the prover.
* `ChunksAreWhole`. `SmallDriftIsHarmless`, `FailureHasCause` and `ShortTextsHaveContexts` compare budgets and drifts that are
  numbers of the configuration, and are false of arbitrary ones. `BoundedIsGreedy`, `PartsFillLimit` and the children of blocks are
  about recursion and nested folds over texts, each step of which calls another one.
* The findings, which are counterexamples. `NoOrphanContent` is violated by finding 2; what does hold of collection,
  `OrphansComeFromRaces`, is proved.

## 7. Not modelled, and why

* Document metadata: classification of one path and its front matter, a function without state
  whose result nothing else depends on.
* The Markdown parser: a library and its traversal; `ChildBlocks` starts from its blocks.
* Settings, the format and validation of manifests, policies and requests, the digests that bind stored rows
  to a parse: functions of one value; they appear as whether they agree.
* Schema migrations run once, alone, before any of the programs; constraints that decide an
  outcome are in the actions, and what the third migration leaves is an initial state of `Registration`.
* Relations between documents, which are written after the files of a build and read by nobody here.
* The search and model commands of the command line, which print the result of one modelled
  operation; logging, HTML and JSON layout.
* Retrieval for calibration, whose locks are those of retrieval for a search.

## 8. Plan

Done: the lifecycle and its transactions, searches, the embedding runtime, reuse, registration,
publication, source reading, chunking, ranking, calibration, the web client. What is left, in order:

1. The index command as one process: `ensure`, build and activation with exit codes and the
   audit event, composed of `Registration` and `IndexTransactions`.
2. Relations between documents in the build transaction, and the replay checks of stored parses.
3. The registry of runtimes in the embedding provider, if it ever evicts one.
