# A verification project for pgproof

pgproof reviews the PostgreSQL schema and the queries of a Python application:
it reconstructs the schema from migrations and models, runs the project's tests
in containers to capture what they execute, benchmarks index candidates, and
records evidence, decisions and proof bundles in files under `.pgproof/`. This
directory holds TLA+ models of the parts of it whose correctness depends on
order, failure, concurrency or search, the TLC runs that check them, and proofs
checked by TLAPS.

Paths below are relative to `src/src/pgproof/` unless they start with `docs/`;
TECHNICAL_DESIGN.md and ARCHITECTURE.md are under `src/docs/`.

- [1. The system](#1-the-system)
- [2. The modules](#2-the-modules)
- [3. The runs](#3-the-runs)
- [4. Proofs](#4-proofs)
- [5. What the code does otherwise than its documents say](#5-what-the-code-does-otherwise-than-its-documents-say)
- [6. What is not modelled](#6-what-is-not-modelled)
- [7. Plan](#7-plan)

## 1. The system

The command line drives everything. Each `review`, `capture` or `experiment` is
one process; commands meet only through files under `.pgproof/`, through the
docker daemon, and through the local API server, which serves the same files to
a browser from a pool of threads.

| Component | State it keeps | Operations | Talks to | Hard behaviours | Correct when |
|---|---|---|---|---|---|
| **Atomic file store** `store/atomic.py` | one file at a path, its temporary files | `write_bytes_atomic`, `append_line_durable` | every writer of JSON | kill or power loss between two system calls, racing writers, exceptions | a reader sees a whole document; a write that returned survives |
| **Run session and manifest** `store/run.py`, `store/artifacts.py`, `store/manifest.py`, `domain/stages.py`, `domain/manifest.py` | stage statuses in memory, `events.ndjson`, artifacts, `result.json`, `manifest.json` | start, stage transitions, `record_artifact`, `finish`, `verify_manifest`; `clean --runs` | the store; other runs through `analysis/` | death between the memory update, the append and the writes; shared artifact paths; a clean under a live run | log, memory, result and manifest agree; a sealed run stays sealed |
| **Isolated runner** `adapters/runner/docker.py` | one container, the staged copy of the repository, the outcome | `run`: stage, create, start, poll, stop, inspect, remove, read files | the docker daemon, the command, a cancel event, `clean` | deadline against exit against cancellation; failing docker calls; interrupts in the finally clauses | success is what really happened; nothing is left behind; it ends |
| **Capture command** `cli/commands/capture.py`, `application/capture.py`, `adapters/postgres/lifecycle.py`, `cli/commands/clean.py` | a docker network and a database container, the session, `schema.json`, `workload.json` | the whole `capture`; `clean --containers` | runner, session, docker, other captures | every call may fail, interrupts, kills, containers removed under it | manifests cover ended stages only; the schema is a migrated one; resources are released |
| **Review command and its cache** `cli/commands/review.py`, `domain/cache.py`, `adapters/repository/inventory.py` | `schema.json` and `code.json` with a stage cache key | discover and hash, look up, parse, write | other reviews, `capture`, an editor, an upgrade | check and use at different times, two files written one after the other | a hit serves what the files hold now |
| **Local API and decision log** `local_api/app.py`, `domain/decisions.py` | `decisions.json`, `recommendations.json` | `PUT /decisions`, `should_reactivate` | reviews, concurrent requests | read, modify and write without a lock; documents replaced between check and use | decisions are grounded, kept, and reactivated when their evidence changes |
| **Benchmark and candidate verification** `adapters/benchmark/run.py`, `adapters/candidates/verify.py`, `write_cost.py` | session settings, applied indexes, autocommit, arms and costs | A1, apply, B, revert, A2; write cost before and after the build | one database connection; cancel and deadline | stops and errors between any two statements | a conclusive result compares with and without, the session is handed back |
| **pytest plugin and workload** `adapters/pytest_capture/plugin.py`, `domain/capture_event.py`, `adapters/workload/reconstruct.py`, `adapters/treatment/compare.py` | the current node, transaction ids, `capture.ndjson`, `summary.json` | pytest hooks, SQLAlchemy listeners, reconstruction, treatment comparison | pytest, SQLAlchemy, the host process | reuse of `id()`, outcomes recorded before the commit, a process that dies before its summary | events and transactions are those that really ran |
| **Index candidates and screening** `adapters/parameters/extract.py`, `adapters/candidates/generate.py`, `screen.py` | hypothetical indexes in a session, estimated costs | predicate extraction, candidates, HypoPG screening | the same connection as the benchmark | a budget shared by tables, screenings that end in an error | candidates serve the query; two costs differ by one index |
| **Proof bundle and reproduction** `adapters/proof/bundle.py`, `reproduce.py` | a directory of files under `proof.yaml`; a disposable database | write, read (hash, then load), reproduce | an editing user, a concurrent reader | a writer that dies, a second write, files read twice, a database an earlier attempt has used | trusted exactly when intact; a manifest means a finished write; "reproduced" is earned |
| **Static migration analysis and safety** `adapters/repository/alembic_static.py`, `adapters/migration_safety/` | the revision graph, the order of replay, the replayed schema, the risks of an upgrade | parse, graph, cycle search, replay, assess | review, the database | two depth-first searches with early returns; renames and re-creations of one name | cycles are found and real; the replay is the database's schema; risks to older rows are reported |
| **Static model analysis, reconciliation, rules, plan, diagrams** `adapters/repository/sqlalchemy_static.py`, `domain/reconciliation.py`, `rules/`, `domain/migration_plan.py`, `domain/scenarios.py`, `adapters/diagrams/graph_ir.py` | the ORM schema, observations, recommendations, plan, blockers, graph; seven documents on disk | one review | migrations, models, context, the developer who runs the plan | partial analysis; a refusal after six of seven documents; steps in any order their dependencies allow | findings are real, refusals are foretold, documents agree, reviewing converges |
| **Configuration and questions** `domain/questions.py`, `application/configure.py`, `cli/commands/configure.py`, `adapters/repository/config_toml.py` | `pgproof.toml` | ask, answer, read, write | the developer's editor, review | a file read, held for minutes and written whole; a crash between truncation and write | answers are kept and decide |
| **Seeder** `adapters/seeder/plan.py`, `load.py` | the order of the tables, deferred foreign keys, the rows loaded | components, order, column strategies, COPY, sequences, back-filling | a database with rows of its own, in one transaction | cycles of foreign keys; constraints the plan cannot satisfy | every kept table after its parents; COPY refused only for known reasons; the target is reached |

Section 6 lists the components without a model.

Where a module treats an operation of another component as one step, the module
of that component justifies it. `RunSession`, `DecisionLog` and `ReviewCache` take one
atomic write of a file as one step, which is what `AtomicWrite` shows
(`ImplementsDurableFile`); `Capture` takes `runner.run` as one step that ends,
which is `ContainerRun`'s `Terminates`; `Capture` extends `RunSession` and is
shown to implement it; `CleanRuns` adds `clean --runs` to `RunSession`, whose steps
it does not change; `SchemaReplay` replays in the order `RevisionGraph` finds;
`Design` reads the schema as `SchemaReplay` replays it, with what the replay gets wrong
as kinds of table; `Reproduction` reads bundles as `ProofBundle` does and takes the
experiment it repeats as its outcome, whose steps are `Experiment`'s.

## 2. The modules

Conventions. One action per statement, call or handler at whose boundaries
another process, a failure or a kill can be observed. `pc` is the next call of a
process. A sequence of at most one element (`<<>>` or `<<x>>`) is an optional
value, as in "the file is missing". A variable marked *history* in its comment
is not in the code: it remembers what happened so that a property can speak of
it, and no action reads it. Definitions marked `(fault)` are variants of the next
definition with a plausible mistake; no specification uses them. PROJECT.json
names, for every property, the variant that breaks it, as evidence that the
property depends on the code. An `MC` module only declares the model values of
its configuration.

- **AtomicWrite** is `write_bytes_atomic` system call by system call: `MakeTemp`
  (mkstemp), `WriteData`, `FsyncFile`, `Chmod`, `Replace`, `FsyncDirectory`, with
  `RaiseWrite` (the except clause unlinks the temporary file), `Abandon` (a kill) and
  `PowerLoss`, after which the directory is any prefix of the renames not
  shorter than what was flushed, and data not flushed may be torn.
  **DurableFile** is the abstract specification: a file, replaced in one step.
  `append_line_durable` is taken as one step by RunSession.
- **RunSession** has the transitions of `domain/stages.py`, the two halves of
  each transition (memory, then event), of each artifact (file, then entry), and
  of `finish` (`result.json`, then `manifest.json`), a death between any of them,
  and the `RunManifest` validator that refuses two entries of one path.
  `files` is the shared `analysis/` directory of all runs.
- **CleanRuns** extends RunSession with `clean --runs`: the list of the directories,
  the confirmation, and the removal file by file. A run does not notice, since each
  of its writes makes the directory again, so RunSession's variables keep what was
  written and `lost` says what of it is gone.
- **ContainerRun** is `DockerRunner.run` call by call. Docker calls named by
  `MayFail` may fail; `CommandExits`, `Tick`, `Cancel`, `RemovedByClean`,
  `Interrupt` and `Kill` are the world around it. An interrupt inside a docker
  call may come before or after the daemon acted on it. What an interrupt runs is
  the finally clauses from there outwards.
- **Capture** extends RunSession with the docker network, the database container
  and the results of migration and tests of each invocation. `Unwound` is where an
  exception leads, by the nesting of the finally clauses; `PartialEffect` what a
  docker call that was cut short may have done. `ListContainers` and
  `RemoveListed` are the two halves of `clean --containers`, around the user's
  confirmation.
- **ReviewCache** hashes file by file, looks up the two documents one by one and
  writes them one by one, for reviewers at once, with editors, upgrades, captures
  and deaths. A hash is the function it hashes. `EditsDuringReview` and
  `Inventoried` are assumptions about the environment; see section 5 for what
  they keep out.
- **DecisionLog** is `put_decision` in its four steps (receive, read the
  recommendations, read the log, write the log) against `Review`.
  `MaxConcurrent` is how many requests are in flight at once.
- **Experiment** is `run_experiment` and `verify_candidate` statement by
  statement over one connection, with the checks for cancellation and deadline
  where the code has them, the write-cost guard with its savepoints, and
  `screen_candidates` call by call. It extends **IndexCandidates**, the operators of
  `extract_predicates` and `generate_candidates`: what a comparison resolves to, the
  shapes of a table, which existing index makes one redundant, and the budget.
- **TestSession** is the plugin's hooks in the order pytest calls them, its
  SQLAlchemy listeners, the two files it leaves, what `reconstruct` makes of the
  events and what `compare_treatment` makes of a session.
- **ProofBundle** is `write_proof_bundle`, where each file is truncated and then
  filled, and `read_proof_bundle`, which hashes every file and then loads every
  file, with an editing user. **Reproduction** extends it with `reproduce_bundle`:
  the checks of the bundle, the schema (committed at once), the dataset, the measurement
  and the comparison, on a database nobody empties between two attempts.
- **RevisionGraph** is `_build_graph`, `_find_cycle`, the decision in `_replay`
  whether there is one order, and `_topological_order`. The call stack of both
  recursions is the variable `path`, of frames (revision, index of the parent it
  is at). The searches of the code are sequential; what varies is the graph and
  the order of the starts, which in the code is that of a Python set.
- **SchemaReplay** extends it with `_apply` for every operation, in the order found,
  beside the database that runs the same statements (`Accepted`, `Executed`), and with
  `assess_migration` (`Reported`) beside what each statement does to rows older than the
  upgrade (`effects`). A statement stands in one of the places where `_extract_operations`
  reads it or does not (`Places`).
- **OrmModels** is `parse_models` over classes, columns and relationships written in
  every way the analysis tells apart. **Interview** is `configure` and the round trip
  of its answers through pgproof.toml, beside an editor and a crash between the
  truncation and the write. **Design** extends both: `review` from the schema and the
  models to the seven documents, the three rules, the plan's steps, and the developer
  who works them off in any order their dependencies allow.
- **SeedColumn** is `_recognized_check` and `_plan_column` for one column. **Seeding**
  extends it: `_strongly_connected` step by step, `build_table_order`, and
  `load_dataset` against a database that may hold rows, has CHECKs, keys and
  sequences of its own, and refuses what violates them. A value is where it comes from.

## 3. The runs

`tlc -config <cfg> <module>` in this directory. State counts are distinct states.

| Run | Question | Bounds, and why they are enough | States |
|---|---|---|---|
| `atomic_write` | does the file keep its promises under kills and power losses | two writers make every race of a pair; three temporary files let a writer try again after the other's death | 4 603 |
| `run_session` | do log, result and manifest agree, also where a clean removes live runs | two runs share an artifact, one stage passes all statuses, two writes make a repeated path, one clean lists both | 3 270 046 |
| `container_run` | is success real, is nothing left, does it end | two interrupts: one inside the call, one inside a finally clause | 2 192 |
| `capture` | do captures keep their promises while everything fails | two captures overwrite each other's artifacts and are cleaned by one `clean` | 630 064 |
| `review_cache` | is a hit fresh | two reviewers, two contents, two versions: each may be stale against the other | 279 744 |
| `decision_log` | are decisions grounded, kept and reactivated, one request at a time | two requests, two recommendations, two reviews | 73 736 |
| `experiment` | are comparisons controlled, is the session handed back, do candidates serve the query | 7 472 queries of up to three comparisons over two tables, against a catalog with composite, partial, descending and constraint indexes; for two of them three calls: one that stops, one disturbed by it, one after | 150 195 |
| `test_session` | do events and verdicts agree with what ran | two tests so that statements fall between them; two ids so that one is reused | 355 416 |
| `proof_bundle` | is the verdict honest, does a manifest mean a finished write, is "reproduced" earned | two writes, which may be of two bundles, two reproductions on one database, one edit | 972 878 |
| `migrations` | are cycles found, is the order right, is the replay the database, are risks reported | three revisions with two parents make chains, branches, merges, diamonds and cycles that no head leads to; four statements over two tables drop, rename and re-create one name | 1 592 570 |
| `design` | are findings real, refusals foretold, documents of one review, answers kept, does it converge | three tables in a chain: `items` takes every kind of class, column, relationship, key and index, `orders` the kinds that matter to its child; two questions; two contents of the rest of the file | 394 689 |
| `seeding` | is the order sound, is COPY accepted, is the target reached | three tables with up to four foreign key columns: self references, cycles of two and three, mixed cycles, composite keys; every CHECK of two bounds | 796 680 |

`run_session` uses the symmetry of its two runs: no definition tells them apart, and its
one action property is about single steps. No run with a liveness property uses
symmetry.

Deadlock is not checked where processes end by themselves (all runs with
`CHECK_DEADLOCK FALSE`); in the others every process can always go on.

What each property says, in order of the runs; the comment above its definition
says more.

- *atomic_write*: the whole is one step of a durable file, of which readers and the
  disk only ever have whole documents (`ImplementsDurableFile`); a write that returned
  is there after a power loss (`ReturnedWritesSurvive`); a temporary file nobody is
  writing was left by a death (`OnlyDeathLeavesTemps`).
- *run_session*: `LogIsTrue` (the log of each stage is a path through the transition
  table, and `result.json` says what it says); `ManifestIsTrue` (a manifest lists
  `result.json`, exists only of a finished run, and a hash in it goes stale only by
  another run's write); nothing a finished run wrote about itself changes
  (`SealedForever`); after any clean the log that is left never contradicts the
  result that is left, and nothing comes again of a run that had ended
  (`CleanedRunsAreConsistent`).
- *container_run*: a reported success had exit code 0 before the runner stopped or
  removed anything, and its files were read after that (`SuccessIsReal`);
  `NothingLeft`; `Terminates`.
- *capture*: `ReportIsTrue` (manifests cover only ended stages, schema.json is a
  migrated one, a workload has its schema, its raw events and its stage's status),
  `ReleasedAtEnd` (unless a docker call of its own was cut short), and the refinement
  `ImplementsRunSession`.
- *review_cache*: `HitIsFresh`, `CodeMatchesModels` (both sides of the
  reconciliation are of the same models).
- *decision_log*: `DecisionsAreGrounded`, `AnsweredAreLogged`, and
  `ReactivatedByReview`: a rejected or deferred recommendation reappears exactly when a review
  was written after the one its request had read, in particular whenever its evidence changed.
- *experiment*: `ComparisonsAreControlled` (of a conclusive result, of the write cost and
  of two estimates: the two sides differ in the candidate and nothing else, and nothing
  is concluded from a part), `LeavesNoTrace` (settings, benchmark mode and autocommit
  are as before; only a stop leaves an index), `CandidatesServeTheQuery` (no candidate is
  redundant or of columns the query does not compare; what was left out was redundant,
  over the budget or not eligible).
- *test_session*: `TransactionsAreReal` (events of one reconstructed transaction
  ran in one, with its real end, unless its id was reused or its commit refused),
  `EveryQueryIsRecorded`, `VerifiedMeansPassed`.
- *proof_bundle*: `VerdictIsHonest`, `ManifestMeansFinished`, `ReproducedIsEarned` (only on
  the bundle's own complete dataset and with a direction to compare).
- *migrations*: `CycleSearchIsExact`, `ReplayedInOrder` (each revision once, after what
  it revises, and in the end every one, `AllReplayed`), `Terminates`, `ReplayIsTheDatabase`, `RisksAreReported`.
- *design*: `FindingsAreReal` (a constraint or index is recommended exactly where the
  database lacks it, as far as the sources are readable), `RefusalsAreForetold` (a step
  the database refuses adds a key for an object the review named, or for a class without a
  column for it), `ArtifactsAgree` (drawing
  and documents are of one review, unless the graph was refused), `AnswersCount` (what was
  answered is kept and decides), `Converges`.
- *seeding*: `LoadOrderIsSound` (the search finds the classes of tables that reach each
  other; every table that is not dropped comes once, after its parents),
  `CopyIsAccepted`, `LoadedIsComplete`.

`TypeOK` (under the name of its part where modules extend each other) describes the
variables of a module. It is a theorem wherever it is defined and not among the questions
of a run.

**Fairness.** Three specifications have liveness properties. ContainerRun assumes
that the process is scheduled and docker calls return (`WF(Step)`) and that time
passes (`WF(Tick)`); it assumes nothing of the command, which may run for ever:
the runner's own deadline must end it. The searches of RevisionGraph are a
sequential program that takes its next step. In Design the fairness is that of a
developer who goes on: a review that was begun goes on and is begun again and again
although edits and interviews come in between (`SF(ReviewStep)`), a plan that has a
step to run gets one run, and an interview is finished. `Converges` says that this is
enough, so that neither the tool nor the plan brings the developer back to where he was.

## 4. Proofs

`tlapm <module>` in this directory. The theorems hold for every value of the
constants under the named assumptions of the modules (bounds are natural
numbers, paths are disjoint and the like).

- **RunSessionProofs**, of the store and what writes through it. AtomicWrite: every
  property of the run, with the refinement of DurableFile, that path and disk hold whole
  documents only (`PathHoldsWholeFiles`), and that no two writers ever rename the same
  temporary file (`RenamedOnce`). The inductive invariant adds to the properties what each writer
  has done to its own file (`WriterFacts`: whole once written, flushed before it
  is renamed), that two writers prepare different files (`OwnTemps`), and that
  only created files are named (`OnlyCreated`). Without `WriterFacts` nothing says that
  `Replace` renames a flushed file; without `OnlyCreated` mkstemp's file would not
  be fresh. The refinement maps the history of the durable file to the renames.
  RunSession: `LogIsTrue`, `ManifestIsTrue` and `SealedForever`, and that memory agrees with the log at every step (`MemoryAgreesWithLog`), in two layers. `LogInv`
  relates memory to the log up to one event that is not appended yet and says
  that appending it keeps the log legal; `ManifestInv` says which file contents
  the entries of a manifest were hashed from, and that a finished run has no
  second half left to do.
  CleanRuns: a run beside any number of cleans is a run (`CleanedRunsAreRuns`),
  so the theorems above hold of it, and `CleanedRunsAreConsistent`. The invariant
  (`CleanInv`) is that a stale run which is under way still has all of its files or a
  clean has been at them, and that a run whose directory went when it had ended has
  neither files nor steps left. That the rest of a log does not contradict the
  result follows from `ResultAgreesWithLog`, as what is left is the log's end.
  Capture: every step of a capture, with every failure, is a step of
  RunSession or changes none of its variables, for any number of captures. So
  the theorems of RunSession hold of captures (`SessionsOfCaptures`). `ReportIsTrue`
  and `ReleasedAtEnd` follow from one invariant (`CaptureInv`), which says at each step of a
  capture what of the network and the database is there (`PlaceFacts`, `cut` aside), what
  its stages are (`StageFacts`) and what it has listed for its manifest (`ListFacts`), and
  that the run that wrote `schema.json` has migrated (`SchemaFacts`).
- **ReviewProofs**: `HitIsFresh` and `CodeMatchesModels` for any number of reviewers,
  where no file changes during a review and the inventory has every file (`Quiet`, which
  is what the run assumes; section 5 says what happens without it). The invariant
  (`CacheInv`) is that a document with a key was built from what the key hashes
  (`BuiltFromKey`), and that what a reviewer holds is what it would build of the files it
  has seen (`ReviewFacts`). Without `BuiltFromKey` nothing relates a hit to the reviewer
  that finds it; it survives captures because these write no key.
  DecisionLog: `DecisionsAreGrounded` holds for any number of concurrent
  requests; `AnsweredAreLogged` and `AppendOnly` hold when requests come one at a time
  (`MaxConcurrent = 1`), an assumption of these two theorems. The invariant of the
  serial case is that the log a request has read is still the log. `ReactivatedByReview`
  needs no such assumption: a write may bring back an old log, but a decision that is in it,
  or that a request holds, was made of a document of some review up to the latest, and if of
  the latest then of the document on disk (`EvidenceInv`). So the two hashes that
  `should_reactivate` compares differ exactly when a later review was written.
- **ProofBundleProofs**: `VerdictIsHonest`, `ManifestMeansFinished` and
  `ReproducedIsEarned`, for every set of bundles and files. A read that nothing disturbed
  has hashed one content, so what it compares is what is on disk (`ReadFacts`, `CalmFacts`);
  a directory written at most once has the manifest last (`WriteFacts`); and to the
  directory a reproduction is a read (`ReproductionsAreReads`), so `ReproducedIsEarned` only
  adds what became of its database (`ReproductionFacts`). The
  proofs assume that the markers for missing, empty and foreign content are no bundles
  (`BundlesAssumption`) and that every manifest declares its parameters and its dataset
  (`RolesAssumption`), which `write_bundle` always writes (`bundle.py:99-108`).
- **RunnerProofs**: `SuccessIsReal`, where inspecting the container cannot fail, and
  `NothingLeft`, where the daemon cannot refuse a removal; both hypotheses are those of the
  run, and section 5 says what happens without the first. The invariants say where the
  container is at every step (`ContainerFacts`), whose exit code was read (`CodeFacts`) and
  what the finally clauses have still to do (`CleanupFacts`). TestSession:
  `TransactionsAreReal`, `EveryQueryIsRecorded` and `VerifiedMeansPassed` for any suite,
  queries and transactions. The thread's node is that of the phase, or of the teardown
  before (`NodeFacts`); every statement that runs adds one event to its operation, so the
  two counts of `EveryQueryIsRecorded` move together (`CountStatement`); the summary
  counts what the sessions reported (`SummaryFacts`), so a treatment that has as many
  passed tests as a full baseline has them all.
- **ExperimentProofs**: `ComparisonsAreControlled` whatever fails and whenever a stop
  comes, and `LeavesNoTrace` where no SET can fail (section 5). The invariant
  (`ExperimentInv`) says what each arm has seen relative to the first (`ArmFacts`), the same
  of the two halves of the write cost (`CostFacts`), that an index which is neither given up
  nor under measurement is not there (`IndexFacts`), that the session's benchmark values
  are among those saved (`SettingFacts`), and that only an error leaves a hypothetical index
  (`ScreeningFacts`).
  `CandidatesServeTheQuery` for every catalog, every query and every budget of at least one.
  The loop of `generate_candidates` is stated in closed form, as induction over a fold is out
  of reach: a shape is proposed unless an existing key begins with it or a shape equal to it
  came earlier, and unless its rank among those that are left is over the budget
  (`GenerateCandidates`, `Eligible`). A list in the order of its ranks has one element for
  each rank (`InOrderLists`, `PositionsListed`), so a shape that is not proposed has an
  earlier one that is (`ProposalFacts`). A column that is no `Ambiguous` one resolves to
  its own table (`Resolved`), so the first shape of a table begins with all columns it
  compares for equality (`FirstShapeServes`), and what stands for it when it is not
  proposed itself serves as well, because an index serves whatever its beginning serves
  (`PrefixServes`).
- **MigrationProofs**: `TypeOK`, `CycleSearchIsExact`, `ParentsFirst` and `OnceEach` for
  every finite or infinite set of revisions, and `AllReplayed`, which completes
  `ReplayedInOrder`, for every finite one. A revision is *doomed*
  when it is in a set each of whose members revises another; the search's
  invariant (`Explored`) is that no parent a call has dealt with is doomed, and of
  the revisions the search has started from only that of the current walk may
  be. A call that returns has dealt with all its parents, so its own revision is not
  doomed; when nothing is left to start from, nothing is, and the graph has no
  cycle. In the replay (`Replaying`) a parent that was seen and is not in the order
  would still be on the stack, and the stack from there up would be a cycle
  (`StackFromIsCircle`), which the search has excluded. Hence `seen` is enough to
  put parents first. The replay starts from the one head only; whatever it left out would be
  revised by something else that it left out (`NothingLeftOut`), and a smallest set in which
  each is revised by another is one in which each revises another (`RevisedInCircle`), a cycle
  again. In an infinite set it need not be one, hence the restriction.
  SchemaReplay: the walk it begins with is that of RevisionGraph (`ReplayFollowsSearch`, a
  refinement), so its properties hold of it too (`ReplaySearch`, `WholeReplay`).
  `ReplayIsTheDatabase` (`ReplayedSchema`): as long as the replay has said of no statement that it
  could not read it, it has the tables of the database with their columns (`Agree`), one
  lemma per kind of statement, and while it has approximated none (`exact`) their
  required columns, and the constraints and indexes one by one under the name the replay
  gives them (`Matched`, `MatchedIndexes`): dropping a table or a column takes with it
  exactly those that name it. `RisksAreReported`
  (`RisksReported`): a statement that locks or loses data of a table older than the upgrade
  is reported and stays reported (`Told`), because the upgrade can come to have created
  that table only when its name was freed first (`Freed`), which is what the exceptions of
  the property are about (`Moved`).
- **SeedingProofs**: `LoadOrderIsSound` and `LoadedIsComplete` for any finite set of tables,
  any foreign keys and any scale. The search's invariant (`SearchInv`) relates its three
  records: stack and frames are in the order of the numbers given (`Ascending`), a frame's
  table reaches all that is above it on the stack and its low point is at most theirs
  (`FrameFacts`), a low point is the number of a table on the stack that is reached and
  below the own number of a table that is finished (`LowFacts`). Hence when a table
  finishes with its own number as low point, what is popped is its class (`PoppedIsClass`):
  every table above it leads back down to it, as the one that leads back with the
  least number would have a lower low point otherwise. Tables left with none ready would
  contain one that reaches the fewest, which waits for one that reaches fewer still
  (`SomeTableIsReady`), as no remaining reference leads back (`CycleFacts`). A table the load
  is through with is short of rows only for a reason that the rest of the load cannot
  touch, because its parents come before it (`LoadedFacts`). Least elements of sets of
  numbers and of finite sets (`LeastElement`, `WFMin`) stand for induction in all of this.
  `CopyIsAccepted` for every schema, scale and CHECK of the recognized
  kinds. A deferred column may hold NULL (`LoadFacts`); the recognizer's range is that of
  the CHECK when each direction is bounded once (`BoundsAreTheirs`), so every value the plan
  picks from it satisfies the CHECK (`PlannedValues`).

- **DesignProofs**: `FindingsAreReal`, `RefusalsAreForetold`, `ArtifactsAgree` and
  `AnswersCount`, for any tables, classes, histories, questions and answers. They assume
  that a relationship or a key has a table to refer to and a key a column of its table
  (`ProjectsAssumption`), that modules and questions have a place each in their order
  (`PlaceAssumption`, `QuestionsAssumption`), and that no tenant model is called like an
  answer that is none (`TenantAssumption`). What a review holds is of the project and the
  file as they are, because no step of the plan and no interview comes in between, and
  what it publishes is what it found (`ReviewFacts`). A step to validate a key finds it in
  the database or waits for the step that adds it (`TodoFacts`), so only adding a key is
  ever refused, and for something `Missing` or unsupported (`RefusedIsNamed`). No step of
  a plan changes what a review names, as it adds no table and no column. The drawing is
  refused only for a key in the database (`DrawingHolds`), since a pair of the models ends
  at classes. Outside write_text the file holds what was told, and a draft what was said
  since and else what was told (`InterviewInv`), because what is read back is what was
  written (`FromTo`).

Every invariant and every action property of a run is a theorem. Only model-checked are the
liveness properties (`Terminates` twice, `Converges`), as liveness under fairness is outside
what the prover handles. Digests are taken as equality of what is hashed in models and
proofs alike.

## 5. What the code does otherwise than its documents say

Each of them shows as an assumption or an exception in a model, named here so that
nobody takes the passing run for more than it shows.

- ContainerRun: the poll loop takes a failed `docker inspect` for the end of the
  command (`docker.py:277`), reads 0 as the exit code of the running container,
  removes it by force and reports success, against `ports/runner.py:31-32` (captured
  files are read "once the container has stopped"). With `"inspect"` in `MayFail`
  `SuccessIsReal` fails.
- DecisionLog: two concurrent `PUT /decisions` read the same log; the second write
  drops the first decision after its 200 answer, against `decisions.py:47` ("append-only").
  With `MaxConcurrent = 2` `AnsweredAreLogged` fails.
- CleanRuns: `clean --runs` lists live runs too (`clean.py:24-27`, whose name says
  "stale"). Such a run makes its directory again and can end with a manifest over a log
  or a result.json that lacks what was removed; `underway` keeps these runs out of the
  second half of `CleanedRunsAreConsistent`.
- ReviewCache: a file edited between its hashing and its parsing, or a migration
  file the inventory leaves out (`inspect.py:40` globs the directory), is stored
  under a key that does not cover it, against `review.py:90-91`. With
  `EditsDuringReview = TRUE`, or `Inventoried` without a migration, `HitIsFresh` fails.
- DecisionLog: the hash of the evidence covers the run id and the time of the
  review, so any later review reactivates a rejected decision, against
  `decisions.py:3-4`. `ReactivatedByReview` says it as the code does it.
- Capture: an interrupt inside the start of the network or of the database
  leaves them behind, against TECHNICAL_DESIGN.md:687 (`cut` in `ReleasedAtEnd`);
  the stage is logged complete before `schema.json` is written, against
  ARCHITECTURE.md:498; `clean` removes containers of live captures (`clean.py:45`).
- Experiment: a failing SET leaves the settings before it in the session
  (`run.py:73-75`; with `"set"` in `MayFail` `LeavesNoTrace` fails), and a stop between apply
  and revert leaves the candidate in the database for the next measurement's
  controls (`run.py:147-148`; `abandoned` in `LeavesNoTrace`).
- TestSession: an `id()` that is reused merges two transactions, and a COMMIT the
  server refuses is recorded as one (`capture_event.py:92-98`; `Unshared` and
  "refused" in `TransactionsAreReal`); statements between tests belong to the previous
  teardown and those of other threads to no test (`plugin.py:207-209`); a
  treatment whose process was killed, or whose calls were all skipped, can be
  verified (`compare.py:6-10`).
- ProofBundle: a directory that is written again keeps the old manifest until
  the end of the write (`bundle.py:22-24`, hence `writes <= 1` in
  `ManifestMeansFinished`), a concurrent read may load another bundle's files than it
  hashed, and an empty `proof.yaml` raises instead of being refused.
- Reproduction: the docstring promises the configured improvement threshold and
  compatible tool versions; `_evaluate` compares the ratio with 1 and only
  `schema_version` is checked. The schema is committed before `dataset.yaml` is
  validated (`reproduce.py:160`), so one failed attempt makes every later one on that
  database fail.
- IndexCandidates: a comparison that does not resolve to one column is said to get no
  predicate (`extract.py:8-10`), but `_resolve_column` takes the first relation
  (`Ambiguous` in `CandidatesServeTheQuery`); the budget of five is per query, so one
  table's single columns can push out another's composite (`generate.py:115-117`);
  `a = $1 AND a = $2` gives a candidate that names the column twice. The baseline of a
  screening is estimated before any reset, with what a failed screening left behind
  (`screen.py:96`; `broken` in `EstimatesAreComparable`).
- SchemaReplay (`exact`, `unsupported`, `Hidden` and `CreatedAgain` in the two properties):
  a composite primary key in `create_table` keeps its last column only; an inline
  `sa.ForeignKey` is not read; renaming a table, and dropping or renaming a column,
  leave constraints as they were; constraints are keyed by name over all tables;
  a default primary key name differs from the database's; autogenerate's inline
  constraints make a whole `create_table` unsupported; `depends_on` is ignored.
  `create_primary_key` and a change of nullability are no known risks, and
  `drop column, rename table, create table` loses data unreported (`risk.py:141-145`).
- Design: six documents are written before `build_graph` may refuse the seventh
  (`ArtifactsAgree`); indexes made by raw SQL are not seen, and with an ambiguous revision
  graph every relationship is recommended (`FindingsAreReal`); the side of a one-to-one that
  holds no key, when only its annotation says so, is taken for the many side of a
  many-to-one (`sqlalchemy_static.py:637-638`), against `reconciliation.py:23-25`
  ("only covers the unambiguous many-to-one side"), and the plan adds a key that no column
  holds (`source[step.on].ref = None` in `RefusalsAreForetold`); a plain class attribute that
  is no call is reported unsupported although `sqlalchemy_static.py:385-393` says it is
  ignored; recommendation ids are positions, so SCHEMA-001 names another object once the
  first is applied; the validator of a migration plan accepts cycles, against
  `tests/unit/test_migration_plan.py:142-147`.
- Interview: an unknown and an invalid text count as answered and are never asked
  again, while reviews go on listing the question (`AnswersCount`); a tenant model is
  stored unvalidated; the tenant question is skipped when only the physical schema has the
  column; a round trip drops `requires_read_after_write = false`; `write_config` truncates
  before it writes and overwrites edits made during the interview.
- Seeding (exceptions of `CopyIsAccepted` and `LoadedIsComplete`): the deferred foreign key
  columns of rows that were there before are overwritten (`load.py:129-148`, against 8-10);
  a unique column of an unsupported type is reported and generated all the same; the
  columns of a composite foreign key get made-up values (`plan.py:655-660`); a cycle with
  one nullable and one required key is dropped whole; sequences are synchronised after
  COPY only; of two bounds of one direction the last counts (`plan.py:253-289`); a
  range over a column that is not an integer is dropped silently; uniqueness and boolean
  precede a recognised CHECK.

## 6. What is not modelled

- *Of components with a model*: the staging copy's contents, image building and the
  environment of the container (runner); containers found by `doctor`
  (capture); routes that only read (local API); the statistics
  of a benchmark beyond "conclusive or not" (experiment); statements of threads a test
  starts, which have no node and leave no event (`plugin.py:206`), and several pytest
  processes (plugin); the classes of repeated statements (`amplification.py`); a torn
  last line of `events.ndjson` (`append_line_durable` is one step); two foreign keys of one
  column, and sampling with replacement under a unique foreign key (seeder);
  `topological_order`, `diff_recommendations` and `canonical_sql`, which nothing under
  `src/` calls or which render text (plan and scenarios); columns of the diagram.
- *Without state*: SQL parsing, plans and the catalog, parameter probing and
  architecture facts. They read one thing and return another; models that use
  them take their result.
- *Pure input and output*: reports, sharing, rendering, environment checks, generated
  contracts and the viewer's types; `scripts/`, which measures fixtures.

## 7. Plan

Done, in this order: the store, the run session, the runner, the capture, the
review cache, the decision log, the experiment, the test session, the proof
bundle, the revision graph; then the seeder, the replay and its risks, the review from
models to documents with the interview and the plan, candidates and screening,
reproduction, and `clean --runs`.

The invariants and action properties of all runs are proved. What is left open is proofs
of the three liveness properties.
