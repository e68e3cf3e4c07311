------------------------------ MODULE Capture ------------------------------
(***************************************************************************)
(* `pgproof capture` (cli/commands/capture.py over application/capture.py  *)
(* and adapters/postgres/lifecycle.py): several invocations on one         *)
(* project, each driving a RunSession, a docker network and a disposable   *)
(* database, with docker calls that fail, interrupts, kills and a          *)
(* `pgproof clean --containers` in another terminal.  runner.run is one    *)
(* step here; ContainerRun is that step in detail.                         *)
(***************************************************************************)
EXTENDS RunSession

CONSTANTS
  MigrationSandbox, QueryCapture,  \* the two stages of a capture
  SchemaPath, WorkloadPath         \* the two artifacts it records

ASSUME StagesAssumption ==
  {MigrationSandbox, QueryCapture} \subseteq Stages /\ MigrationSandbox # QueryCapture
ASSUME PathsAssumption ==
  {SchemaPath, WorkloadPath} \subseteq Shared /\ SchemaPath # WorkloadPath

VARIABLES
  pc,          \* the step each invocation is about to take
  network,     \* its docker network: "none", "up", "removed"
  db,          \* its database container: see Containers
  migration,   \* what is known of its migration command
  tests,       \* what is known of its test command
  rawEvents,   \* its query events are in its run directory
  leaks,       \* history: see Leaks
  listed       \* the containers `pgproof clean` showed to its user

capture == <<pc, network, db, migration, tests, rawEvents, leaks, listed>>
docker == <<network, db, leaks, listed>>
results == <<migration, tests, rawEvents>>
allVars == <<vars, capture>>

\* "created": docker run -d failed after creating the container.
Containers == {"none", "created", "up", "joined", "removed"}
Removable == {"created", "up", "joined"}

\* What went wrong with the docker calls of a capture's set-up and clean-up:
\* "run": docker run -d failed and left a created container; "start": start()
\* was left by an exception of no handler, after docker run; "rm", "create",
\* "network_rm": the call failed or was cut short.
Leaks == {"run", "start", "rm", "create", "network_rm"}

Outcomes == {"none", "succeeded", "failed", "unavailable"}
Coverage == {"none", "complete", "partial"}

SetUp == {"start_stage", "run_db", "join_db", "await_db"}
WithDatabase == {"migrate", "introspect", "test"}
Reporting == {"fail_stage", "report_migration", "record_schema", "start_queries",
              "write_events", "record_workload", "end_queries", "finish"}
Steps == {"create_network", "stop_db", "remove_network"} \cup SetUp \cup WithDatabase \cup Reporting
Over == {"end", "killed"}

CaptureTypeOK ==
  /\ pc \in [Runs -> Steps \cup Over]
  /\ network \in [Runs -> {"none", "up", "removed"}]
  /\ db \in [Runs -> Containers]
  /\ migration \in [Runs -> Outcomes]
  /\ tests \in [Runs -> Coverage]
  /\ rawEvents \in [Runs -> BOOLEAN]
  /\ leaks \in [Runs -> SUBSET Leaks]
  /\ listed \subseteq Runs

CaptureInit ==
  /\ Init
  /\ pc = [r \in Runs |-> "create_network"]
  /\ network = [r \in Runs |-> "none"]
  /\ db = [r \in Runs |-> "none"]
  /\ migration = [r \in Runs |-> "none"]
  /\ tests = [r \in Runs |-> "none"]
  /\ rawEvents = [r \in Runs |-> FALSE]
  /\ leaks = [r \in Runs |-> {}]
  /\ listed = {}

At(r, step) == pc[r] = step /\ (phase[r] = "open" => Idle(r))
Goto(r, step) == pc' = [pc EXCEPT ![r] = step]
Note(r, leak) == leaks' = [leaks EXCEPT ![r] = @ \cup {leak}]

\* An exception no handler of the command names: the session is abandoned.
Raise(r, step) == Die(r) /\ Goto(r, step)

(***************************************************************************)
(* The network and the database                                            *)
(***************************************************************************)

\* Nothing looks at the result of `docker network create`.
CreateNetwork(r) ==
  /\ At(r, "create_network")
  /\ network' \in {network, [network EXCEPT ![r] = "up"]}
  /\ Goto(r, "start_stage")
  /\ UNCHANGED <<vars, db, results, leaks, listed>>

StartStage(r) ==
  /\ At(r, "start_stage")
  /\ Transition(r, MigrationSandbox, "running")
  /\ Goto(r, "run_db")
  /\ UNCHANGED <<docker, results>>

\* docker run -d; a failing one may leave a created container, and raises
\* DatabaseUnavailableError past every handler.
RunDatabase(r) ==
  /\ At(r, "run_db")
  /\ \/ /\ db' = [db EXCEPT ![r] = "up"]
        /\ Goto(r, "join_db")
        /\ UNCHANGED <<vars, leaks>>
     \/ /\ Raise(r, "remove_network")
        /\ \/ UNCHANGED <<db, leaks>>
           \/ db' = [db EXCEPT ![r] = "created"] /\ Note(r, "run")
  /\ UNCHANGED <<network, results, listed>>

\* docker rm -f: nothing looks at its result.
RemoveContainer(r) ==
  \/ db' = [db EXCEPT ![r] = "removed"] /\ UNCHANGED leaks
  \/ UNCHANGED db /\ Note(r, "rm")

\* start() after docker run: each failure removes the container, then raises.
FailDatabase(r) ==
  /\ RemoveContainer(r)
  /\ Raise(r, "remove_network")
  /\ UNCHANGED <<network, results, listed>>

JoinDatabase(r) ==
  /\ At(r, "join_db")
  /\ \/ /\ network[r] = "up" /\ db[r] = "up"
        /\ db' = [db EXCEPT ![r] = "joined"]
        /\ Goto(r, "await_db")
        /\ UNCHANGED <<vars, network, results, leaks, listed>>
     \/ FailDatabase(r)

\* The published port is asked for, then the server until it answers.
AwaitDatabase(r) ==
  /\ At(r, "await_db")
  /\ \/ /\ db[r] = "joined"
        /\ Goto(r, "migrate")
        /\ UNCHANGED <<vars, docker, results>>
     \/ FailDatabase(r)

(***************************************************************************)
(* run_capture, while the database is up                                   *)
(***************************************************************************)

\* runner.run returns an outcome, or raises RunnerUnavailableError, which the
\* command handles, or RunnerBuildError, which it does not.
Migrate(r) ==
  /\ At(r, "migrate")
  /\ \/ \E o \in Outcomes \ {"none"} :
          /\ migration' = [migration EXCEPT ![r] = o]
          /\ Goto(r, IF o = "succeeded" THEN "introspect" ELSE "stop_db")
          /\ UNCHANGED vars
     \/ Raise(r, "stop_db") /\ UNCHANGED migration
  /\ UNCHANGED <<docker, tests, rawEvents>>

Introspect(r) ==
  /\ At(r, "introspect")
  /\ \/ db[r] = "joined" /\ Goto(r, "test") /\ UNCHANGED vars
     \/ Raise(r, "stop_db")
  /\ UNCHANGED <<docker, results>>

\* _capture_coverage tells a complete capture from a partial one. The
\* schema that was read is lost with a RunnerUnavailableError.
RunTests(r) ==
  /\ At(r, "test")
  /\ \/ /\ tests' \in {[tests EXCEPT ![r] = c] : c \in Coverage \ {"none"}}
        /\ Goto(r, "stop_db")
        /\ UNCHANGED <<vars, migration>>
     \/ /\ migration' = [migration EXCEPT ![r] = "unavailable"]
        /\ Goto(r, "stop_db")
        /\ UNCHANGED <<vars, tests>>
     \/ Raise(r, "stop_db") /\ UNCHANGED <<migration, tests>>
  /\ UNCHANGED <<docker, rawEvents>>

\* (fault) the database is stopped only when run_capture returns.
StopDatabase_OnReturn(r) ==
  /\ At(r, "stop_db")
  /\ IF phase[r] = "dead" THEN UNCHANGED <<db, leaks>> ELSE RemoveContainer(r)
  /\ Goto(r, CASE phase[r] = "dead" -> "remove_network"
               [] phase[r] # "dead" /\ migration[r] = "unavailable" -> "fail_stage"
               [] OTHER -> "report_migration")
  /\ UNCHANGED <<vars, network, results, listed>>

\* The finally of run_capture.
StopDatabase(r) ==
  /\ At(r, "stop_db")
  /\ RemoveContainer(r)
  /\ Goto(r, CASE phase[r] = "dead" -> "remove_network"
               [] phase[r] # "dead" /\ migration[r] = "unavailable" -> "fail_stage"
               [] OTHER -> "report_migration")
  /\ UNCHANGED <<vars, network, results, listed>>

(***************************************************************************)
(* The report                                                              *)
(***************************************************************************)

\* (fault) a runner that went away leaves the stage as it was.
FailStage_Skipped(r) ==
  /\ At(r, "fail_stage")
  /\ Goto(r, "finish")
  /\ UNCHANGED <<vars, docker, results>>

\* except RunnerUnavailableError
FailStage(r) ==
  /\ At(r, "fail_stage")
  /\ Transition(r, MigrationSandbox, "failed")
  /\ Goto(r, "finish")
  /\ UNCHANGED <<docker, results>>

\* (fault) a failed migration is reported like any other.
ReportMigration_Unchecked(r) ==
  /\ At(r, "report_migration")
  /\ Transition(r, MigrationSandbox, "complete") /\ Goto(r, "record_schema")
  /\ UNCHANGED <<docker, results>>

\* _report_migration: the stage ends before its artifact is written.
ReportMigration(r) ==
  /\ At(r, "report_migration")
  /\ IF migration[r] = "succeeded"
       THEN Transition(r, MigrationSandbox, "complete") /\ Goto(r, "record_schema")
       ELSE Transition(r, MigrationSandbox, "failed") /\ Goto(r, "finish")
  /\ UNCHANGED <<docker, results>>

RecordSchema(r) ==
  /\ At(r, "record_schema")
  /\ WriteArtifact(r, SchemaPath)
  /\ Goto(r, "start_queries")
  /\ UNCHANGED <<docker, results>>

\* (fault) the stage of the queries is not started.
StartQueries_Skipped(r) ==
  /\ At(r, "start_queries")
  /\ Goto(r, "write_events")
  /\ UNCHANGED <<vars, docker, results>>

\* _report_test_capture
StartQueries(r) ==
  /\ At(r, "start_queries")
  /\ Transition(r, QueryCapture, "running")
  /\ Goto(r, "write_events")
  /\ UNCHANGED <<docker, results>>

\* (fault) the raw events are only written for a complete capture.
WriteEvents_CompleteOnly(r) ==
  /\ At(r, "write_events")
  /\ rawEvents' = [rawEvents EXCEPT ![r] = tests[r] = "complete"]
  /\ Goto(r, "record_workload")
  /\ UNCHANGED <<vars, docker, migration, tests>>

WriteEvents(r) ==
  /\ At(r, "write_events")
  /\ rawEvents' = [rawEvents EXCEPT ![r] = TRUE]
  /\ Goto(r, "record_workload")
  /\ UNCHANGED <<vars, docker, migration, tests>>

RecordWorkload(r) ==
  /\ At(r, "record_workload")
  /\ WriteArtifact(r, WorkloadPath)
  /\ Goto(r, "end_queries")
  /\ UNCHANGED <<docker, results>>

EndQueries(r) ==
  /\ At(r, "end_queries")
  /\ Transition(r, QueryCapture, tests[r])
  /\ Goto(r, "finish")
  /\ UNCHANGED <<docker, results>>

Finish(r) ==
  /\ At(r, "finish")
  /\ WriteResult(r)
  /\ Goto(r, "remove_network")
  /\ UNCHANGED <<docker, results>>

\* The finally of capture: docker refuses to remove a network that a container
\* is still connected to (the database, or one that runner.run left behind), may
\* fail otherwise, and nothing looks at the result.
RemoveNetwork(r) ==
  /\ At(r, "remove_network") /\ phase[r] # "finishing"
  /\ \/ /\ network' = [network EXCEPT ![r] = IF @ = "up" /\ db[r] # "joined" THEN "removed" ELSE @]
        /\ UNCHANGED leaks
     \/ UNCHANGED network /\ Note(r, "network_rm")
  /\ Goto(r, "end")
  /\ UNCHANGED <<vars, db, results, listed>>

\* The second halves of the session's calls, before the next step. A
\* manifest RunManifest refuses is an exception.
SessionContinues(r) == Continue(r) /\ UNCHANGED capture

(***************************************************************************)
(* Exceptions, kills, and `pgproof clean --containers`                     *)
(***************************************************************************)

\* What the docker call in progress may have done by the time it is cut.
PartialEffect(r) ==
  CASE pc[r] = "create_network" -> {<<"up", db[r]>>, <<network[r], db[r]>>}
    [] pc[r] = "run_db" -> {<<network[r], c>> : c \in {"none", "created", "up"}}
    [] pc[r] = "join_db" /\ network[r] = "up" /\ db[r] = "up" ->
         {<<network[r], c>> : c \in {"up", "joined"}}
    [] pc[r] = "stop_db" -> {<<network[r], c>> : c \in {db[r], "removed"}}
    [] pc[r] = "remove_network" /\ db[r] # "joined" /\ network[r] = "up" ->
         {<<n, db[r]>> : n \in {"up", "removed"}}
    [] OTHER -> {<<network[r], db[r]>>}

InDockerCall(r) ==
  /\ pc[r] \in {"create_network", "stop_db", "remove_network"} \cup (SetUp \ {"start_stage"})
  /\ phase[r] = "open" => Idle(r)

Unwound(step) ==
  CASE step \in {"create_network", "remove_network"} -> "end"
    [] step \in WithDatabase -> "stop_db"
    [] OTHER -> "remove_network"

\* The leak that an exception at a docker call leads to: start() has no finally.
LeakAt(step) ==
  CASE step = "create_network" -> "create"
    [] step = "stop_db" -> "rm"
    [] step = "remove_network" -> "network_rm"
    [] OTHER -> "start"

\* KeyboardInterrupt, an OSError of a write, an exception of psycopg that start()
\* does not name: the finally clauses from here outwards run.
Interrupt(r) ==
  /\ pc[r] \in Steps /\ phase[r] # "finishing"
  /\ phase' = [phase EXCEPT ![r] = IF @ = "open" THEN "dead" ELSE @]
  /\ Goto(r, Unwound(pc[r]))
  /\ \E effect \in IF InDockerCall(r) THEN PartialEffect(r) ELSE {<<network[r], db[r]>>} :
       /\ network' = [network EXCEPT ![r] = effect[1]]
       /\ db' = [db EXCEPT ![r] = effect[2]]
  /\ IF InDockerCall(r) THEN Note(r, LeakAt(pc[r])) ELSE UNCHANGED leaks
  /\ UNCHANGED <<stages, unlogged, events, files, unlisted, entries, result, manifest, late>>
  /\ UNCHANGED <<results, listed>>

\* An exception between result.json and manifest.json.
FailToFinish(r) ==
  /\ phase[r] = "finishing"
  /\ Raise(r, "remove_network")
  /\ UNCHANGED <<docker, results>>

Kill(r) ==
  /\ pc[r] \in Steps
  /\ phase' = [phase EXCEPT ![r] = IF @ = "finished" THEN @ ELSE "dead"]
  /\ Goto(r, "killed")
  /\ UNCHANGED <<stages, unlogged, events, files, unlisted, entries, result, manifest, late>>
  /\ UNCHANGED <<docker, results>>

\* find_orphaned_containers: every container with pgproof's label.
ListContainers ==
  /\ listed = {}
  /\ listed' = {r \in Runs : db[r] \in Removable}
  /\ UNCHANGED <<vars, pc, network, db, results, leaks>>

\* remove_containers, once the user has confirmed what was shown.
RemoveListed ==
  /\ listed # {}
  /\ db' = [r \in Runs |-> IF r \in listed /\ db[r] \in Removable THEN "removed" ELSE db[r]]
  /\ listed' = {}
  /\ UNCHANGED <<vars, pc, network, results, leaks>>

CaptureStep(r) ==
  \/ CreateNetwork(r) \/ StartStage(r) \/ RunDatabase(r) \/ JoinDatabase(r)
  \/ AwaitDatabase(r) \/ Migrate(r) \/ Introspect(r) \/ RunTests(r)
  \/ StopDatabase(r) \/ FailStage(r) \/ ReportMigration(r) \/ RecordSchema(r)
  \/ StartQueries(r) \/ WriteEvents(r) \/ RecordWorkload(r) \/ EndQueries(r)
  \/ Finish(r) \/ RemoveNetwork(r) \/ SessionContinues(r)

CaptureNext ==
  \/ \E r \in Runs : CaptureStep(r) \/ Interrupt(r) \/ FailToFinish(r) \/ Kill(r)
  \/ ListContainers \/ RemoveListed

CaptureSpec == CaptureInit /\ [][CaptureNext]_allVars

(***************************************************************************)
(* Properties                                                              *)
(***************************************************************************)

\* The paths a run has recorded, listed or about to be.
Has(r, path) ==
  LET recorded == entries[r] \o unlisted[r] IN
  \E k \in DOMAIN recorded : recorded[k].path = path

\* The call each step is about to make is one its session accepts: what
\* validate_stage_transition and RunManifest raise on is never asked for
\* (domain/stages.py:105-115, domain/manifest.py:56-61), and a finish leaves
\* nothing running and is the last call.
SessionUsedAsMeant ==
  \A r \in Runs :
    /\ r \notin late
    /\ phase[r] = "open" /\ Idle(r) =>
         LET may(s) == AllowedTransitions(stages[r][s]) IN
         /\ pc[r] = "start_stage" => "running" \in may(MigrationSandbox)
         /\ pc[r] \in {"fail_stage", "report_migration"} =>
              {"failed", "complete"} \subseteq may(MigrationSandbox)
         /\ pc[r] = "record_schema" => ~Has(r, SchemaPath)
         /\ pc[r] = "start_queries" => "running" \in may(QueryCapture)
         /\ pc[r] = "record_workload" => ~Has(r, WorkloadPath)
         /\ pc[r] = "end_queries" => tests[r] \in may(QueryCapture)
         /\ pc[r] = "finish" => \A s \in Stages : stages[r][s] # "running"

Lists(r, path) == \E k \in DOMAIN manifest[r] : manifest[r][k].path = path

\* A manifest never covers a stage that is still running, and one that lists
\* a schema says that its stage is complete (TECHNICAL_DESIGN.md:689).
ManifestedStagesEnded ==
  \A r \in Runs : manifest[r] # <<>> =>
    /\ \A s \in Stages : result[r][1][s] # "running"
    /\ Lists(r, SchemaPath) => result[r][1][MigrationSandbox] = "complete"

\* analysis/schema.json always comes from a run whose migrations succeeded:
\* application/capture.py:14-19, "failed migrations produce no
\* physical-analysis manifest".
SchemaIsMigrated ==
  files[SchemaPath] # <<>> => migration[files[SchemaPath][1][1]] = "succeeded"

\* A listed workload has, of the same run, its schema and its raw events, and
\* its stage says how complete it is (cli/commands/capture.py:219-257).
WorkloadIsAccountedFor ==
  \A r \in Runs : Lists(r, WorkloadPath) =>
    /\ Lists(r, SchemaPath) /\ rawEvents[r]
    /\ result[r][1][QueryCapture] = tests[r]

\* What a capture reports of its stages, its schema and its workload is so.
ReportIsTrue == ManifestedStagesEnded /\ SchemaIsMigrated /\ WorkloadIsAccountedFor

Released(r) == network[r] # "up" /\ db[r] \in {"none", "removed"}

\* Whatever fails or is interrupted, a run that ends leaves a database behind only
\* if docker run left it, if start() was left by an exception after docker run, or
\* if its removal failed; and a network only if creating or removing it failed, or
\* because the database left behind is connected to it (lifecycle.py:99-146,
\* capture.py:135-174).
ReleasedAtEnd ==
  \A r \in Runs : pc[r] = "end" =>
    /\ db[r] \in Removable => leaks[r] \cap {"run", "start", "rm"} # {}
    /\ network[r] = "up" => leaks[r] \cap {"create", "network_rm", "start", "rm"} # {}

\* What TECHNICAL_DESIGN.md:683-687 says of an interrupted command, "owned
\* containers and network stop", as long as no docker call fails.
InterruptReleases ==
  \A r \in Runs : pc[r] = "end" /\ leaks[r] \subseteq {"start"} => Released(r)
=============================================================================
