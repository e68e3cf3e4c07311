---------------------------- MODULE RunSession ----------------------------
(***************************************************************************)
(* store/run.py, store/artifacts.py, store/manifest.py and the stage       *)
(* transitions of domain/stages.py: what a run keeps in memory, what it    *)
(* puts on disk, and in which order.  Several runs (CLI invocations) share *)
(* the analysis artifacts of one project.  A single file write is atomic   *)
(* (AtomicWrite); a process may die between any two of them.               *)
(*                                                                         *)
(* The document a run writes at a path holds its run id and creation time, *)
(* so two writes never have the same bytes: <<run, number>> stands for the *)
(* bytes and for their hash.  An optional value is <<>> or <<value>>.      *)
(***************************************************************************)
EXTENDS Naturals, Sequences

CONSTANTS
  Runs,        \* run ids
  Stages,      \* stage names
  Shared,      \* paths of the artifacts all runs write (analysis/, diagrams/)
  MaxWrites    \* bound: a run records an artifact, or calls finish, while it has
               \* recorded fewer, or no more, than MaxWrites

ASSUME MaxWritesAssumption == MaxWrites \in Nat

VARIABLES
  phase,       \* "open", "finishing" (in finish), "finished" (finish is over; nothing
               \* keeps the session from being called again), "dead"
  stages,      \* RunSession._stages, in memory
  unlogged,    \* the event of a transition that is not yet in events.ndjson
  events,      \* events.ndjson
  files,       \* the document at each path
  unlisted,    \* the entry of a written artifact not yet in _manifest_entries
  entries,     \* RunSession._manifest_entries
  result,      \* the stages in result.json
  manifest,    \* the entries in manifest.json; <<>> while there is none
  late         \* history: the runs that were called again after their finish

vars == <<phase, stages, unlogged, events, files, unlisted, entries, result, manifest, late>>

Optional(S) == {<<>>} \cup {<<x>> : x \in S}

ResultPath(r) == <<"result", r>>

\* run_result_path is under runs/<run id>/, no artifact's path.
ASSUME ResultPathAssumption == \A r \in Runs : ResultPath(r) \notin Shared

Paths == Shared \cup {ResultPath(r) : r \in Runs}

Terminal == {"complete", "partial", "failed", "cancelled"}
Statuses == {"pending", "running"} \cup Terminal
StageMaps == [Stages -> Statuses]
Events == [stage : Stages, kind : Statuses \ {"pending"}]
Documents == Runs \X (1..(MaxWrites + 1))
Entries == [path : Paths, hash : Documents]

TypeOK ==
  /\ phase \in [Runs -> {"open", "finishing", "finished", "dead"}]
  /\ stages \in [Runs -> StageMaps]
  /\ unlogged \in [Runs -> Optional(Events)]
  /\ events \in [Runs -> Seq(Events)]
  /\ files \in [Paths -> Optional(Documents)]
  /\ unlisted \in [Runs -> Optional(Entries)]
  /\ entries \in [Runs -> Seq(Entries)]
  /\ result \in [Runs -> Optional(StageMaps)]
  /\ manifest \in [Runs -> Seq(Entries)]
  /\ late \subseteq Runs
  /\ \A r \in Runs : Len(entries[r]) + Len(unlisted[r]) <= MaxWrites + 1

Init ==
  /\ phase = [r \in Runs |-> "open"]
  /\ stages = [r \in Runs |-> [s \in Stages |-> "pending"]]
  /\ unlogged = [r \in Runs |-> <<>>]
  /\ events = [r \in Runs |-> <<>>]
  /\ files = [p \in Paths |-> <<>>]
  /\ unlisted = [r \in Runs |-> <<>>]
  /\ entries = [r \in Runs |-> <<>>]
  /\ result = [r \in Runs |-> <<>>]
  /\ manifest = [r \in Runs |-> <<>>]
  /\ late = {}

\* A run makes one call at a time: it is between two of them.  finish closes
\* nothing, so a session takes calls after it, too.
Idle(r) == phase[r] \in {"open", "finished"} /\ unlogged[r] = <<>> /\ unlisted[r] = <<>>

NoteLate(r) == late' = IF phase[r] = "finished" THEN late \cup {r} ELSE late

(***************************************************************************)
(* Stage transitions                                                       *)
(***************************************************************************)

\* (fault) a terminal stage may be opened again.
AllowedTransitions_Reopen(status) ==
  CASE status = "pending" -> {"running", "cancelled"}
    [] status = "running" -> Terminal
    [] OTHER -> {"running"}

AllowedTransitions(status) ==
  CASE status = "pending" -> {"running", "cancelled"}
    [] status = "running" -> Terminal
    [] OTHER -> {}

\* _transition: the new status is in memory before its event is in the log.
\* An illegal transition raises before either.
Transition(r, s, status) ==
  /\ Idle(r)
  /\ status \in AllowedTransitions(stages[r][s])
  /\ stages' = [stages EXCEPT ![r][s] = status]
  /\ unlogged' = [unlogged EXCEPT ![r] = <<[stage |-> s, kind |-> status]>>]
  /\ NoteLate(r)
  /\ UNCHANGED <<phase, events, files, unlisted, entries, result, manifest>>

LogEvent(r) ==
  /\ phase[r] # "dead" /\ unlogged[r] # <<>>
  /\ events' = [events EXCEPT ![r] = events[r] \o unlogged[r]]
  /\ unlogged' = [unlogged EXCEPT ![r] = <<>>]
  /\ UNCHANGED <<phase, stages, files, unlisted, entries, result, manifest, late>>

(***************************************************************************)
(* Artifacts and the end of the run                                        *)
(***************************************************************************)

NextDocument(r) == <<r, Len(entries[r]) + 1>>

\* record_artifact, first half: the file is replaced.
WriteArtifact(r, p) ==
  /\ Idle(r)
  /\ Len(entries[r]) < MaxWrites
  /\ files' = [files EXCEPT ![p] = <<NextDocument(r)>>]
  /\ unlisted' = [unlisted EXCEPT ![r] = <<[path |-> p, hash |-> NextDocument(r)]>>]
  /\ NoteLate(r)
  /\ UNCHANGED <<phase, stages, unlogged, events, entries, result, manifest>>

\* record_artifact, second half: its entry joins the manifest in memory.
ListArtifact(r) ==
  /\ phase[r] # "dead" /\ unlisted[r] # <<>>
  /\ entries' = [entries EXCEPT ![r] = entries[r] \o unlisted[r]]
  /\ unlisted' = [unlisted EXCEPT ![r] = <<>>]
  /\ UNCHANGED <<phase, stages, unlogged, events, files, result, manifest, late>>

\* (fault) result.json is not recorded as an artifact.
WriteResult_Unlisted(r) ==
  /\ Idle(r) /\ Len(entries[r]) <= MaxWrites
  /\ phase' = [phase EXCEPT ![r] = "finishing"]
  /\ result' = [result EXCEPT ![r] = <<stages[r]>>]
  /\ files' = [files EXCEPT ![ResultPath(r)] = <<NextDocument(r)>>]
  /\ NoteLate(r)
  /\ UNCHANGED <<stages, unlogged, events, unlisted, entries, manifest>>

\* (fault) result.json is written while a stage event is still to be logged.
WriteResult_Early(r) ==
  /\ phase[r] \in {"open", "finished"} /\ unlisted[r] = <<>> /\ Len(entries[r]) <= MaxWrites
  /\ phase' = [phase EXCEPT ![r] = "finishing"]
  /\ result' = [result EXCEPT ![r] = <<stages[r]>>]
  /\ files' = [files EXCEPT ![ResultPath(r)] = <<NextDocument(r)>>]
  /\ unlisted' = [unlisted EXCEPT ![r] =
                    <<[path |-> ResultPath(r), hash |-> NextDocument(r)]>>]
  /\ NoteLate(r)
  /\ UNCHANGED <<stages, unlogged, events, entries, manifest>>

\* finish, first half: result.json, recorded like any artifact.
WriteResult(r) ==
  /\ Idle(r) /\ Len(entries[r]) <= MaxWrites
  /\ phase' = [phase EXCEPT ![r] = "finishing"]
  /\ result' = [result EXCEPT ![r] = <<stages[r]>>]
  /\ files' = [files EXCEPT ![ResultPath(r)] = <<NextDocument(r)>>]
  /\ unlisted' = [unlisted EXCEPT ![r] =
                    <<[path |-> ResultPath(r), hash |-> NextDocument(r)]>>]
  /\ NoteLate(r)
  /\ UNCHANGED <<stages, unlogged, events, entries, manifest>>

\* (fault) RunManifest accepts any entries.
UniquePaths_Unchecked(es) == TRUE

\* RunManifest._validate_unique_paths
UniquePaths(es) == \A j, k \in DOMAIN es : es[j].path = es[k].path => j = k

\* finish, second half: manifest.json, the last file of the run.
WriteManifest(r) ==
  /\ phase[r] = "finishing" /\ unlisted[r] = <<>>
  /\ UniquePaths(entries[r])
  /\ manifest' = [manifest EXCEPT ![r] = entries[r]]
  /\ phase' = [phase EXCEPT ![r] = "finished"]
  /\ UNCHANGED <<stages, unlogged, events, files, unlisted, entries, result, late>>

\* RunManifest refuses a path recorded twice: finish raises with result.json on
\* disk, and the manifest, or the lack of one, as it was.
RejectManifest(r) ==
  /\ phase[r] = "finishing" /\ unlisted[r] = <<>>
  /\ ~UniquePaths(entries[r])
  /\ phase' = [phase EXCEPT ![r] = "finished"]
  /\ UNCHANGED <<stages, unlogged, events, files, unlisted, entries, result, manifest, late>>

\* A kill, a failed write, or an exception the command does not handle.
Die(r) ==
  /\ phase[r] \in {"open", "finishing"}
  /\ phase' = [phase EXCEPT ![r] = "dead"]
  /\ UNCHANGED <<stages, unlogged, events, files, unlisted, entries, result, manifest, late>>

Call(r) ==
  \/ \E s \in Stages, status \in Statuses : Transition(r, s, status)
  \/ \E p \in Shared : WriteArtifact(r, p)
  \/ WriteResult(r)

Continue(r) == LogEvent(r) \/ ListArtifact(r) \/ WriteManifest(r) \/ RejectManifest(r)

Next == \E r \in Runs : Call(r) \/ Continue(r) \/ Die(r)

Spec == Init /\ [][Next]_vars

(***************************************************************************)
(* Properties                                                              *)
(***************************************************************************)

\* The last event of each stage in a log is the stage's status.
Agrees(log, status) ==
  \A s \in Stages :
    \/ status[s] = "pending" /\ \A k \in DOMAIN log : log[k].stage # s
    \/ \E k \in DOMAIN log :
         /\ log[k] = [stage |-> s, kind |-> status[s]]
         /\ \A j \in DOMAIN log : j > k => log[j].stage # s

\* The stages in memory are those of the log and the one event on its way to
\* it, however far the run has come (run.py:173-212).  RunSessionProofs proves
\* it; ResultAgreesWithLog is what a reader of the files sees of it.
MemoryAgreesWithLog == \A r \in Runs : Agrees(events[r] \o unlogged[r], stages[r])

\* result.json says of every stage what events.ndjson says last: the two
\* files a reader of a run can compare never disagree (run.py:145-171), but of
\* a session that went on after its finish.
ResultAgreesWithLog ==
  \A r \in Runs \ late : result[r] # <<>> => Agrees(events[r], result[r][1])

\* In the log a stage starts at most once and ends at most once, and nothing
\* follows its end: stages.py:83-102, "a stage that already finished cannot
\* be reopened by a later event in the same run".
LogIsLegal ==
  \A r \in Runs : \A j, k \in DOMAIN events[r] :
    j < k /\ events[r][j].stage = events[r][k].stage
      => events[r][j].kind = "running" /\ events[r][k].kind \in Terminal

\* Both: the log is a legal one, and what result.json says of it is so.
LogIsTrue == LogIsLegal /\ ResultAgreesWithLog

\* A manifest lists each path once, ends with result.json, and is only there
\* when the result is (run.py:148-149).
ManifestSealsRun ==
  \A r \in Runs : manifest[r] # <<>> =>
    /\ result[r] # <<>>
    /\ \A j, k \in DOMAIN manifest[r] : manifest[r][j].path = manifest[r][k].path => j = k
    /\ manifest[r][Len(manifest[r])].path = ResultPath(r)

\* verify_manifest: the entries whose file no longer has the recorded hash.
Problems(r) == {k \in DOMAIN manifest[r] :
                  files[manifest[r][k].path] # <<manifest[r][k].hash>>}

\* What verify_manifest reports of a manifest is never the doing of its own
\* run, unless it went on after its finish: each listed file is there, with the
\* recorded hash or another run's.
OnlyOthersCauseDrift ==
  \A r \in Runs \ late : manifest[r] # <<>> =>
    \A k \in Problems(r) :
      LET file == files[manifest[r][k].path] IN file # <<>> /\ file[1][1] # r

\* Both: what a manifest says is so, but for what other runs did since.
ManifestIsTrue == ManifestSealsRun /\ OnlyOthersCauseDrift

\* A run's manifest is written once (run.py:5-6).  No state of the session sees
\* to it: what refuses the second manifest of a second finish is that result.json
\* is by then recorded twice.  result.json itself is written again.
ManifestIsFinal ==
  [][\A r \in Runs : manifest[r] # <<>> => manifest'[r] = manifest[r]]_vars
=============================================================================
