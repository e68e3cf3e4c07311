---------------------------- MODULE Experiment ----------------------------
(***************************************************************************)
(* What becomes of the candidates of a query: screen_candidates            *)
(* (adapters/candidates/screen.py), run_experiment                         *)
(* (adapters/benchmark/run.py) and verify_candidate with its write-cost    *)
(* guard (adapters/candidates/verify.py, write_cost.py).  One caller       *)
(* screens and measures candidates one after the other over one connection *)
(* to a disposable database, while a cancellation, a deadline or a failing *)
(* statement may end any of them between two statements.                   *)
(***************************************************************************)
EXTENDS IndexCandidates

CONSTANTS
  Queries,      \* the queries a workload may have
  Benchmarked,  \* bound: those of them whose candidates are screened and measured
  Settings,     \* postgres_settings, in the order they are set
  MayFail,      \* the kinds of statements that may fail: "set", "query", "ddl", "hypopg"
  MaxRuns       \* bound: screenings and measurements the caller starts

\* A comparison is on a column of a relation of its query.
ASSUME QueriesAssumption == \A q \in Queries :
  /\ q.relations \in Seq(Tables) /\ q.where \in Seq(ToSet(q.where))
  /\ \A k \in DOMAIN q.where : LET w == q.where[k] IN
       /\ w.table \in ToSet(q.relations) /\ w.column \in Columns(w.table)
       /\ w.plain \in BOOLEAN /\ w.parameter \in BOOLEAN
ASSUME SettingsAssumption ==
  /\ Settings \in Seq(ToSet(Settings))
  /\ \A j, k \in DOMAIN Settings : Settings[j] = Settings[k] => j = k
ASSUME MayFailAssumption == MayFail \subseteq {"set", "query", "ddl", "hypopg"}
ASSUME MaxRunsAssumption == MaxRuns \in Nat

VARIABLES
  query,      \* the query
  proposal,   \* what generate_candidates made of its predicates
  indexes,    \* the candidates applied in the database
  hypothetical, \* the candidates the session has a hypothetical index for
  benchmark,  \* the settings of the session that hold their benchmark value
  autocommit, \* of the connection; the caller had it off
  aborted,    \* the connection is in a transaction that an error has aborted
  cancelled, deadlinePassed,   \* what _check_stop looks at
  runs,       \* measurements started
  pc,         \* "idle", or what the measurement does next
  job,        \* its candidate and whether it is a verify_candidate
  previous,   \* how many settings _apply_settings has saved
  held,       \* those of them that held their benchmark value already
  arms,       \* for each arm, <<>> or <<the indexes it was measured with>>
  stop,       \* "no", "cancelled", "timed_out", or "error"
  costs,      \* for each half of the write cost, <<>> or <<the indexes then>>
  result,     \* the last result the caller got; <<>> before the first
  abandoned,  \* history: candidates of a measurement that ended between apply and revert
  leaked,     \* history: settings whose restoring failed or was never tried
  baseline,   \* the hypothetical indexes when the query's cost was first estimated
  screened,   \* the ScreeningResult of each candidate so far
  broken      \* history: an error ended a screening

connection == <<query, proposal, hypothetical, benchmark, autocommit, aborted>>
database == <<indexes, connection>>
screening == <<baseline, screened, broken>>
signals == <<cancelled, deadlinePassed>>
saved == <<previous, held, leaked>>
measured == <<arms, costs, result, abandoned>>
vars == <<database, signals, runs, pc, job, saved, stop, measured, screening>>

\* The candidates of the query, each with its CREATE INDEX and DROP INDEX.
Proposed == proposal.candidates
Candidates == ToSet(Proposed)

Jobs == [candidate : Candidates, verify : BOOLEAN]
Arms == {"a1", "b", "a2"}
Phases == <<"a1", "apply", "b", "revert", "a2">>
IndexSets == {<<>>} \cup {<<S>> : S \in SUBSET Candidates}
Names == {Settings[k] : k \in DOMAIN Settings}
Steps == {"idle", "set", "restore", "write_before", "build", "write_after", "drop",
          "extension", "baseline", "reset", "hypothesise", "estimate"}
           \cup {Phases[k] : k \in DOMAIN Phases}

Results == [candidate : Candidates, arms : [Arms -> IndexSets], cancelled : BOOLEAN,
            timed_out : BOOLEAN, inconclusive : BOOLEAN]

TypeOK ==
  /\ query \in Queries /\ proposal = GenerateCandidates(query)
  /\ hypothetical \subseteq Candidates /\ baseline \subseteq Candidates
  /\ screened \in Seq([candidate : Candidates, after : IndexSets]) /\ broken \in BOOLEAN
  /\ indexes \subseteq Candidates /\ abandoned \subseteq Candidates
  /\ benchmark \subseteq Names /\ held \subseteq Names /\ leaked \subseteq Names
  /\ autocommit \in BOOLEAN /\ aborted \in BOOLEAN
  /\ cancelled \in BOOLEAN /\ deadlinePassed \in BOOLEAN
  /\ runs \in 0..MaxRuns
  /\ pc \in [step : Steps, check : BOOLEAN]
  /\ job \in {<<>>} \cup Jobs
  /\ previous \in 0..Len(Settings)
  /\ arms \in [Arms -> IndexSets] /\ costs \in [{"before", "after"} -> IndexSets]
  /\ stop \in {"no", "cancelled", "timed_out", "error"}
  /\ result \in {<<>>} \cup {<<x>> : x \in Results}

\* check: _check_stop is still to be called before the step.
At(step) == pc = [step |-> step, check |-> FALSE]
Checking(step) == pc = [step |-> step, check |-> TRUE]
Goto(step) == pc' = [step |-> step, check |-> FALSE]
GotoCheck(step) == pc' = [step |-> step, check |-> TRUE]

Nothing == [a \in Arms |-> <<>>]
NoCosts == [h \in {"before", "after"} |-> <<>>]

Init ==
  /\ query \in Queries
  /\ proposal = GenerateCandidates(query)
  /\ indexes = {} /\ hypothetical = {} /\ benchmark = {}
  /\ autocommit = FALSE /\ aborted = FALSE
  /\ cancelled = FALSE /\ deadlinePassed = FALSE
  /\ runs = 0 /\ At("idle") /\ job = <<>>
  /\ previous = 0 /\ held = {} /\ leaked = {}
  /\ arms = Nothing /\ costs = NoCosts
  /\ stop = "no" /\ result = <<>> /\ abandoned = {}
  /\ baseline = {} /\ screened = <<>> /\ broken = FALSE

(***************************************************************************)
(* run_experiment                                                          *)
(***************************************************************************)

\* verify_candidate passes run_experiment no settings.
SettingsToApply == IF job.verify THEN 0 ELSE Len(Settings)

\* The caller's open transaction is committed; an aborted one is rolled back.
Start ==
  /\ At("idle") /\ runs < MaxRuns /\ query \in Benchmarked
  /\ runs' = runs + 1
  /\ job' \in Jobs
  /\ autocommit' = TRUE /\ aborted' = FALSE
  /\ Goto("set")
  /\ previous' = 0 /\ held' = {} /\ arms' = Nothing /\ costs' = NoCosts /\ stop' = "no"
  /\ cancelled' = FALSE /\ deadlinePassed' = FALSE
  /\ UNCHANGED <<query, proposal, indexes, hypothetical, benchmark, leaked, result, abandoned,
                 screening>>

From(first, last) == {Settings[k] : k \in first..last}

\* _apply_settings: SHOW and SET, one setting after the other. A failing one
\* leaves run_experiment before the try that would restore the others.
ApplySetting ==
  /\ At("set")
  /\ \/ /\ previous < SettingsToApply
        /\ previous' = previous + 1
        /\ held' = held \cup (From(previous + 1, previous + 1) \cap benchmark)
        /\ benchmark' = benchmark \cup From(previous + 1, previous + 1)
        /\ UNCHANGED <<autocommit, pc, stop, leaked>>
     \/ /\ previous = SettingsToApply
        /\ GotoCheck("a1")
        /\ UNCHANGED <<benchmark, autocommit, saved, stop>>
     \/ /\ "set" \in MayFail /\ previous < SettingsToApply
        /\ autocommit' = FALSE
        /\ stop' = "error" /\ Goto("idle")
        /\ leaked' = leaked \cup From(1, previous)
        /\ UNCHANGED <<benchmark, previous, held>>
  /\ UNCHANGED <<query, proposal, indexes, hypothetical, aborted, signals, runs, job, measured,
                 screening>>

\* The steps before which the candidate is in the database.
Treating == {"b", "revert"}

\* What is given up with a measurement that ends before this step.
GivesUp(step) ==
  abandoned' = IF step \in Treating THEN abandoned \cup {job.candidate} ELSE abandoned

\* _check_stop, before every phase. verify_candidate passes neither an event
\* nor a timeout.
CheckStop ==
  /\ \E k \in DOMAIN Phases :
       /\ Checking(Phases[k])
       /\ \/ /\ cancelled \/ deadlinePassed
             /\ stop' = IF cancelled THEN "cancelled" ELSE "timed_out"
             /\ Goto("restore") /\ GivesUp(Phases[k])
          \/ /\ ~cancelled /\ ~deadlinePassed
             /\ Goto(Phases[k]) /\ UNCHANGED <<stop, abandoned>>
  /\ UNCHANGED <<database, signals, runs, job, saved, arms, costs, result, screening>>

Fail(kind, step) ==
  kind \in MayFail /\ stop' = "error" /\ Goto("restore") /\ GivesUp(step)

\* _timed_arm, then _explain for A1 and B: the indexes cannot change in it.
MeasureArm(arm, next) ==
  /\ At(arm)
  /\ \/ /\ arms' = [arms EXCEPT ![arm] = <<indexes>>]
        /\ IF next = "restore" THEN Goto(next) ELSE GotoCheck(next)
        /\ UNCHANGED <<stop, abandoned>>
     \/ Fail("query", arm) /\ UNCHANGED arms
  /\ UNCHANGED <<database, signals, runs, job, saved, costs, result, screening>>

\* CREATE INDEX fails of itself when the index is there already.
Apply ==
  /\ At("apply")
  /\ \/ /\ job.candidate \notin indexes
        /\ indexes' = indexes \cup {job.candidate}
        /\ GotoCheck("b") /\ UNCHANGED <<stop, abandoned>>
     \/ /\ job.candidate \in indexes /\ stop' = "error" /\ Goto("restore")
        /\ UNCHANGED <<indexes, abandoned>>
     \/ Fail("ddl", "apply") /\ UNCHANGED indexes
  /\ UNCHANGED <<connection, signals, runs, job, saved, arms, costs, result, screening>>

\* (fault) the candidate stays for the drift control.
Revert_Skipped ==
  /\ At("revert")
  /\ GotoCheck("a2")
  /\ UNCHANGED <<database, signals, runs, job, saved, stop, measured, screening>>

Revert ==
  /\ At("revert")
  /\ \/ /\ indexes' = indexes \ {job.candidate} /\ GotoCheck("a2")
        /\ UNCHANGED <<stop, abandoned>>
     \/ Fail("ddl", "revert") /\ UNCHANGED indexes
  /\ UNCHANGED <<connection, signals, runs, job, saved, arms, costs, result, screening>>

Complete == \A a \in Arms : arms[a] # <<>>

\* Noise stands for high variance in an arm or drift between A1 and A2.
Result(noise) ==
  [candidate |-> job.candidate, arms |-> arms, cancelled |-> stop = "cancelled",
   timed_out |-> stop = "timed_out", inconclusive |-> ~Complete \/ noise]

\* What the last lines of run_experiment make of its end.
EndExperiment(end) ==
  \/ end = "error" /\ Goto("idle") /\ UNCHANGED result
  \/ /\ end # "error"
     /\ result' \in {<<Result(noise)>> : noise \in BOOLEAN}
     /\ Goto(IF job.verify THEN "write_before" ELSE "idle")

\* (fault) the settings are only put back when nothing was raised.
Restore_OnResult ==
  /\ At("restore")
  /\ benchmark' = IF stop = "error" THEN benchmark ELSE benchmark \ (From(1, previous) \ held)
  /\ autocommit' = FALSE
  /\ EndExperiment(stop)
  /\ UNCHANGED <<query, proposal, indexes, hypothetical, aborted, signals, runs, job, saved, stop,
                 arms, costs, abandoned, screening>>

\* The two finally clauses, then the result or the exception: the settings get
\* back what they held, in turn, and a SET that fails keeps its and the later ones.
Restore ==
  /\ At("restore")
  /\ \E n \in 0..previous :
       /\ n < previous => "set" \in MayFail
       /\ benchmark' = benchmark \ (From(1, n) \ held)
       /\ leaked' = leaked \cup From(n + 1, previous)
       /\ stop' = IF n < previous THEN "error" ELSE stop
  /\ autocommit' = FALSE
  /\ EndExperiment(stop')
  /\ UNCHANGED <<query, proposal, indexes, hypothetical, aborted, signals, runs, job, previous,
                 held, arms, costs, abandoned, screening>>

(***************************************************************************)
(* measure_write_cost                                                      *)
(***************************************************************************)

\* An error goes to the caller; one between BEGIN and COMMIT, or of a read that
\* psycopg began a transaction for, leaves that transaction aborted.
GiveUp(inTransaction) ==
  /\ Goto("idle")
  /\ stop' = "error"
  /\ aborted' = inTransaction

\* _primary_key_column: the writes address their rows by it.
HasSingleKey(table) ==
  \E k \in DOMAIN Constraints :
    /\ Constraints[k].table = table /\ Constraints[k].kind = "primary key"
    /\ Len(Constraints[k].columns) = 1

\* What the writes are made of is read, then each runs in a transaction that is
\* rolled back whatever happens; a table without a single-column key is an error
\* before the first statement.
MeasureBefore ==
  /\ At("write_before")
  /\ \/ /\ HasSingleKey(job.candidate.table)
        /\ costs' = [costs EXCEPT !["before"] = <<indexes>>] /\ Goto("build")
        /\ UNCHANGED <<stop, aborted>>
     \/ /\ HasSingleKey(job.candidate.table) /\ "query" \in MayFail
        /\ \E reading \in BOOLEAN : GiveUp(reading)
        /\ UNCHANGED costs
     \/ ~HasSingleKey(job.candidate.table) /\ GiveUp(FALSE) /\ UNCHANGED costs
  /\ UNCHANGED <<query, proposal, indexes, hypothetical, benchmark, autocommit, signals, runs,
                 job, saved, arms, result, abandoned, screening>>

\* The same writes again: the index has been committed, and nothing drops it
\* when one of them fails.
MeasureAfter ==
  /\ At("write_after")
  /\ \/ /\ costs' = [costs EXCEPT !["after"] = <<indexes>>] /\ Goto("drop")
        /\ UNCHANGED <<stop, aborted, abandoned>>
     \/ /\ "query" \in MayFail /\ GiveUp(FALSE)
        /\ abandoned' = abandoned \cup {job.candidate} /\ UNCHANGED costs
  /\ UNCHANGED <<query, proposal, indexes, hypothetical, benchmark, autocommit, signals, runs,
                 job, saved, arms, result, screening>>

\* (fault) the build is rolled back like the writes it is measured with.
Build_RolledBack ==
  /\ At("build")
  /\ Goto("write_after")
  /\ UNCHANGED <<database, signals, runs, job, saved, stop, measured, screening>>

\* BEGIN, CREATE INDEX, its size, COMMIT: an error aborts the transaction, and
\* nothing rolls it back before the caller or the next call does.
Build ==
  /\ At("build")
  /\ \/ /\ job.candidate \notin indexes
        /\ indexes' = indexes \cup {job.candidate} /\ Goto("write_after")
        /\ UNCHANGED <<stop, aborted>>
     \/ /\ "ddl" \in MayFail \/ job.candidate \in indexes
        /\ GiveUp(TRUE) /\ UNCHANGED indexes
  /\ UNCHANGED <<query, proposal, hypothetical, benchmark, autocommit, signals, runs, job, saved,
                 arms, costs, result, abandoned, screening>>

\* (fault) the index is left for the next measurement.
Drop_Skipped ==
  /\ At("drop")
  /\ Goto("idle")
  /\ UNCHANGED <<database, signals, runs, job, saved, stop, measured, screening>>

Drop ==
  /\ At("drop")
  /\ \/ /\ indexes' = indexes \ {job.candidate} /\ Goto("idle")
        /\ UNCHANGED <<stop, aborted, abandoned>>
     \/ /\ "ddl" \in MayFail /\ GiveUp(TRUE)
        /\ abandoned' = abandoned \cup {job.candidate} /\ UNCHANGED indexes
  /\ UNCHANGED <<query, proposal, hypothetical, benchmark, autocommit, signals, runs, job, saved,
                 arms, costs, result, screening>>

(***************************************************************************)
(* screen_candidates                                                       *)
(***************************************************************************)

measuring == <<signals, job, saved, measured, stop>>

\* Nothing is screened when there is no candidate.
StartScreening ==
  /\ At("idle") /\ runs < MaxRuns /\ query \in Benchmarked
  /\ Candidates # {}
  /\ runs' = runs + 1
  /\ autocommit' = TRUE /\ aborted' = FALSE
  /\ screened' = <<>>
  /\ Goto("extension")
  /\ UNCHANGED <<query, proposal, indexes, hypothetical, benchmark, measuring, baseline, broken>>

\* The finally clause, then the results or the exception.
EndScreening(error) ==
  /\ Goto("idle")
  /\ autocommit' = FALSE
  /\ broken' = (broken \/ error)

\* CREATE EXTENSION; every candidate is skipped where there is no HypoPG.
CreateExtension ==
  /\ At("extension")
  /\ \/ Goto("baseline") /\ UNCHANGED <<autocommit, broken>>
     \/ "hypopg" \in MayFail /\ EndScreening(FALSE)
  /\ UNCHANGED <<query, proposal, indexes, hypothetical, benchmark, aborted, measuring, runs,
                 baseline, screened>>

\* The cost without a candidate, with whatever the session has.
EstimateBaseline ==
  /\ At("baseline")
  /\ \/ baseline' = hypothetical /\ Goto("reset") /\ UNCHANGED <<autocommit, broken>>
     \/ "query" \in MayFail /\ EndScreening(TRUE) /\ UNCHANGED baseline
  /\ UNCHANGED <<query, proposal, indexes, hypothetical, benchmark, aborted, measuring, runs,
                 screened>>

NextCandidate ==
  IF Len(screened) < Len(Proposed)
  THEN Goto("hypothesise") /\ UNCHANGED <<autocommit, broken>>
  ELSE EndScreening(FALSE)

\* (fault) the session is reset only at the end.
Reset_AtEnd ==
  /\ At("reset")
  /\ hypothetical' = IF Len(screened) < Len(Proposed) THEN hypothetical ELSE {}
  /\ NextCandidate
  /\ UNCHANGED <<query, proposal, indexes, benchmark, aborted, measuring, runs, baseline,
                 screened>>

\* hypopg_reset, before each candidate and at the end.
Reset ==
  /\ At("reset")
  /\ \/ hypothetical' = {} /\ NextCandidate
     \/ "query" \in MayFail /\ EndScreening(TRUE) /\ UNCHANGED hypothetical
  /\ UNCHANGED <<query, proposal, indexes, benchmark, aborted, measuring, runs, baseline,
                 screened>>

Candidate == Proposed[Len(screened) + 1]

\* hypopg_create_index; a candidate it refuses is skipped.
Hypothesise ==
  /\ At("hypothesise")
  /\ \/ /\ hypothetical' = hypothetical \cup {Candidate} /\ Goto("estimate")
        /\ UNCHANGED screened
     \/ /\ "hypopg" \in MayFail
        /\ screened' = Append(screened, [candidate |-> Candidate, after |-> <<>>])
        /\ Goto("reset") /\ UNCHANGED hypothetical
  /\ UNCHANGED <<query, proposal, indexes, benchmark, autocommit, aborted, measuring, runs,
                 baseline, broken>>

EstimateCandidate ==
  /\ At("estimate")
  /\ \/ /\ screened' = Append(screened, [candidate |-> Candidate, after |-> <<hypothetical>>])
        /\ Goto("reset") /\ UNCHANGED <<autocommit, broken>>
     \/ "query" \in MayFail /\ EndScreening(TRUE) /\ UNCHANGED screened
  /\ UNCHANGED <<query, proposal, indexes, hypothetical, benchmark, aborted, measuring, runs,
                 baseline>>

(***************************************************************************)
(* Around it                                                               *)
(***************************************************************************)

Measuring == pc.step \notin {"idle", "extension", "baseline", "reset", "hypothesise", "estimate"}

Cancel ==
  /\ Measuring /\ ~job.verify /\ cancelled' = TRUE
  /\ UNCHANGED <<database, deadlinePassed, runs, pc, job, saved, stop, measured, screening>>

Tick ==
  /\ Measuring /\ ~job.verify /\ deadlinePassed' = TRUE
  /\ UNCHANGED <<database, cancelled, runs, pc, job, saved, stop, measured, screening>>

Next ==
  \/ Start \/ ApplySetting \/ CheckStop
  \/ MeasureArm("a1", "apply") \/ Apply \/ MeasureArm("b", "revert")
  \/ Revert \/ MeasureArm("a2", "restore") \/ Restore
  \/ MeasureBefore \/ Build \/ MeasureAfter \/ Drop
  \/ StartScreening \/ CreateExtension \/ EstimateBaseline
  \/ Reset \/ Hypothesise \/ EstimateCandidate
  \/ Cancel \/ Tick

Spec == Init /\ [][Next]_vars

(***************************************************************************)
(* Properties                                                              *)
(***************************************************************************)

\* A result that may be drawn from compares the same database with and
\* without its candidate, and nothing else (run.py:147-148), from all three
\* arms: "never draw a conclusion from a partial or noisy measurement"
\* (run.py:56), however a stop raced with the phases.
ConclusiveIsControlled ==
  result # <<>> /\ ~result[1].inconclusive =>
    LET with(a) == result[1].arms[a][1] c == result[1].candidate IN
    /\ ~result[1].cancelled /\ ~result[1].timed_out
    /\ \A a \in Arms : result[1].arms[a] # <<>>
    /\ c \notin with("a1") /\ with("b") = with("a1") \cup {c} /\ with("a2") = with("a1")

\* The write cost is measured without and then with the candidate.
CostsBracketTheBuild ==
  costs["after"] # <<>> => costs["after"][1] = costs["before"][1] \cup {job.candidate}
                           /\ job.candidate \notin costs["before"][1]

\* Between two calls the session is as the caller had it, but for what has a
\* cause: an index that is left is one of a measurement that ended after its
\* CREATE INDEX and before its DROP INDEX, a setting one whose SET failed, when it
\* or a later one was made or restored, a hypothetical index one of a screening
\* that an error ended, an aborted transaction one of a failing write cost;
\* autocommit is always put back (run.py:165-202, screen.py:82-118,
\* write_cost.py:175-280).
OnlyFailuresLeaveTraces ==
  At("idle") =>
    /\ indexes \subseteq abandoned /\ benchmark \subseteq leaked
    /\ hypothetical # {} => broken
    /\ aborted => job.verify /\ stop = "error"
    /\ ~autocommit

\* "this module restores the exact prior value itself rather than leaking a
\* benchmark-only setting onto whatever the caller's connection does next"
\* (run.py:73-75).
SettingsAreRestored == At("idle") => benchmark = {}

\* The two costs of a screening result are the query's with no hypothetical
\* index and with the candidate's own and no other.  The first one is estimated
\* before any reset: not so after a screening that an error ended, whose last
\* hypothetical index is still in the session.
EstimatesAreComparable ==
  \A k \in DOMAIN screened : screened[k].after # <<>> =>
    /\ screened[k].after[1] = {screened[k].candidate}
    /\ ~broken => baseline = {}

\* Whatever is compared, by an experiment, the write-cost guard or a screening, differs
\* in the candidate and in nothing else.
ComparisonsAreControlled ==
  ConclusiveIsControlled /\ CostsBracketTheBuild /\ EstimatesAreComparable

\* The candidates are a good proposal for the query, as ProposalServes says.  Not
\* so of a query with a name that two of its relations have: extract.py:8-10 says
\* such a comparison gets no predicate, and _resolve_column takes the first.
CandidatesServeTheQuery == ~Ambiguous(query) => ProposalServes(query, proposal)
=============================================================================
