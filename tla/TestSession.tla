---------------------------- MODULE TestSession ----------------------------
(***************************************************************************)
(* The pytest plugin (adapters/pytest_capture/plugin.py) inside the test   *)
(* process of a project, what the host makes of its two files              *)
(* (domain/capture_event.py, adapters/workload/reconstruct.py), and what   *)
(* compare_treatment makes of such a session as a treatment.  The node is  *)
(* thread-local and set on pytest's own thread, so a statement on another  *)
(* thread leaves no event: only pytest's thread is modelled.  Its events   *)
(* are written in the order of their sequence numbers, and their position  *)
(* stands for it.                                                          *)
(***************************************************************************)
EXTENDS Naturals, Sequences, FiniteSets, TLC

CONSTANTS
  Tests,            \* the selected tests, in the order pytest runs them
  Queries,          \* fingerprints of the statements they execute
  Ids,              \* values of id() for transaction objects
  MaxQueries,       \* bound: statements executed in a session
  MaxTransactions   \* bound: transactions begun in a session

ASSUME TestsAssumption == /\ Tests \in Seq({Tests[k] : k \in DOMAIN Tests})
                          /\ \A j, k \in DOMAIN Tests : Tests[j] = Tests[k] => j = k
ASSUME BoundsAssumption == MaxQueries \in Nat /\ MaxTransactions \in Nat

VARIABLES
  session,     \* "running", "finished", "killed"
  test, phase, \* where pytest is: tests begun, and the phase it is in
  node,        \* _state of pytest's thread: <<>>, or <<a test, a phase>>
  tx,          \* the connection's transaction: a position of txns, or 0
  txns,        \* history: the id and the real end of every transaction
  executed,    \* history: statements executed and where, <<>> outside every test
  events,      \* capture.ndjson; "of" and "at" of an event are history
  outcomes,    \* _test_outcomes
  transactionOutcomes,  \* _transaction_outcomes
  through,     \* history: tests whose call has ended without failing
  summary      \* summary.json, <<>> while there is none

pytest == <<session, test, phase, node>>
database == <<tx, txns>>
recorded == <<events, outcomes, transactionOutcomes, summary>>
history == <<executed, through>>
vars == <<pytest, database, recorded, history>>

TestNames == {Tests[k] : k \in DOMAIN Tests}
Nodes == TestNames \X {"setup", "call", "teardown"}
NoId == "none"
Reported == {"passed", "failed", "skipped"}
\* "refused": a COMMIT that the server turned into a rollback.
Ends == {"open", "committed", "refused", "rolled back", "dropped"}
Events == [node : Nodes, query : Queries, transaction : Ids \cup {NoId},
           of : 1..MaxTransactions]
Summaries == [selected : Nat, passed : Nat, failed : Nat, transactions : SUBSET Ids]

\* A map whose keys were never set.
Unset == "unset"

\* What the listeners record of a transaction.
Recordable == {"committed", "rolled back", Unset}

TypeOK ==
  /\ session \in {"running", "finished", "killed"}
  /\ test \in 0..Len(Tests)
  /\ phase \in {"outside", "setup", "call", "teardown"}
  /\ node \in {<<>>} \cup Nodes
  /\ txns \in Seq([id : Ids, end : Ends, aborted : BOOLEAN])
  /\ Len(txns) <= MaxTransactions
  /\ tx \in 0..Len(txns)
  /\ tx # 0 => txns[tx].end = "open"
  /\ executed \in Seq({<<>>} \cup Nodes) /\ Len(executed) <= MaxQueries
  /\ events \in Seq(Events)
  /\ outcomes \in [TestNames -> Reported \cup {Unset}]
  /\ transactionOutcomes \in [Ids -> Recordable]
  /\ through \subseteq TestNames
  /\ summary = <<>> \/ summary[1] \in Summaries

Init ==
  /\ session = "running" /\ test = 0 /\ phase = "outside"
  /\ node = <<>>
  /\ tx = 0 /\ txns = <<>>
  /\ executed = <<>>
  /\ events = <<>>
  /\ outcomes = [t \in TestNames |-> Unset]
  /\ transactionOutcomes = [i \in Ids |-> Unset]
  /\ through = {}
  /\ summary = <<>>

(***************************************************************************)
(* pytest runs the tests                                                   *)
(***************************************************************************)

\* pytest_runtest_setup of the next test.
StartTest ==
  /\ session = "running" /\ phase = "outside" /\ test < Len(Tests)
  /\ test' = test + 1
  /\ phase' = "setup"
  /\ node' = <<Tests[test + 1], "setup">>
  /\ UNCHANGED <<session, database, recorded, history>>

\* pytest_runtest_logreport: a test that failed before its call counts too.
LogReport(name, when, outcome) ==
  CASE when = "call" -> [outcomes EXCEPT ![name] = outcome]
    [] when = "setup" /\ outcome = "failed" /\ outcomes[name] = Unset ->
         [outcomes EXCEPT ![name] = "failed"]
    [] OTHER -> outcomes

\* A phase ends and is reported, and the hook of the next one runs.  Nothing
\* clears _state after a teardown.
EndPhase(outcome) ==
  /\ session = "running" /\ phase # "outside"
  /\ outcome = "skipped" => phase # "teardown"
  /\ outcomes' = LogReport(Tests[test], phase, outcome)
  /\ through' = IF phase = "call" /\ outcome # "failed" THEN through \cup {Tests[test]}
                ELSE through
  /\ phase' = CASE phase = "setup" /\ outcome = "passed" -> "call"
                [] phase = "teardown" -> "outside"
                [] OTHER -> "teardown"
  /\ node' = IF phase' = "outside" THEN node ELSE <<Tests[test], phase'>>
  /\ UNCHANGED <<session, test, database, events, transactionOutcomes, summary,
                 executed>>

(***************************************************************************)
(* The tests use the database                                              *)
(***************************************************************************)

\* Where a statement really comes from: a phase of a test, or none.
Place == IF phase = "outside" THEN <<>> ELSE <<Tests[test], phase>>

\* The connection begins a transaction when it has none.  The id of an object
\* that was collected may be that of a new one.
Autobegin ==
  IF tx # 0 THEN UNCHANGED database
  ELSE /\ Len(txns) < MaxTransactions
       /\ \E i \in Ids : txns' = Append(txns, [id |-> i, end |-> "open", aborted |-> FALSE])
       /\ tx' = Len(txns')

\* _base_payload and _write_event: nothing is written without a node.
Record(q, id) ==
  events' = IF node = <<>> THEN events
            ELSE Append(events, [node |-> node, query |-> q, transaction |-> id,
                                 of |-> tx'])

MayExecute ==
  /\ session = "running" /\ Len(executed) < MaxQueries
  /\ executed' = Append(executed, Place)

\* after_cursor_execute
Execute(q) ==
  /\ MayExecute
  /\ Autobegin
  /\ tx' # 0 /\ ~txns'[tx'].aborted
  /\ Record(q, txns'[tx'].id)
  /\ UNCHANGED <<pytest, outcomes, transactionOutcomes, summary, through>>

\* (fault) no listener for handle_error.
ExecuteFails_Unheard(q) ==
  /\ MayExecute
  /\ tx # 0
  /\ txns' = [txns EXCEPT ![tx].aborted = TRUE]
  /\ tx' = tx
  /\ UNCHANGED <<pytest, recorded, through>>

\* handle_error: the event of a failed statement names no transaction.  The
\* server aborts the transaction it was in.
ExecuteFails(q) ==
  /\ MayExecute
  /\ tx # 0
  /\ txns' = [txns EXCEPT ![tx].aborted = TRUE]
  /\ tx' = tx
  /\ Record(q, NoId)
  /\ UNCHANGED <<pytest, outcomes, transactionOutcomes, summary, through>>

\* The real end of the transaction, which the connection then forgets.
EndsAs(end) ==
  /\ txns' = [txns EXCEPT ![tx].end = end]
  /\ tx' = 0
  /\ UNCHANGED <<pytest, events, outcomes, summary, history>>

\* The commit listener runs before the commit.  An aborted transaction is
\* rolled back by its COMMIT, and a deferred constraint may refuse another's.
Commit ==
  /\ session = "running" /\ tx # 0
  /\ transactionOutcomes' = [transactionOutcomes EXCEPT ![txns[tx].id] = "committed"]
  /\ \E refused \in BOOLEAN :
       EndsAs(IF refused \/ txns[tx].aborted THEN "refused" ELSE "committed")

Rollback ==
  /\ session = "running" /\ tx # 0
  /\ transactionOutcomes' = [transactionOutcomes EXCEPT ![txns[tx].id] = "rolled back"]
  /\ EndsAs("rolled back")

\* The connection is collected or lost, and no listener hears of it.
Drop ==
  /\ session = "running" /\ tx # 0
  /\ UNCHANGED transactionOutcomes
  /\ EndsAs("dropped")

(***************************************************************************)
(* The session ends                                                        *)
(***************************************************************************)

With(outcome) == {t \in TestNames : outcomes[t] = outcome}

\* pytest_sessionfinish
SessionFinish ==
  /\ session = "running" /\ phase = "outside" /\ test = Len(Tests)
  /\ session' = "finished"
  /\ summary' = <<[selected |-> Cardinality(TestNames \ With(Unset)),
                   passed |-> Cardinality(With("passed")),
                   failed |-> Cardinality(With("failed")),
                   transactions |-> {i \in Ids : transactionOutcomes[i] = "committed"}]>>
  /\ UNCHANGED <<test, phase, node, database, events, outcomes, transactionOutcomes,
                 history>>

\* A timeout, an os._exit or a crash of the interpreter: no summary.
KillSession ==
  /\ session = "running"
  /\ session' = "killed"
  /\ UNCHANGED <<test, phase, node, database, recorded, history>>

\* parse_capture_summary: a summary that is missing is all zero.
Summary ==
  IF summary # <<>> THEN summary[1]
  ELSE [selected |-> 0, passed |-> 0, failed |-> 0, transactions |-> {}]

(***************************************************************************)
(* The workload                                                            *)
(***************************************************************************)

Operations == {events[k].node : k \in DOMAIN events}

OfOperation(op) == {k \in DOMAIN events : events[k].node = op}

\* _OperationBuilder: the events of an operation that name a transaction are
\* grouped by its id.
Correlations(op) == {events[k].transaction : k \in OfOperation(op)} \ {NoId}
Correlated(op, id) == {k \in OfOperation(op) : events[k].transaction = id}

\* (fault) an outcome that was never recorded counts as committed.
Committed_ByDefault(id) ==
  id \in Summary.transactions \/ transactionOutcomes[id] = Unset

\* What the host knows of the outcome: unknown counts as not committed.
Committed(id) == id \in Summary.transactions

Workload == [counts |-> [op \in Operations |-> Cardinality(OfOperation(op))],
             selected |-> Summary.selected, failed |-> Summary.failed]

\* (fault) the two selections are not compared.
Verified_AnySelection(b, t, op) ==
  /\ op \in DOMAIN b.counts /\ op \in DOMAIN t.counts
  /\ b.failed = 0 /\ t.failed = 0
  /\ t.counts[op] < b.counts[op]

\* compare_treatment(...).verified
Verified(b, t, op) ==
  /\ op \in DOMAIN b.counts /\ op \in DOMAIN t.counts
  /\ b.failed = 0
  /\ b.selected = t.selected
  /\ t.failed = 0
  /\ t.counts[op] < b.counts[op]

Next ==
  \/ StartTest \/ \E outcome \in Reported : EndPhase(outcome)
  \/ \E q \in Queries : Execute(q) \/ ExecuteFails(q)
  \/ Commit \/ Rollback \/ Drop
  \/ SessionFinish \/ KillSession

Spec == Init /\ [][Next]_vars

(***************************************************************************)
(* Properties                                                              *)
(***************************************************************************)

\* The id() of a transaction object is unique until the object is collected;
\* then another one may get it.
Unshared(id) == \A j, k \in DOMAIN txns : txns[j].id = id /\ txns[k].id = id => j = k

\* A transaction of the workload is one transaction of the tests, and is called
\* committed only if its commit was called, and always if it did commit and the
\* session finished ("never guess", capture_event.py:95-98).  Not so of an id
\* that two transactions had, nor of a commit the server refused, which the
\* listener recorded before.
TransactionsAreReal ==
  \A op \in Operations : \A id \in {i \in Correlations(op) : Unshared(i)} :
    LET real == {events[k].of : k \in Correlated(op, id)} IN
      /\ Cardinality(real) = 1
      /\ Committed(id) => \A x \in real : txns[x].end \in {"committed", "refused"}
      /\ session = "finished" /\ (\A x \in real : txns[x].end = "committed")
           => Committed(id)

\* Every statement executed in a phase of a test has its event, also one that
\* failed, in the operation of that phase ("a query outside any
\* test's setup/call/teardown window" is dropped, plugin.py:207-210); and an
\* operation counts no other statement than, in a teardown, those executed
\* between it and the next test.
EveryQueryIsRecorded ==
  \A op \in Nodes :
    LET ran == {k \in DOMAIN executed : executed[k] = op} IN
    /\ Cardinality(OfOperation(op)) >= Cardinality(ran)
    /\ op[2] # "teardown" => Cardinality(OfOperation(op)) = Cardinality(ran)

\* The baselines a full, successful session with as many tests can leave.
Baselines(op) == {[counts |-> (op :> n), selected |-> Len(Tests), failed |-> 0] :
                    n \in 1..(MaxQueries + 1)}

\* Against a baseline that ran to its end, a treatment is verified only after a
\* session that ran to its end, with no test that failed in or before its call
\* ("the treatment's own test suite still passes", compare.py:6-7).
VerifiedMeansPassed ==
  \A op \in Operations : \A b \in Baselines(op) :
    Verified(b, Workload, op) => session = "finished" /\ through = TestNames
=============================================================================
