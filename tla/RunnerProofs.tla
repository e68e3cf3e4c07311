---------------------------- MODULE RunnerProofs ----------------------------
(***************************************************************************)
(* The tests of a project and the container they run in.  What the runner  *)
(* reports is what happened, and nothing is left of a run, for any number  *)
(* of interrupts (ContainerRun); the events, transactions and verdicts of  *)
(* a session are those of the tests that ran, for any tests, statements    *)
(* and ids (TestSession).                                                  *)
(***************************************************************************)
EXTENDS ContainerRun, TestSession, SequenceTheorems, FiniteSetTheorems, TLAPS

(***************************************************************************)
(* The container                                                           *)
(***************************************************************************)

\* Where the container can be when a call of the runner is about to be made.
ContainerFacts ==
  /\ pc \in {"stage", "create"} => container = "none"
  /\ pc = "start" => container \in {"created", "removed"}
  /\ pc \in {"cancel?", "deadline?", "inspect", "stop"} =>
       container \in {"running", "exited", "removed"}
  /\ pc = "stop" => timedOut \/ cancelled

\* Unless an inspect failed, an exit code is only read of a container that has
\* ended, and no container starts again; after it the files are read before the
\* staged copy goes.
CodeFacts ==
  "inspect" \notin failed =>
    /\ pc = "code" => container \in {"exited", "removed"}
    /\ code # -1 => /\ pc \in {"rm", "read", "unstage", "unwind"} \cup Ended
                    /\ container \in {"exited", "removed"}
                    /\ exitCode = code
                    /\ pc \in {"unstage", "returned"} => captured = "stopped"

\* Every way out passes the calls that remove the container and the copy, but
\* for an interrupt of one that may not have acted or whose effect is not undone.
CleanupFacts ==
  /\ pc \in {"read", "unstage", "unwind", "returned", "raised"} /\ Inspectable
       => "rm" \in failed \/ interruptedAt \cap {"create", "rm"} # {}
  /\ pc \in {"returned", "raised"} /\ staging
       => \/ failed \cap {"stage", "rmtree"} # {}
          \/ interruptedAt \cap {"stage", "unstage", "unwind"} # {}

ContainerInv == ContainerTypeOK /\ ContainerFacts

LEMMA ContainerInvInit == InitContainer => ContainerInv
<1> SUFFICES ASSUME InitContainer PROVE ContainerInv
  OBVIOUS
<1>1. interrupts \in 0..MaxInterrupts
  BY MaxInterruptsAssumption DEF InitContainer
<1>2. exitCode \in {-1, 0, 1, 137} /\ code \in {-1, 0, 1, 137}
  BY DEF InitContainer
<1>3. failed \subseteq MayFail
  BY DEF InitContainer
<1>4. QED
  BY <1>1, <1>2, <1>3 DEF InitContainer, ContainerInv, ContainerTypeOK, ContainerFacts, Calls, Ended

\* The types and the places of the container, whatever fails.
LEMMA ContainerInvStep == ContainerInv /\ [NextContainer]_containerVars => ContainerInv'
<1> SUFFICES ASSUME ContainerInv, [NextContainer]_containerVars PROVE ContainerInv'
  OBVIOUS
<1> USE DEF ContainerInv, ContainerTypeOK, ContainerFacts, Calls, Ended, world, runner, signals,
            Fails, Works, Inspectable
<1>1. CASE Stage
  BY <1>1 DEF Stage
<1>2. CASE Create
  BY <1>2 DEF Create
<1>3. CASE Start
  BY <1>3 DEF Start
<1>4. CASE CheckCancel
  BY <1>4 DEF CheckCancel
<1>5. CASE CheckDeadline
  BY <1>5 DEF CheckDeadline
<1>6. CASE InspectRunning
  BY <1>6 DEF InspectRunning
<1>7. CASE Stop
  BY <1>7 DEF Stop
<1>8. CASE InspectCode
  BY <1>8 DEF InspectCode, ReportedCode
<1>9. CASE Remove
  BY <1>9 DEF Remove
<1>10. CASE ReadFiles
  BY <1>10 DEF ReadFiles
<1>11. CASE Unstage
  <2>1. pc' \in {"returned", "raised"} /\ staging' \in BOOLEAN
    BY <1>11 DEF Unstage
  <2>2. /\ UNCHANGED <<container, exitCode, timedOut, cancelled, code, deadlinePassed, cancelSet,
                       interrupts, interruptedAt, captured>>
        /\ failed' \subseteq MayFail
    BY <1>11 DEF Unstage
  <2>3. QED
    BY <2>1, <2>2
<1>12. CASE CommandExits
  BY <1>12 DEF CommandExits
<1>13. CASE Tick
  BY <1>13 DEF Tick
<1>14. CASE Cancel
  BY <1>14 DEF Cancel
<1>15. CASE Kill
  BY <1>15 DEF Kill
<1>16. CASE RemovedByClean
  BY <1>16 DEF RemovedByClean, Inspectable
<1>17. CASE Interrupt
  <2>1. /\ interrupts' \in 0..MaxInterrupts /\ interruptedAt' \subseteq Calls
        /\ failed' \subseteq MayFail
    BY <1>17, MaxInterruptsAssumption DEF Interrupt
  <2>2. UNCHANGED <<exitCode, deadlinePassed, cancelSet, timedOut, cancelled, code, captured>>
    BY <1>17 DEF Interrupt
  <2>3. pc' \in {"raised", "rm", "unwind"} /\ staging' \in BOOLEAN
    BY <1>17 DEF Interrupt
  <2>4. container' \in {"none", "created", "running", "exited", "removed"}
    BY <1>17 DEF Interrupt
  <2>5. QED
    BY <2>1, <2>2, <2>3, <2>4
<1>18. CASE UNCHANGED containerVars
  BY <1>18 DEF containerVars
<1>19. QED
  BY <1>1, <1>2, <1>3, <1>4, <1>5, <1>6, <1>7, <1>8, <1>9, <1>10, <1>11, <1>12, <1>13,
     <1>14, <1>15, <1>16, <1>17, <1>18 DEF NextContainer, Step

\* The variables keep their types, and the container is where the call expects it.
THEOREM ContainerTypeCorrect == SpecContainer => []ContainerTypeOK
<1>1. ContainerInv => ContainerTypeOK
  BY DEF ContainerInv
<1>2. QED
  BY <1>1, ContainerInvInit, ContainerInvStep, PTL DEF SpecContainer

\* Where inspecting does not fail, the loop ends only with the command.
LEMMA CodeFactsStep ==
  ContainerInv /\ CodeFacts /\ [NextContainer]_containerVars => CodeFacts'
<1> SUFFICES ASSUME ContainerInv, CodeFacts, [NextContainer]_containerVars PROVE CodeFacts'
  OBVIOUS
<1> USE DEF ContainerInv, ContainerTypeOK, ContainerFacts, CodeFacts, Calls, Ended, world, runner,
            signals, Fails, Works, Inspectable
<1>1. CASE Stage \/ Create \/ Start
  BY <1>1 DEF Stage, Create, Start
<1>2. CASE CheckCancel \/ CheckDeadline
  BY <1>2 DEF CheckCancel, CheckDeadline
<1>3. CASE InspectRunning
  BY <1>3 DEF InspectRunning, Fails
<1>4. CASE Stop
  BY <1>4 DEF Stop
<1>5. CASE InspectCode
  BY <1>5 DEF InspectCode, Fails, Inspectable, ReportedCode
<1>6. CASE Remove
  BY <1>6 DEF Remove
<1>7. CASE ReadFiles \/ Unstage
  BY <1>7 DEF ReadFiles, Unstage
<1>8. CASE CommandExits \/ RemovedByClean
  BY <1>8 DEF CommandExits, RemovedByClean, Inspectable
<1>9. CASE Tick \/ Cancel \/ Kill
  BY <1>9 DEF Tick, Cancel, Kill
<1>10. CASE Interrupt
  BY <1>10 DEF Interrupt
<1>11. CASE UNCHANGED containerVars
  BY <1>11 DEF containerVars
<1>12. QED
  BY <1>1, <1>2, <1>3, <1>4, <1>5, <1>6, <1>7, <1>8, <1>9, <1>10, <1>11
     DEF NextContainer, Step

\* A reported success is one: unless an inspect failed (docker.py:277 takes that
\* for an exit), the command had exited with code 0 before the runner did
\* anything to its container, and its files were read after that, whatever else
\* failed, however often the user interrupted and whenever the deadline passed.
THEOREM RealSuccess == SpecContainer => []SuccessIsReal
<1>1. InitContainer => CodeFacts
  BY DEF InitContainer, CodeFacts
<1>2. CodeFacts => SuccessIsReal
  BY DEF CodeFacts, SuccessIsReal, Succeeded
<1>3. ContainerInv /\ CodeFacts /\ [NextContainer]_containerVars => CodeFacts'
  BY CodeFactsStep
<1>4. QED
  BY <1>1, <1>2, <1>3, ContainerInvInit, ContainerInvStep, PTL DEF SpecContainer

\* No step undoes a clean-up, and each that does not finish one is on record.
LEMMA CleanupFactsStep ==
  ContainerInv /\ CleanupFacts /\ [NextContainer]_containerVars => CleanupFacts'
<1> SUFFICES ASSUME ContainerInv, CleanupFacts, [NextContainer]_containerVars
             PROVE  CleanupFacts'
  OBVIOUS
<1> USE DEF ContainerInv, ContainerTypeOK, ContainerFacts, CleanupFacts, Calls, Ended, world,
            runner, signals, Fails, Works, Inspectable
<1>1. CASE Stage \/ Create \/ Start
  BY <1>1 DEF Stage, Create, Start
<1>2. CASE CheckCancel \/ CheckDeadline \/ InspectRunning
  BY <1>2 DEF CheckCancel, CheckDeadline, InspectRunning
<1>3. CASE Stop \/ InspectCode
  BY <1>3 DEF Stop, InspectCode
<1>4. CASE Remove
  BY <1>4 DEF Remove, Fails
<1>5. CASE ReadFiles \/ Unstage
  BY <1>5 DEF ReadFiles, Unstage
<1>6. CASE CommandExits \/ RemovedByClean
  BY <1>6 DEF CommandExits, RemovedByClean, Inspectable
<1>7. CASE Tick \/ Cancel \/ Kill
  BY <1>7 DEF Tick, Cancel, Kill
<1>8. CASE Interrupt
  BY <1>8 DEF Interrupt
<1>9. CASE UNCHANGED containerVars
  BY <1>9 DEF containerVars
<1>10. QED
  BY <1>1, <1>2, <1>3, <1>4, <1>5, <1>6, <1>7, <1>8, <1>9 DEF NextContainer, Step

\* Of every run that returns or raises, whichever of its calls fail: a container
\* that is left was one the daemon would not remove (docker.py:244 does not look)
\* or whose creation or removal was interrupted, and a copy that is left one that
\* rmtree could not remove, or whose making failed or was interrupted.
THEOREM LeavesNothing == SpecContainer => []NothingLeft
<1>1. InitContainer => CleanupFacts
  BY DEF InitContainer, CleanupFacts, Inspectable
<1>2. CleanupFacts => NothingLeft
  BY DEF CleanupFacts, NothingLeft
<1>3. ContainerInv /\ CleanupFacts /\ [NextContainer]_containerVars => CleanupFacts'
  BY CleanupFactsStep
<1>4. QED
  BY <1>1, <1>2, <1>3, ContainerInvInit, ContainerInvStep, PTL DEF SpecContainer

-----------------------------------------------------------------------------
(***************************************************************************)
(* The test session                                                        *)
(***************************************************************************)

\* The thread's node is the phase pytest is in; between tests it is the last
\* teardown, as nothing clears it.
NodeFacts ==
  /\ phase # "outside" => test \in DOMAIN Tests /\ node = <<Tests[test], phase>>
  /\ phase = "outside" => node = <<>> \/ node[2] = "teardown"

\* An event names the transaction it was in; a transaction that is open is the
\* connection's; the outcome recorded under an id is that of a transaction that
\* had the id, and of the only one if it is the only one.
TransactionFacts ==
  /\ \A k \in DOMAIN events :
       /\ events[k].of \in DOMAIN txns
       /\ events[k].transaction # NoId => events[k].transaction = txns[events[k].of].id
  /\ \A x \in DOMAIN txns : txns[x].end = "open" => x = tx
  /\ \A i \in Ids : transactionOutcomes[i] = "committed" =>
       \E x \in DOMAIN txns : txns[x].id = i /\ txns[x].end \in {"committed", "refused"}
  /\ \A x \in DOMAIN txns : Unshared(txns[x].id) /\ txns[x].end = "committed" =>
       transactionOutcomes[txns[x].id] = "committed"

\* A test that counts as passed or skipped has been called and did not fail.
OutcomeFacts ==
  \A t \in TestNames : outcomes[t] \in {"passed", "skipped"} => t \in through

\* A summary is that of a session that has finished, and says what it recorded.
SummaryFacts ==
  summary # <<>> =>
    /\ session = "finished"
    /\ summary[1].selected = Cardinality(TestNames \ With(Unset))
    /\ summary[1].failed = Cardinality(With("failed"))
    /\ summary[1].transactions = {i \in Ids : transactionOutcomes[i] = "committed"}

FinishedFacts == session = "finished" => summary # <<>>

SessionInv ==
  /\ TypeOK /\ NodeFacts /\ TransactionFacts /\ OutcomeFacts /\ SummaryFacts /\ FinishedFacts

Transactions == [id : Ids, end : Ends, aborted : BOOLEAN]

\* What a statement does to the transactions: one may begin, which is then the
\* connection's, and the others keep their ids and ends.
Extended ==
  /\ txns' \in Seq(Transactions) /\ Len(txns') <= MaxTransactions
  /\ tx' \in DOMAIN txns' /\ txns'[tx'].end = "open"
  /\ \A x \in DOMAIN txns :
       x \in DOMAIN txns' /\ txns'[x].id = txns[x].id /\ txns'[x].end = txns[x].end
  /\ \A x \in DOMAIN txns' : x \in DOMAIN txns \/ x = tx'
  /\ tx # 0 => tx' = tx

LEMMA TransactionSequence ==
  ASSUME TypeOK
  PROVE  /\ txns \in Seq(Transactions) /\ Len(txns) \in Nat /\ DOMAIN txns = 1..Len(txns)
         /\ \A x \in DOMAIN txns : txns[x] \in Transactions
         /\ tx # 0 => tx \in DOMAIN txns /\ txns[tx].end = "open"
<1>1. txns \in Seq(Transactions)
  BY DEF TypeOK, Transactions
<1>2. Len(txns) \in Nat /\ DOMAIN txns = 1..Len(txns)
  BY <1>1, LenProperties
<1>3. \A x \in DOMAIN txns : txns[x] \in Transactions
  BY <1>1, <1>2, ElementOfSeq
<1>4. tx # 0 => tx \in DOMAIN txns /\ txns[tx].end = "open"
  <2>1. tx \in 0..Len(txns)
    BY DEF TypeOK
  <2>2. tx # 0 => tx \in DOMAIN txns
    BY <1>2, <2>1
  <2>3. tx # 0 => txns[tx].end = "open"
    BY DEF TypeOK
  <2>4. QED
    BY <2>2, <2>3
<1>5. QED
  BY <1>1, <1>2, <1>3, <1>4

LEMMA AutobeginExtends ==
  ASSUME TypeOK, Autobegin
  PROVE  Extended
<1>1. CASE tx # 0
  BY <1>1, TransactionSequence DEF Autobegin, database, Extended, TypeOK
<1>2. CASE tx = 0
  <2>1. PICK i \in Ids : txns' = Append(txns, [id |-> i, end |-> "open", aborted |-> FALSE])
    BY <1>2 DEF Autobegin
  <2> DEFINE new == [id |-> i, end |-> "open", aborted |-> FALSE]
  <2>2. new \in Transactions
    BY DEF Transactions, Ends
  <2>3. /\ txns' \in Seq(Transactions) /\ Len(txns') = Len(txns) + 1
        /\ \A k \in 1..Len(txns) : txns'[k] = txns[k]
        /\ txns'[Len(txns) + 1] = new
    BY <2>1, <2>2, TransactionSequence, AppendProperties
  <2>4. DOMAIN txns' = 1..(Len(txns) + 1)
    BY <2>3, LenProperties
  <2>5. tx' = Len(txns) + 1 /\ Len(txns) < MaxTransactions
    BY <1>2, <2>3 DEF Autobegin
  <2>6. tx' \in DOMAIN txns' /\ txns'[tx'].end = "open"
    BY <2>3, <2>4, <2>5, TransactionSequence
  <2>7. Len(txns') <= MaxTransactions
    BY <2>3, <2>5, BoundsAssumption, TransactionSequence
  <2>8. \A x \in DOMAIN txns' : x \in DOMAIN txns \/ x = tx'
    BY <2>4, <2>5, TransactionSequence
  <2>9. \A x \in DOMAIN txns : x \in DOMAIN txns' /\ txns'[x] = txns[x]
    BY <2>3, <2>4, TransactionSequence
  <2>10. QED
    BY <1>2, <2>3, <2>6, <2>7, <2>8, <2>9 DEF Extended
<1>3. QED
  BY <1>1, <1>2

\* The end of a transaction, or that it is aborted, changes nothing else of it.
LEMMA ChangedTransaction ==
  ASSUME TypeOK, tx # 0, NEW t \in Transactions, txns' = [txns EXCEPT ![tx] = t]
  PROVE  /\ txns' \in Seq(Transactions) /\ Len(txns') = Len(txns)
         /\ DOMAIN txns' = DOMAIN txns
         /\ tx \in DOMAIN txns /\ txns'[tx] = t
         /\ \A x \in DOMAIN txns \ {tx} : txns'[x] = txns[x]
<1>1. tx \in 1..Len(txns) /\ txns \in Seq(Transactions) /\ DOMAIN txns = 1..Len(txns)
  BY TransactionSequence
<1>2. /\ txns' \in Seq(Transactions) /\ Len(txns') = Len(txns)
      /\ \A x \in 1..Len(txns) : txns'[x] = IF x = tx THEN t ELSE txns[x]
  BY <1>1, ExceptSeq
<1>3. DOMAIN txns' = 1..Len(txns)
  BY <1>1
<1>4. QED
  BY <1>1, <1>2, <1>3

LEMMA AbortExtends ==
  ASSUME TypeOK, tx # 0, txns' = [txns EXCEPT ![tx].aborted = TRUE], tx' = tx
  PROVE  Extended
<1> DEFINE t == [txns[tx] EXCEPT !.aborted = TRUE]
<1>1. txns[tx] \in Transactions /\ txns[tx].end = "open"
  BY TransactionSequence
<1>2. t \in Transactions /\ t.id = txns[tx].id /\ t.end = "open"
  BY <1>1 DEF Transactions
<1>3. txns' = [txns EXCEPT ![tx] = t]
  OBVIOUS
<1> HIDE DEF t
<1>4. /\ txns' \in Seq(Transactions) /\ Len(txns') = Len(txns)
      /\ DOMAIN txns' = DOMAIN txns
      /\ tx \in DOMAIN txns /\ txns'[tx] = t
      /\ \A x \in DOMAIN txns \ {tx} : txns'[x] = txns[x]
  BY <1>2, <1>3, ChangedTransaction
<1>5. Len(txns) <= MaxTransactions
  BY DEF TypeOK
<1>6. QED
  BY <1>1, <1>2, <1>4, <1>5 DEF Extended

\* What the end of a transaction does.
Closed(end) ==
  /\ txns' \in Seq(Transactions) /\ Len(txns') = Len(txns) /\ DOMAIN txns' = DOMAIN txns
  /\ tx \in DOMAIN txns /\ txns'[tx].id = txns[tx].id /\ txns'[tx].end = end
  /\ \A x \in DOMAIN txns \ {tx} : txns'[x] = txns[x]

LEMMA EndCloses ==
  ASSUME TypeOK, tx # 0, NEW end \in Ends, EndsAs(end)
  PROVE  Closed(end)
<1> DEFINE t == [txns[tx] EXCEPT !.end = end]
<1>1. txns[tx] \in Transactions
  BY TransactionSequence
<1>2. t \in Transactions /\ t.id = txns[tx].id /\ t.end = end
  BY <1>1 DEF Transactions
<1>3. txns' = [txns EXCEPT ![tx] = t]
  BY DEF EndsAs
<1> HIDE DEF t
<1>4. QED
  BY <1>2, <1>3, ChangedTransaction DEF Closed

LEMMA SessionInvInit == Init => SessionInv
<1> SUFFICES ASSUME Init PROVE SessionInv
  OBVIOUS
<1>1. TypeOK
  <2>1. Len(Tests) \in Nat
    BY TestsAssumption, LenProperties
  <2>2. /\ txns \in Seq([id : Ids, end : Ends, aborted : BOOLEAN])
        /\ executed \in Seq({<<>>} \cup Nodes) /\ events \in Seq(Events)
        /\ Len(txns) = 0 /\ Len(executed) = 0
    BY EmptySeq DEF Init
  <2>3. test \in 0..Len(Tests) /\ tx \in 0..Len(txns)
    BY <2>1, <2>2 DEF Init
  <2>4. QED
    BY <2>2, <2>3, BoundsAssumption DEF Init, TypeOK, Recordable
<1>2. NodeFacts /\ SummaryFacts /\ FinishedFacts
  BY DEF Init, NodeFacts, SummaryFacts, FinishedFacts
<1>3. TransactionFacts
  BY DEF Init, TransactionFacts, Unset
<1>4. OutcomeFacts
  BY DEF Init, OutcomeFacts, Unset
<1>5. QED
  BY <1>1, <1>2, <1>3, <1>4 DEF SessionInv

\* The test that pytest is at is one of the selected.
LEMMA CurrentTest ==
  ASSUME NEW k \in 1..Len(Tests)
  PROVE  k \in DOMAIN Tests /\ Tests[k] \in TestNames
<1>1. DOMAIN Tests = 1..Len(Tests)
  BY TestsAssumption, LenProperties
<1>2. QED
  BY <1>1 DEF TestNames

\* The node is a phase of a test or none, and so is the real place.
LEMMA Places ==
  ASSUME TypeOK, NodeFacts
  PROVE  /\ node \in {<<>>} \cup Nodes /\ Place \in {<<>>} \cup Nodes
         /\ node # <<>> => node \in Nodes
<1>1. node \in {<<>>} \cup Nodes
  BY DEF TypeOK
<1>2. Place \in {<<>>} \cup Nodes
  BY <1>1 DEF Place, NodeFacts
<1>3. QED
  BY <1>1, <1>2

\* What a statement leaves in the log of events.
LEMMA Recording ==
  ASSUME TypeOK, NodeFacts, Extended, NEW q \in Queries, NEW id \in Ids \cup {NoId},
         Record(q, id)
  PROVE  /\ events' \in Seq(Events)
         /\ node = <<>> => events' = events
         /\ node # <<>> =>
              LET e == [node |-> node, query |-> q, transaction |-> id, of |-> tx'] IN
              e \in Events /\ events' = Append(events, e)
<1>1. events \in Seq(Events)
  BY DEF TypeOK
<1>2. CASE node = <<>>
  BY <1>1, <1>2 DEF Record
<1>3. CASE node # <<>>
  <2> DEFINE e == [node |-> node, query |-> q, transaction |-> id, of |-> tx']
  <2>1. tx' \in 1..MaxTransactions
    <3>1. tx' \in DOMAIN txns' /\ txns' \in Seq(Transactions) /\ Len(txns') <= MaxTransactions
      BY DEF Extended
    <3>2. DOMAIN txns' = 1..Len(txns') /\ Len(txns') \in Nat
      BY <3>1, LenProperties
    <3>3. QED
      BY <3>1, <3>2, BoundsAssumption
  <2>2. node \in Nodes
    BY <1>3, Places
  <2>3. e \in Events
    BY <2>1, <2>2 DEF Events
  <2>4. events' = Append(events, e)
    BY <1>3 DEF Record
  <2>5. events' \in Seq(Events)
    BY <1>1, <2>3, <2>4, AppendProperties
  <2>6. QED
    BY <1>3, <2>3, <2>4, <2>5
<1>4. QED
  BY <1>2, <1>3

\* A statement, whether it fails or not.
Statement(q, id) ==
  /\ session = "running" /\ Len(executed) < MaxQueries
  /\ executed' = Append(executed, Place)
  /\ Record(q, id)
  /\ id # NoId => id = txns'[tx'].id
  /\ UNCHANGED <<pytest, outcomes, transactionOutcomes, summary, through>>

LEMMA ExecuteIsStatement ==
  ASSUME TypeOK, NEW q \in Queries, Execute(q)
  PROVE  Extended /\ \E id \in Ids \cup {NoId} : Statement(q, id)
<1>1. Extended
  BY AutobeginExtends DEF Execute
<1>2. txns'[tx'].id \in Ids
  <2>1. txns' \in Seq(Transactions) /\ tx' \in DOMAIN txns'
    BY <1>1 DEF Extended
  <2>2. txns'[tx'] \in Transactions
    BY <2>1, LenProperties, ElementOfSeq
  <2>3. QED
    BY <2>2 DEF Transactions
<1>3. Statement(q, txns'[tx'].id)
  BY DEF Execute, MayExecute, Statement
<1>4. QED
  BY <1>1, <1>2, <1>3

LEMMA FailureIsStatement ==
  ASSUME TypeOK, NEW q \in Queries, ExecuteFails(q)
  PROVE  Extended /\ Statement(q, NoId)
<1>1. Extended
  BY AbortExtends DEF ExecuteFails
<1>2. Statement(q, NoId)
  BY DEF ExecuteFails, MayExecute, Statement
<1>3. QED
  BY <1>1, <1>2

LEMMA TypeStatement ==
  ASSUME TypeOK, NodeFacts, Extended, NEW q \in Queries, NEW id \in Ids \cup {NoId},
         Statement(q, id)
  PROVE  TypeOK'
<1>1. events' \in Seq(Events)
  BY Recording DEF Statement
<1>2. executed' \in Seq({<<>>} \cup Nodes) /\ Len(executed') <= MaxQueries
  <2>1. executed \in Seq({<<>>} \cup Nodes) /\ Place \in {<<>>} \cup Nodes
    BY Places DEF TypeOK
  <2>2. executed' \in Seq({<<>>} \cup Nodes) /\ Len(executed') = Len(executed) + 1
    BY <2>1, AppendProperties DEF Statement
  <2>3. Len(executed) \in Nat /\ Len(executed) < MaxQueries
    BY <2>1, LenProperties DEF Statement
  <2>4. QED
    BY <2>2, <2>3, BoundsAssumption
<1>3. /\ txns' \in Seq([id : Ids, end : Ends, aborted : BOOLEAN])
      /\ Len(txns') <= MaxTransactions
  BY DEF Extended, Transactions
<1>4. tx' \in 0..Len(txns')
  BY <1>3, LenProperties DEF Extended
<1>5. tx' # 0 => txns'[tx'].end = "open"
  BY DEF Extended
<1>6. UNCHANGED <<session, test, phase, node, outcomes, transactionOutcomes, through, summary>>
  BY DEF Statement, pytest
<1>7. QED
  BY <1>1, <1>2, <1>3, <1>4, <1>5, <1>6 DEF TypeOK

LEMMA TypeEnd ==
  ASSUME TypeOK, tx # 0, NEW end \in Ends, EndsAs(end),
         transactionOutcomes' \in [Ids -> Recordable]
  PROVE  TypeOK'
<1>1. /\ txns' \in Seq([id : Ids, end : Ends, aborted : BOOLEAN])
      /\ Len(txns') = Len(txns)
  BY EndCloses DEF Closed, Transactions
<1>2. tx' = 0 /\ 0 \in 0..Len(txns')
  <2>1. Len(txns') \in Nat
    BY <1>1, LenProperties
  <2>2. QED
    BY <2>1 DEF EndsAs
<1>3. UNCHANGED <<session, test, phase, node, executed, events, outcomes, through, summary>>
  BY DEF EndsAs, pytest, history
<1>4. QED
  BY <1>1, <1>2, <1>3 DEF TypeOK

\* The recorded outcomes of transactions keep their type.
LEMMA TypeOutcomes ==
  ASSUME TypeOK, tx # 0
  PROVE  /\ txns[tx].id \in Ids
         /\ \A o \in {"committed", "rolled back"} :
              [transactionOutcomes EXCEPT ![txns[tx].id] = o]
                \in [Ids -> Recordable]
<1>1. txns[tx].id \in Ids
  BY TransactionSequence DEF Transactions
<1>2. transactionOutcomes \in [Ids -> Recordable]
  BY DEF TypeOK
<1>3. QED
  BY <1>1, <1>2 DEF Recordable

\* What pytest reports of a test is one of its outcomes.
LEMMA TypeReport ==
  ASSUME TypeOK, NEW name \in TestNames, NEW when, NEW outcome \in Reported
  PROVE  LogReport(name, when, outcome) \in [TestNames -> Reported \cup {Unset}]
<1>1. outcomes \in [TestNames -> Reported \cup {Unset}]
  BY DEF TypeOK
<1>2. "failed" \in Reported
  BY DEF Reported
<1>3. QED
  BY <1>1, <1>2 DEF LogReport

LEMMA FiniteTests ==
  /\ IsFiniteSet(TestNames) /\ Len(Tests) \in Nat /\ Cardinality(TestNames) <= Len(Tests)
  /\ Cardinality(TestNames) \in Nat
<1>1. Len(Tests) \in Nat /\ DOMAIN Tests = 1..Len(Tests)
  BY TestsAssumption, LenProperties
<1>2. Tests \in Surjection(1..Len(Tests), TestNames)
  <2>1. Tests \in [1..Len(Tests) -> TestNames]
    BY TestsAssumption, LenProperties DEF TestNames
  <2>2. \A t \in TestNames : \E k \in 1..Len(Tests) : Tests[k] = t
    BY <1>1 DEF TestNames
  <2>3. QED
    BY <2>1, <2>2 DEF Surjection
<1>3. IsFiniteSet(1..Len(Tests)) /\ Cardinality(1..Len(Tests)) = Len(Tests)
  <2>1. \A n \in Nat : IsFiniteSet(1..n) /\ Cardinality(1..n) = n
    <3>1. ASSUME NEW n \in Nat PROVE IsFiniteSet(1..n) /\ Cardinality(1..n) = n
      <4>1. /\ IsFiniteSet(1..n)
            /\ Cardinality(1..n) = IF 1 > n THEN 0 ELSE n - 1 + 1
        BY FS_Interval
      <4>2. QED
        BY <4>1
    <3>2. QED
      BY <3>1
  <2>2. QED
    BY <1>1, <2>1
<1>4. IsFiniteSet(TestNames) /\ Cardinality(TestNames) <= Cardinality(1..Len(Tests))
  BY <1>2, <1>3, FS_Surjection
<1>5. QED
  BY <1>1, <1>3, <1>4, FS_CardinalityType

LEMMA TypeStep == TypeOK /\ NodeFacts /\ [Next]_vars => TypeOK'
<1> SUFFICES ASSUME TypeOK, NodeFacts, [Next]_vars PROVE TypeOK'
  OBVIOUS
<1>1. CASE StartTest
  <2>1. test \in 0..Len(Tests) /\ Len(Tests) \in Nat /\ test < Len(Tests)
    BY <1>1, FiniteTests DEF StartTest, TypeOK
  <2>2. test + 1 \in 0..Len(Tests) /\ test + 1 \in 1..Len(Tests)
    BY <2>1
  <2>3. <<Tests[test + 1], "setup">> \in Nodes
    BY <2>2, CurrentTest DEF Nodes
  <2>4. UNCHANGED <<session, tx, txns, executed, events, outcomes, transactionOutcomes, through,
                    summary>>
    BY <1>1 DEF StartTest, database, recorded, history
  <2>5. test' \in 0..Len(Tests) /\ phase' = "setup" /\ node' \in Nodes
    BY <1>1, <2>2, <2>3 DEF StartTest
  <2>6. QED
    BY <2>4, <2>5 DEF TypeOK
<1>2. ASSUME NEW outcome \in Reported, EndPhase(outcome) PROVE TypeOK'
  <2>1. test \in DOMAIN Tests /\ Tests[test] \in TestNames
    BY <1>2 DEF EndPhase, NodeFacts, TestNames
  <2>2. outcomes' \in [TestNames -> Reported \cup {Unset}]
    BY <1>2, <2>1, TypeReport DEF EndPhase
  <2>3. phase' \in {"outside", "call", "teardown"}
    BY <1>2 DEF EndPhase
  <2>4. node' \in {<<>>} \cup Nodes
    BY <1>2, <2>1, <2>3 DEF EndPhase, TypeOK, Nodes
  <2>5. through' \subseteq TestNames
    BY <1>2, <2>1 DEF EndPhase, TypeOK
  <2>6. UNCHANGED <<session, test, tx, txns, executed, events, transactionOutcomes, summary>>
    BY <1>2 DEF EndPhase, database
  <2>7. QED
    BY <2>2, <2>3, <2>4, <2>5, <2>6 DEF TypeOK
<1>3. ASSUME NEW q \in Queries, Execute(q) \/ ExecuteFails(q) PROVE TypeOK'
  <2>1. Extended /\ \E id \in Ids \cup {NoId} : Statement(q, id)
    BY <1>3, ExecuteIsStatement, FailureIsStatement
  <2>2. QED
    BY <2>1, TypeStatement
<1>4. CASE Commit
  <2>1. tx # 0 /\ \E end \in {"refused", "committed"} : EndsAs(end)
    BY <1>4 DEF Commit
  <2>2. transactionOutcomes' \in [Ids -> Recordable]
    BY <1>4, TypeOutcomes DEF Commit
  <2>3. QED
    BY <2>1, <2>2, TypeEnd DEF Ends
<1>5. CASE Rollback
  <2>1. tx # 0 /\ EndsAs("rolled back")
    BY <1>5 DEF Rollback
  <2>2. transactionOutcomes' \in [Ids -> Recordable]
    BY <1>5, TypeOutcomes DEF Rollback
  <2>3. QED
    BY <2>1, <2>2, TypeEnd DEF Ends
<1>6. CASE Drop
  <2>1. tx # 0 /\ EndsAs("dropped")
    BY <1>6 DEF Drop
  <2>2. transactionOutcomes' \in [Ids -> Recordable]
    BY <1>6 DEF Drop, TypeOK
  <2>3. QED
    BY <2>1, <2>2, TypeEnd DEF Ends
<1>7. CASE SessionFinish
  <2>1. /\ Cardinality(TestNames \ With(Unset)) \in Nat
        /\ Cardinality(With("passed")) \in Nat /\ Cardinality(With("failed")) \in Nat
    <3>1. \A S \in SUBSET TestNames : Cardinality(S) \in Nat
      BY FiniteTests, FS_Subset, FS_CardinalityType
    <3>2. QED
      BY <3>1 DEF With
  <2>2. summary'[1] \in Summaries
    BY <1>7, <2>1 DEF SessionFinish, Summaries
  <2>3. UNCHANGED <<test, phase, node, tx, txns, executed, events, outcomes, transactionOutcomes,
                    through>>
    BY <1>7 DEF SessionFinish, database, history
  <2>4. QED
    BY <1>7, <2>2, <2>3 DEF SessionFinish, TypeOK
<1>8. CASE KillSession
  BY <1>8 DEF KillSession, database, recorded, history, TypeOK
<1>9. CASE UNCHANGED vars
  BY <1>9 DEF vars, pytest, database, recorded, history, TypeOK
<1>10. QED
  BY <1>1, <1>2, <1>3, <1>4, <1>5, <1>6, <1>7, <1>8, <1>9 DEF Next

LEMMA NodeStep == TypeOK /\ NodeFacts /\ [Next]_vars => NodeFacts'
<1> SUFFICES ASSUME TypeOK, NodeFacts, [Next]_vars PROVE NodeFacts'
  OBVIOUS
<1>1. CASE StartTest
  <2>1. test + 1 \in 1..Len(Tests)
    BY <1>1, FiniteTests DEF StartTest, TypeOK
  <2>2. test + 1 \in DOMAIN Tests
    BY <2>1, CurrentTest
  <2>3. QED
    BY <1>1, <2>2 DEF StartTest, NodeFacts
<1>2. ASSUME NEW outcome \in Reported, EndPhase(outcome) PROVE NodeFacts'
  <2>1. phase # "outside" /\ test' = test
    BY <1>2 DEF EndPhase
  <2>2. test \in DOMAIN Tests /\ node = <<Tests[test], phase>>
    BY <2>1 DEF NodeFacts
  <2>3. phase' = "outside" => phase = "teardown" /\ node' = node
    <3>1. phase \in {"setup", "call", "teardown"}
      BY <2>1 DEF TypeOK
    <3>2. QED
      BY <1>2, <3>1 DEF EndPhase
  <2>4. phase' # "outside" => node' = <<Tests[test], phase'>>
    BY <1>2 DEF EndPhase
  <2>5. QED
    BY <2>1, <2>2, <2>3, <2>4 DEF NodeFacts
<1>3. CASE UNCHANGED <<test, phase, node>>
  BY <1>3 DEF NodeFacts
<1>4. ASSUME NEW q \in Queries, Execute(q) \/ ExecuteFails(q) PROVE UNCHANGED <<test, phase, node>>
  BY <1>4 DEF Execute, ExecuteFails, pytest
<1>5. Commit \/ Rollback \/ Drop => UNCHANGED <<test, phase, node>>
  BY DEF Commit, Rollback, Drop, EndsAs, pytest
<1>6. SessionFinish \/ KillSession \/ UNCHANGED vars => UNCHANGED <<test, phase, node>>
  BY DEF SessionFinish, KillSession, vars, pytest
<1>7. QED
  BY <1>1, <1>2, <1>3, <1>4, <1>5, <1>6 DEF Next

\* A test that counts as passed or skipped has been through its call.
LEMMA OutcomeStep == TypeOK /\ NodeFacts /\ OutcomeFacts /\ [Next]_vars => OutcomeFacts'
<1> SUFFICES ASSUME TypeOK, NodeFacts, OutcomeFacts, [Next]_vars PROVE OutcomeFacts'
  OBVIOUS
<1>1. ASSUME NEW outcome \in Reported, EndPhase(outcome) PROVE OutcomeFacts'
  <2>1. /\ outcomes' = LogReport(Tests[test], phase, outcome)
        /\ through' = IF phase = "call" /\ outcome # "failed" THEN through \cup {Tests[test]}
                      ELSE through
    BY <1>1 DEF EndPhase
  <2>2. outcomes \in [TestNames -> Reported \cup {Unset}]
    BY DEF TypeOK
  <2>3. ASSUME NEW t \in TestNames, outcomes'[t] \in {"passed", "skipped"} PROVE t \in through'
    <3>1. CASE outcomes'[t] = outcomes[t]
      BY <2>1, <2>3, <3>1 DEF OutcomeFacts
    <3>2. CASE outcomes'[t] # outcomes[t]
      <4>1. t = Tests[test] /\ phase = "call" /\ outcome = outcomes'[t]
        BY <2>1, <2>2, <2>3, <3>2 DEF LogReport
      <4>2. QED
        BY <2>1, <2>3, <4>1
    <3>3. QED
      BY <3>1, <3>2
  <2>4. QED
    BY <2>3 DEF OutcomeFacts
<1>2. CASE UNCHANGED <<outcomes, through>>
  BY <1>2 DEF OutcomeFacts
<1>3. ASSUME NEW q \in Queries, Execute(q) \/ ExecuteFails(q) PROVE UNCHANGED <<outcomes, through>>
  BY <1>3 DEF Execute, ExecuteFails
<1>4. Commit \/ Rollback \/ Drop => UNCHANGED <<outcomes, through>>
  BY DEF Commit, Rollback, Drop, EndsAs, history
<1>5. StartTest \/ SessionFinish \/ KillSession \/ UNCHANGED vars => UNCHANGED <<outcomes, through>>
  BY DEF StartTest, SessionFinish, KillSession, vars, recorded, history
<1>6. QED
  BY <1>1, <1>2, <1>3, <1>4, <1>5 DEF Next

\* Nothing is recorded after the summary.
LEMMA SummaryStep ==
  SummaryFacts /\ FinishedFacts /\ [Next]_vars => SummaryFacts' /\ FinishedFacts'
<1> SUFFICES ASSUME SummaryFacts, FinishedFacts, [Next]_vars
             PROVE  SummaryFacts' /\ FinishedFacts'
  OBVIOUS
<1>1. CASE SessionFinish
  <2>1. session' = "finished" /\ summary' # <<>>
    BY <1>1 DEF SessionFinish
  <2>2. UNCHANGED <<outcomes, transactionOutcomes>>
    BY <1>1 DEF SessionFinish
  <2>3. /\ summary'[1].selected = Cardinality(TestNames \ With(Unset))
        /\ summary'[1].failed = Cardinality(With("failed"))
        /\ summary'[1].transactions = {i \in Ids : transactionOutcomes[i] = "committed"}
    BY <1>1 DEF SessionFinish
  <2>4. QED
    BY <2>1, <2>2, <2>3 DEF SummaryFacts, FinishedFacts, With
<1>2. CASE UNCHANGED vars
  BY <1>2 DEF vars, pytest, recorded, SummaryFacts, FinishedFacts, With
<1>3. CASE session = "running" /\ session' # "finished" /\ summary' = summary
  BY <1>3 DEF SummaryFacts, FinishedFacts
<1>4. ASSUME NEW q \in Queries, Execute(q) \/ ExecuteFails(q)
      PROVE  session = "running" /\ session' # "finished" /\ summary' = summary
  BY <1>4 DEF Execute, ExecuteFails, MayExecute, pytest
<1>5. Commit \/ Rollback \/ Drop
        => session = "running" /\ session' # "finished" /\ summary' = summary
  BY DEF Commit, Rollback, Drop, EndsAs, pytest
<1>6. ASSUME NEW outcome \in Reported, EndPhase(outcome)
      PROVE  session = "running" /\ session' # "finished" /\ summary' = summary
  BY <1>6 DEF EndPhase
<1>7. StartTest \/ KillSession => session = "running" /\ session' # "finished" /\ summary' = summary
  BY DEF StartTest, KillSession, recorded
<1>8. QED
  BY <1>1, <1>2, <1>3, <1>4, <1>5, <1>6, <1>7 DEF Next

LEMMA TransactionStatement ==
  ASSUME TypeOK, NodeFacts, TransactionFacts, Extended,
         NEW q \in Queries, NEW id \in Ids \cup {NoId}, Statement(q, id)
  PROVE  TransactionFacts'
<1>1. /\ tx' \in DOMAIN txns' /\ txns'[tx'].end = "open"
      /\ \A x \in DOMAIN txns :
           x \in DOMAIN txns' /\ txns'[x].id = txns[x].id /\ txns'[x].end = txns[x].end
      /\ \A x \in DOMAIN txns' : x \in DOMAIN txns \/ x = tx'
      /\ tx # 0 => tx' = tx
  BY DEF Extended
<1>2. ASSUME NEW k \in DOMAIN events'
      PROVE  /\ events'[k].of \in DOMAIN txns'
             /\ events'[k].transaction # NoId =>
                  events'[k].transaction = txns'[events'[k].of].id
  <2>1. CASE node = <<>>
    <3>1. events' = events
      BY <2>1, Recording DEF Statement
    <3>2. QED
      BY <1>1, <1>2, <3>1 DEF TransactionFacts
  <2>2. CASE node # <<>>
    <3> DEFINE e == [node |-> node, query |-> q, transaction |-> id, of |-> tx']
    <3>1. e \in Events /\ events' = Append(events, e) /\ events \in Seq(Events)
      BY <2>2, Recording DEF Statement, TypeOK
    <3>2. /\ Len(events) \in Nat /\ DOMAIN events = 1..Len(events)
          /\ events' \in Seq(Events) /\ Len(events') = Len(events) + 1
          /\ \A j \in 1..Len(events) : events'[j] = events[j]
          /\ events'[Len(events) + 1] = e
      BY <3>1, LenProperties, AppendProperties
    <3>3. DOMAIN events' = 1..(Len(events) + 1)
      BY <3>2, LenProperties
    <3>4. CASE k \in DOMAIN events
      BY <1>1, <3>2, <3>4 DEF TransactionFacts
    <3>5. CASE k \notin DOMAIN events
      <4>1. events'[k] = e
        BY <1>2, <3>2, <3>3, <3>5
      <4>2. id # NoId => id = txns'[tx'].id
        BY DEF Statement
      <4>3. QED
        BY <1>1, <4>1, <4>2
    <3>6. QED
      BY <3>4, <3>5
  <2>3. QED
    BY <2>1, <2>2
<1>3. ASSUME NEW x \in DOMAIN txns', txns'[x].end = "open" PROVE x = tx'
  BY <1>1, <1>3, TransactionSequence DEF TransactionFacts
<1>4. transactionOutcomes' = transactionOutcomes
  BY DEF Statement
<1>5. ASSUME NEW i \in Ids, transactionOutcomes'[i] = "committed"
      PROVE  \E x \in DOMAIN txns' : txns'[x].id = i /\ txns'[x].end \in {"committed", "refused"}
  BY <1>1, <1>4, <1>5 DEF TransactionFacts
<1>6. ASSUME NEW x \in DOMAIN txns', Unshared(txns[x].id)', txns'[x].end = "committed"
      PROVE  transactionOutcomes'[txns'[x].id] = "committed"
  <2>1. x \in DOMAIN txns /\ txns[x].end = "committed"
    BY <1>1, <1>6
  <2>2. Unshared(txns[x].id)
    BY <1>1, <1>6, <2>1 DEF Unshared
  <2>3. QED
    BY <1>1, <1>4, <2>1, <2>2 DEF TransactionFacts
<1>7. QED
  BY <1>2, <1>3, <1>5, <1>6 DEF TransactionFacts

\* What the listeners record of the end, before the server decides it.
Heard(end) ==
  LET id == txns[tx].id IN
  /\ \A i \in Ids \ {id} : transactionOutcomes'[i] = transactionOutcomes[i]
  /\ \/ end \in {"committed", "refused"} /\ transactionOutcomes'[id] = "committed"
     \/ end = "rolled back" /\ transactionOutcomes'[id] = "rolled back"
     \/ end = "dropped" /\ transactionOutcomes'[id] = transactionOutcomes[id]

LEMMA TransactionEnd ==
  ASSUME TypeOK, TransactionFacts, tx # 0, NEW end \in Ends \ {"open"}, EndsAs(end), Heard(end)
  PROVE  TransactionFacts'
<1>1. /\ DOMAIN txns' = DOMAIN txns
      /\ tx \in DOMAIN txns /\ txns[tx].end = "open" /\ txns[tx].id \in Ids
      /\ txns'[tx].id = txns[tx].id /\ txns'[tx].end = end
      /\ \A x \in DOMAIN txns \ {tx} : txns'[x] = txns[x]
  BY EndCloses, TransactionSequence, TypeOutcomes DEF Closed
<1>2. \A x \in DOMAIN txns : txns'[x].id = txns[x].id
  BY <1>1
<1>3. \A i \in Ids : Unshared(i)' <=> Unshared(i)
  BY <1>1, <1>2 DEF Unshared
<1>4. events' = events
  BY DEF EndsAs
<1>5. \A k \in DOMAIN events' :
        /\ events'[k].of \in DOMAIN txns'
        /\ events'[k].transaction # NoId => events'[k].transaction = txns'[events'[k].of].id
  BY <1>1, <1>2, <1>4 DEF TransactionFacts
<1>6. \A x \in DOMAIN txns' : txns'[x].end = "open" => x = tx'
  BY <1>1 DEF TransactionFacts
<1>7. ASSUME NEW i \in Ids, transactionOutcomes'[i] = "committed"
      PROVE  \E x \in DOMAIN txns' : txns'[x].id = i /\ txns'[x].end \in {"committed", "refused"}
  <2>1. CASE transactionOutcomes[i] = "committed"
    <3>1. PICK x \in DOMAIN txns : txns[x].id = i /\ txns[x].end \in {"committed", "refused"}
      BY <2>1 DEF TransactionFacts
    <3>2. x # tx
      BY <1>1, <3>1
    <3>3. QED
      BY <1>1, <3>1, <3>2
  <2>2. CASE transactionOutcomes[i] # "committed"
    <3>1. i = txns[tx].id /\ end \in {"committed", "refused"}
      BY <1>7, <2>2 DEF Heard
    <3>2. QED
      BY <1>1, <3>1
  <2>3. QED
    BY <2>1, <2>2
<1>8. ASSUME NEW x \in DOMAIN txns', Unshared(txns[x].id)', txns'[x].end = "committed"
      PROVE  transactionOutcomes'[txns'[x].id] = "committed"
  <2>1. x \in DOMAIN txns /\ txns[x].id \in Ids /\ txns'[x].id = txns[x].id
    BY <1>1, <1>2, TransactionSequence DEF Transactions
  <2>2. Unshared(txns[x].id)
    BY <1>2, <1>3, <1>8, <2>1
  <2>3. CASE x = tx
    BY <1>1, <1>8, <2>3 DEF Heard
  <2>4. CASE x # tx
    <3>1. txns[x].end = "committed" /\ transactionOutcomes[txns[x].id] = "committed"
      BY <1>1, <1>8, <2>1, <2>2, <2>4 DEF TransactionFacts
    <3>2. txns[x].id # txns[tx].id
      BY <1>1, <2>1, <2>2, <2>4 DEF Unshared
    <3>3. QED
      BY <2>1, <3>1, <3>2 DEF Heard
  <2>5. QED
    BY <2>3, <2>4
<1>9. QED
  BY <1>5, <1>6, <1>7, <1>8 DEF TransactionFacts

\* The listeners hear of every end but that of a dropped connection.
LEMMA TransactionStep ==
  TypeOK /\ NodeFacts /\ TransactionFacts /\ [Next]_vars => TransactionFacts'
<1> SUFFICES ASSUME TypeOK, NodeFacts, TransactionFacts, [Next]_vars PROVE TransactionFacts'
  OBVIOUS
<1>0. transactionOutcomes \in [Ids -> Recordable]
  BY DEF TypeOK
<1>1. ASSUME NEW q \in Queries, Execute(q) \/ ExecuteFails(q) PROVE TransactionFacts'
  <2>1. Extended /\ \E id \in Ids \cup {NoId} : Statement(q, id)
    BY <1>1, ExecuteIsStatement, FailureIsStatement
  <2>2. QED
    BY <2>1, TransactionStatement
<1>2. CASE Commit
  <2>1. tx # 0 /\ txns[tx].id \in Ids
    BY <1>2, TypeOutcomes DEF Commit
  <2>2. PICK end \in {"refused", "committed"} : EndsAs(end)
    BY <1>2 DEF Commit
  <2>3. transactionOutcomes' = [transactionOutcomes EXCEPT ![txns[tx].id] = "committed"]
    BY <1>2 DEF Commit
  <2>4. Heard(end)
    BY <1>0, <2>1, <2>3 DEF Heard
  <2>5. end \in Ends \ {"open"}
    BY DEF Ends
  <2>6. QED
    BY <2>1, <2>2, <2>4, <2>5, TransactionEnd
<1>3. CASE Rollback
  <2>1. tx # 0 /\ txns[tx].id \in Ids /\ EndsAs("rolled back")
    BY <1>3, TypeOutcomes DEF Rollback
  <2>2. transactionOutcomes' = [transactionOutcomes EXCEPT ![txns[tx].id] = "rolled back"]
    BY <1>3 DEF Rollback
  <2>3. Heard("rolled back")
    BY <1>0, <2>1, <2>2 DEF Heard
  <2>4. "rolled back" \in Ends \ {"open"}
    BY DEF Ends
  <2>5. QED
    BY <2>1, <2>3, <2>4, TransactionEnd
<1>4. CASE Drop
  <2>1. tx # 0 /\ EndsAs("dropped") /\ Heard("dropped")
    BY <1>4 DEF Drop, Heard
  <2>2. "dropped" \in Ends \ {"open"}
    BY DEF Ends
  <2>3. QED
    BY <2>1, <2>2, TransactionEnd
<1>5. CASE UNCHANGED <<events, tx, txns, transactionOutcomes>>
  BY <1>5 DEF TransactionFacts, Unshared
<1>6. ASSUME NEW outcome \in Reported, EndPhase(outcome)
      PROVE  UNCHANGED <<events, tx, txns, transactionOutcomes>>
  BY <1>6 DEF EndPhase, database
<1>7. StartTest \/ SessionFinish \/ KillSession \/ UNCHANGED vars
        => UNCHANGED <<events, tx, txns, transactionOutcomes>>
  BY DEF StartTest, SessionFinish, KillSession, vars, database, recorded
<1>8. QED
  BY <1>1, <1>2, <1>3, <1>4, <1>5, <1>6, <1>7 DEF Next

\* Types and facts together.
LEMMA SessionInvStep == SessionInv /\ [Next]_vars => SessionInv'
BY TypeStep, NodeStep, TransactionStep, OutcomeStep, SummaryStep DEF SessionInv

\* The variables of a session keep their types.
THEOREM SessionTypeCorrect == Spec => []TypeOK
<1>1. SessionInv => TypeOK
  BY DEF SessionInv
<1>2. QED
  BY <1>1, SessionInvInit, SessionInvStep, PTL DEF Spec

\* What the host knows of transactions.
LEMMA CommittedIsRecorded ==
  ASSUME SummaryFacts, NEW id \in Ids
  PROVE  /\ Committed(id) => transactionOutcomes[id] = "committed"
         /\ summary # <<>> /\ transactionOutcomes[id] = "committed" => Committed(id)
BY DEF Committed, Summary, SummaryFacts

LEMMA RealTransactions == SessionInv => TransactionsAreReal
<1> SUFFICES ASSUME SessionInv, NEW op \in Operations, NEW id \in Correlations(op), Unshared(id)
             PROVE  LET real == {events[k].of : k \in Correlated(op, id)} IN
                      /\ Cardinality(real) = 1
                      /\ Committed(id) =>
                           \A x \in real : txns[x].end \in {"committed", "refused"}
                      /\ session = "finished" /\ (\A x \in real : txns[x].end = "committed")
                           => Committed(id)
  BY DEF TransactionsAreReal
<1> DEFINE real == {events[k].of : k \in Correlated(op, id)}
<1>1. id # NoId /\ \E k \in DOMAIN events : k \in Correlated(op, id)
  BY DEF Correlations, Correlated, OfOperation
<1>2. \A k \in Correlated(op, id) : events[k].of \in DOMAIN txns /\ txns[events[k].of].id = id
  BY <1>1 DEF Correlated, OfOperation, SessionInv, TransactionFacts
<1>3. PICK x \in DOMAIN txns : real = {x} /\ txns[x].id = id
  <2>1. PICK k \in Correlated(op, id) : TRUE
    BY <1>1
  <2>2. events[k].of \in DOMAIN txns /\ txns[events[k].of].id = id
    BY <1>2, <2>1
  <2>3. \A j \in Correlated(op, id) : events[j].of = events[k].of
    BY <1>2, <2>2 DEF Unshared
  <2>4. real = {events[k].of}
    BY <2>1, <2>3
  <2>5. QED
    BY <2>2, <2>4
<1>4. id \in Ids
  BY <1>3, TransactionSequence DEF SessionInv, Transactions
<1>5. ASSUME Committed(id) PROVE txns[x].end \in {"committed", "refused"}
  <2>1. transactionOutcomes[id] = "committed"
    BY <1>4, <1>5, CommittedIsRecorded DEF SessionInv
  <2>2. PICK y \in DOMAIN txns : txns[y].id = id /\ txns[y].end \in {"committed", "refused"}
    BY <1>4, <2>1 DEF SessionInv, TransactionFacts
  <2>3. y = x
    BY <1>3, <2>2 DEF Unshared
  <2>4. QED
    BY <2>2, <2>3
<1>6. ASSUME session = "finished", txns[x].end = "committed" PROVE Committed(id)
  <2>1. summary # <<>>
    BY <1>6 DEF SessionInv, FinishedFacts
  <2>2. transactionOutcomes[id] = "committed"
    BY <1>3, <1>6 DEF SessionInv, TransactionFacts
  <2>3. QED
    BY <1>4, <2>1, <2>2, CommittedIsRecorded DEF SessionInv
<1>7. Cardinality(real) = 1
  BY <1>3, FS_Singleton
<1>8. QED
  BY <1>3, <1>5, <1>6, <1>7

\* A transaction of the workload is one of those that ran, with its real end,
\* in sessions of any length: unless its id was reused, or the server refused
\* the commit that was recorded before it.
THEOREM TransactionsReal == Spec => []TransactionsAreReal
BY RealTransactions, SessionInvInit, SessionInvStep, PTL DEF Spec

\* The positions of a sequence that hold one of some values.
Positions(seq, T) == {k \in DOMAIN seq : seq[k] \in T}

\* How many there are when the sequence grows.
LEMMA CountAppended ==
  ASSUME NEW S, NEW seq \in Seq(S), NEW e \in S, NEW T
  PROVE  /\ Cardinality(Positions(seq, T)) \in Nat
         /\ Cardinality(Positions(Append(seq, e), T)) =
              IF e \in T THEN Cardinality(Positions(seq, T)) + 1
              ELSE Cardinality(Positions(seq, T))
<1> DEFINE old == Positions(seq, T)
           new == Positions(Append(seq, e), T)
<1>a. /\ old = {k \in DOMAIN seq : seq[k] \in T}
      /\ new = {k \in DOMAIN Append(seq, e) : Append(seq, e)[k] \in T}
  BY DEF Positions
<1> HIDE DEF old, new
<1> SUFFICES /\ Cardinality(old) \in Nat
             /\ Cardinality(new) = IF e \in T THEN Cardinality(old) + 1 ELSE Cardinality(old)
  BY DEF old, new
<1>1. /\ Len(seq) \in Nat /\ DOMAIN seq = 1..Len(seq)
      /\ DOMAIN Append(seq, e) = 1..(Len(seq) + 1)
      /\ \A k \in 1..Len(seq) : Append(seq, e)[k] = seq[k]
      /\ Append(seq, e)[Len(seq) + 1] = e
  BY LenProperties, AppendProperties
<1>2. IsFiniteSet(old)
  <2>1. old \in SUBSET (1..Len(seq)) /\ IsFiniteSet(1..Len(seq))
    BY <1>a, <1>1, FS_Interval
  <2>2. QED
    BY <2>1, FS_Subset
<1>3. CASE e \in T
  <2>1. new = old \cup {Len(seq) + 1} /\ Len(seq) + 1 \notin old
    BY <1>a, <1>1, <1>3
  <2>2. QED
    BY <1>2, <1>3, <2>1, FS_AddElement, FS_CardinalityType
<1>4. CASE e \notin T
  <2>1. new = old
    BY <1>a, <1>1, <1>4
  <2>2. QED
    BY <1>2, <1>4, <2>1, FS_CardinalityType
<1>5. QED
  BY <1>3, <1>4

Ran(op) == {k \in DOMAIN executed : executed[k] = op}

\* What a statement adds to the two counts of an operation.
LEMMA CountStatement ==
  ASSUME TypeOK, NodeFacts, Extended, NEW q \in Queries, NEW id \in Ids \cup {NoId},
         Statement(q, id), NEW op \in Nodes
  PROVE  /\ Cardinality(Ran(op)) \in Nat /\ Cardinality(OfOperation(op)) \in Nat
         /\ Cardinality(Ran(op)') =
              IF Place = op THEN Cardinality(Ran(op)) + 1 ELSE Cardinality(Ran(op))
         /\ Cardinality(OfOperation(op)') =
              IF node = op THEN Cardinality(OfOperation(op)) + 1
              ELSE Cardinality(OfOperation(op))
<1>1. /\ Cardinality(Ran(op)) \in Nat
      /\ Cardinality(Ran(op)') =
           IF Place = op THEN Cardinality(Ran(op)) + 1 ELSE Cardinality(Ran(op))
  <2>1. executed \in Seq({<<>>} \cup Nodes) /\ Place \in {<<>>} \cup Nodes
    BY Places DEF TypeOK
  <2>2. executed' = Append(executed, Place)
    BY DEF Statement
  <2>3. Ran(op) = Positions(executed, {op})
    BY DEF Ran, Positions
  <2>4. Ran(op)' = Positions(Append(executed, Place), {op})
    BY <2>2 DEF Ran, Positions
  <2>5. QED
    BY <2>1, <2>3, <2>4, CountAppended
<1>2. /\ Cardinality(OfOperation(op)) \in Nat
      /\ Cardinality(OfOperation(op)') =
           IF node = op THEN Cardinality(OfOperation(op)) + 1 ELSE Cardinality(OfOperation(op))
  <2> DEFINE T == {e \in Events : e.node = op}
  <2>1. events \in Seq(Events) /\ DOMAIN events = 1..Len(events)
    BY LenProperties DEF TypeOK
  <2>2. \A k \in DOMAIN events : events[k] \in Events
    BY <2>1, ElementOfSeq
  <2>3. OfOperation(op) = Positions(events, T)
    BY <2>2 DEF OfOperation, Positions
  <2>4. CASE node = <<>>
    <3>a. node # op
      BY <2>4 DEF Nodes
    <3>1. events' = events /\ node # op
      BY <2>4, <3>a, Recording DEF Statement
    <3>2. IsFiniteSet(1..Len(events)) /\ OfOperation(op) \in SUBSET (1..Len(events))
      BY <2>1, LenProperties, FS_Interval DEF OfOperation
    <3>3. Cardinality(OfOperation(op)) \in Nat
      BY <3>2, FS_Subset, FS_CardinalityType
    <3>4. QED
      BY <3>1, <3>3 DEF OfOperation
  <2>5. CASE node # <<>>
    <3> DEFINE e == [node |-> node, query |-> q, transaction |-> id, of |-> tx']
    <3>1. e \in Events /\ events' = Append(events, e) /\ events' \in Seq(Events)
      BY <2>5, Recording DEF Statement
    <3>2. \A k \in DOMAIN events' : events'[k] \in Events
      BY <3>1, LenProperties, ElementOfSeq
    <3>3. OfOperation(op)' = Positions(Append(events, e), T)
      BY <3>1, <3>2 DEF OfOperation, Positions
    <3>4. e \in T <=> node = op
      BY <3>1
    <3> HIDE DEF e, T
    <3>5. QED
      BY <2>1, <2>3, <3>1, <3>3, <3>4, CountAppended
  <2>6. QED
    BY <2>4, <2>5
<1>3. QED
  BY <1>1, <1>2

\* Outside a teardown the node is the real place, and after one it is either.
LEMMA NodeIsPlace ==
  ASSUME NodeFacts, NEW op \in Nodes
  PROVE  /\ Place = op => node = op
         /\ node = op /\ op[2] # "teardown" => Place = op
<1>1. op # <<>>
  BY DEF Nodes
<1>2. CASE phase = "outside"
  BY <1>1, <1>2 DEF NodeFacts, Place
<1>3. CASE phase # "outside"
  BY <1>3 DEF NodeFacts, Place
<1>4. QED
  BY <1>2, <1>3

LEMMA RecordingStep ==
  TypeOK /\ NodeFacts /\ EveryQueryIsRecorded /\ [Next]_vars => EveryQueryIsRecorded'
<1> SUFFICES ASSUME TypeOK, NodeFacts, EveryQueryIsRecorded, [Next]_vars
             PROVE  EveryQueryIsRecorded'
  OBVIOUS
<1>0. EveryQueryIsRecorded <=>
        \A op \in Nodes : /\ Cardinality(OfOperation(op)) >= Cardinality(Ran(op))
                          /\ op[2] # "teardown" =>
                               Cardinality(OfOperation(op)) = Cardinality(Ran(op))
  BY DEF EveryQueryIsRecorded, Ran
<1>1. ASSUME NEW q \in Queries, Execute(q) \/ ExecuteFails(q) PROVE EveryQueryIsRecorded'
  <2>1. Extended
    BY <1>1, ExecuteIsStatement, FailureIsStatement
  <2>2. PICK id \in Ids \cup {NoId} : Statement(q, id)
    BY <1>1, ExecuteIsStatement, FailureIsStatement
  <2>3. ASSUME NEW op \in Nodes
        PROVE  /\ Cardinality(OfOperation(op)') >= Cardinality(Ran(op)')
               /\ op[2] # "teardown" =>
                    Cardinality(OfOperation(op)') = Cardinality(Ran(op)')
    BY <1>0, <2>1, <2>2, CountStatement, NodeIsPlace
  <2>4. QED
    BY <2>3 DEF EveryQueryIsRecorded, Ran
<1>2. CASE UNCHANGED <<events, executed>>
  BY <1>2 DEF EveryQueryIsRecorded, OfOperation
<1>3. ASSUME NEW outcome \in Reported, EndPhase(outcome) PROVE UNCHANGED <<events, executed>>
  BY <1>3 DEF EndPhase
<1>4. Commit \/ Rollback \/ Drop => UNCHANGED <<events, executed>>
  BY DEF Commit, Rollback, Drop, EndsAs, history
<1>5. StartTest \/ SessionFinish \/ KillSession \/ UNCHANGED vars => UNCHANGED <<events, executed>>
  BY DEF StartTest, SessionFinish, KillSession, vars, recorded, history
<1>6. QED
  BY <1>1, <1>2, <1>3, <1>4, <1>5 DEF Next

\* Every statement in a phase of a test has its event in the operation of that
\* phase, failed or not, in sessions of any number of tests and statements; only
\* a teardown's operation may have more, of statements before the next test.
THEOREM QueriesRecorded == Spec => []EveryQueryIsRecorded
<1>1. Init => EveryQueryIsRecorded
  <2> SUFFICES ASSUME Init, NEW op \in Nodes
               PROVE  OfOperation(op) = {} /\ {k \in DOMAIN executed : executed[k] = op} = {}
    BY FS_EmptySet DEF EveryQueryIsRecorded
  <2>1. QED
    BY DEF Init, OfOperation
<1>2. TypeOK /\ NodeFacts /\ EveryQueryIsRecorded /\ [Next]_vars => EveryQueryIsRecorded'
  BY RecordingStep
<1>3. SessionInv => TypeOK /\ NodeFacts
  BY DEF SessionInv
<1>4. QED
  BY <1>1, <1>2, <1>3, SessionInvInit, SessionInvStep, PTL DEF Spec

\* A session whose summary counts every test, and none as failed, has finished,
\* and each of its tests has been through its call.
LEMMA FullSummary ==
  ASSUME SessionInv, TestNames # {},
         Summary.selected = Len(Tests), Summary.failed = 0
  PROVE  session = "finished" /\ through = TestNames
<1>1. /\ Len(Tests) \in Nat /\ Cardinality(TestNames) \in Nat /\ IsFiniteSet(TestNames)
      /\ Cardinality(TestNames) <= Len(Tests)
  BY FiniteTests
<1>2. Cardinality(TestNames) # 0
  BY <1>1, FS_EmptySet
<1>3. summary # <<>>
  BY <1>1, <1>2 DEF Summary
<1>4. /\ session = "finished"
      /\ Cardinality(TestNames \ With(Unset)) = Len(Tests)
      /\ Cardinality(With("failed")) = 0
  BY <1>3 DEF Summary, SessionInv, SummaryFacts
<1>5. With(Unset) = {}
  <2>1. /\ Cardinality(TestNames \ With(Unset)) <= Cardinality(TestNames)
        /\ Cardinality(TestNames) = Cardinality(TestNames \ With(Unset))
             => TestNames = TestNames \ With(Unset)
    BY <1>1, FS_Subset
  <2>2. TestNames = TestNames \ With(Unset)
    BY <1>1, <1>4, <2>1
  <2>3. QED
    BY <2>2 DEF With
<1>6. With("failed") = {}
  <2>1. IsFiniteSet(With("failed"))
    BY <1>1, FS_Subset DEF With
  <2>2. QED
    BY <1>4, <2>1, FS_EmptySet
<1>7. ASSUME NEW t \in TestNames PROVE t \in through
  <2>1. outcomes \in [TestNames -> Reported \cup {Unset}]
    BY DEF SessionInv, TypeOK
  <2>2. outcomes[t] # Unset /\ outcomes[t] # "failed"
    BY <1>5, <1>6 DEF With
  <2>3. outcomes[t] \in {"passed", "skipped"}
    BY <2>1, <2>2 DEF Reported
  <2>4. QED
    BY <2>3 DEF SessionInv, OutcomeFacts
<1>8. through \subseteq TestNames
  BY DEF SessionInv, TypeOK
<1>9. QED
  BY <1>4, <1>7, <1>8

LEMMA VerifiedPassed == SessionInv => VerifiedMeansPassed
<1> SUFFICES ASSUME SessionInv, NEW op \in Operations, NEW b \in Baselines(op),
                    Verified(b, Workload, op)
             PROVE  session = "finished" /\ through = TestNames
  BY DEF VerifiedMeansPassed
<1>1. b.selected = Len(Tests)
  BY DEF Baselines
<1>2. Summary.selected = Len(Tests) /\ Summary.failed = 0
  BY <1>1 DEF Verified, Workload
<1>3. TestNames # {}
  <2>1. events \in Seq(Events)
    BY DEF SessionInv, TypeOK
  <2>2. op \in Nodes
    <3>1. PICK k \in DOMAIN events : op = events[k].node
      BY DEF Operations
    <3>2. events[k] \in Events
      BY <2>1, LenProperties, ElementOfSeq
    <3>3. QED
      BY <3>1, <3>2 DEF Events
  <2>3. QED
    BY <2>2 DEF Nodes
<1>4. QED
  BY <1>2, <1>3, FullSummary

\* Against a baseline of a full session, a treatment is verified only if its own
\* session ran to its end with every test through its call, however the process
\* was killed and the tests skipped or failed.
THEOREM VerifiedPasses == Spec => []VerifiedMeansPassed
BY VerifiedPassed, SessionInvInit, SessionInvStep, PTL DEF Spec
=============================================================================
