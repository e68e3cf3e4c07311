-------------------------- MODULE ExperimentProofs --------------------------
(***************************************************************************)
(* Measurements leave no trace and compare only what they say they do, for *)
(* any candidates, settings and number of runs, wherever a statement fails *)
(* or a cancellation or the deadline strikes.  Then, apart from it: what   *)
(* generate_candidates proposes serves the query, for any catalog and      *)
(* budget.                                                                 *)
(***************************************************************************)
EXTENDS Experiment, SequenceTheorems, FiniteSetTheorems, WellFoundedInduction, TLAPS

(***************************************************************************)
(* The inductive invariant                                                 *)
(***************************************************************************)

ArmSteps == {"a1", "apply", "b", "revert", "a2"}
InExperiment == ArmSteps \cup {"set", "restore"}

\* The candidate of the measurement, and the indexes its first arm had.
Treated == job.candidate
Without == arms["a1"][1]

\* The settings whose values run_experiment has saved.
Saved == From(1, previous)

\* The session's benchmark values are those run_experiment will put back or
\* could not, in a call and outside it; and autocommit is only on inside one.
SettingFacts ==
  /\ previous \in 0..Len(Settings)
  /\ pc.step = "set" => previous <= SettingsToApply
  /\ pc.step \in InExperiment => benchmark \subseteq Saved \cup leaked /\ held \subseteq leaked
  /\ pc.step \notin InExperiment => benchmark \subseteq leaked
  /\ pc.step \in {"idle", "write_before", "build", "write_after", "drop"} => autocommit = FALSE

\* What is neither given up nor under measurement is not in the database.
IndexFacts ==
  IF pc.step \in {"b", "revert", "write_after", "drop"}
  THEN indexes \subseteq abandoned \cup {Treated}
  ELSE indexes \subseteq abandoned

\* Only an error of the write cost leaves its transaction aborted.
AbortFacts ==
  /\ pc.step # "idle" => ~aborted
  /\ pc.step \in {"write_before", "build", "write_after", "drop"} => job.verify
  /\ aborted => job.verify /\ stop = "error"

\* How far the three arms got, and which indexes each of them saw.
ArmFacts ==
  /\ arms = [a \in Arms |-> arms[a]]
  /\ pc.step \in ArmSteps \cup {"set"} => stop = "no" /\ arms["a2"] = <<>>
  /\ pc.step = "apply" => arms["a1"] = <<indexes>>
  /\ pc.step \in {"b", "revert"} => Treated \notin Without /\ indexes = Without \cup {Treated}
  /\ pc.step = "revert" => arms["b"] = <<indexes>>
  /\ pc.step = "a2" => /\ Treated \notin Without /\ indexes = Without
                       /\ arms["b"] = <<Without \cup {Treated}>>
  /\ pc.step = "restore" /\ arms["a2"] # <<>> =>
       /\ stop = "no" /\ Treated \notin Without
       /\ arms["b"] = <<Without \cup {Treated}>> /\ arms["a2"] = <<Without>>

\* The same of the two halves of the write cost.
CostFacts ==
  /\ costs = [h \in {"before", "after"} |-> costs[h]]
  /\ pc.step \in InExperiment \cup {"write_before", "build", "write_after"} =>
       costs["after"] = <<>>
  /\ pc.step = "build" => costs["before"] = <<indexes>>
  /\ pc.step = "write_after" =>
       Treated \notin costs["before"][1] /\ indexes = costs["before"][1] \cup {Treated}

\* A hypothetical index outlives its estimate only when an error ends the
\* screening.
ScreeningFacts ==
  /\ broken \in BOOLEAN
  /\ ~broken => baseline = {}
  /\ ~broken /\ pc.step \notin {"reset", "hypothesise", "estimate"} => hypothetical = {}
  /\ pc.step = "hypothesise" => hypothetical = {}
  /\ pc.step = "estimate" => hypothetical = {Candidate}

ScreenedIsSequence == screened \in Seq({screened[k] : k \in DOMAIN screened})

ExperimentInv ==
  /\ SettingFacts /\ IndexFacts /\ AbortFacts
  /\ ArmFacts /\ ConclusiveIsControlled
  /\ CostFacts /\ CostsBracketTheBuild
  /\ ScreeningFacts /\ ScreenedIsSequence /\ EstimatesAreComparable

LEMMA SavedKept == UNCHANGED previous => UNCHANGED Saved
BY DEF Saved, From

LEMMA PhaseSteps == \A k \in DOMAIN Phases : Phases[k] \in ArmSteps
BY DEF Phases, ArmSteps

\* A step that the checks let through is the one they guarded; the others end
\* the measurement, and give up what is in the database.
LEMMA CheckMoves ==
  ASSUME CheckStop
  PROVE  /\ pc.step \in ArmSteps
         /\ \/ pc'.step = pc.step /\ UNCHANGED <<stop, abandoned>>
            \/ /\ pc'.step = "restore" /\ stop' \in {"cancelled", "timed_out"}
               /\ GivesUp(pc.step)
<1>1. PICK k \in DOMAIN Phases :
        /\ Checking(Phases[k])
        /\ \/ /\ stop' = IF cancelled THEN "cancelled" ELSE "timed_out"
              /\ Goto("restore") /\ GivesUp(Phases[k])
           \/ Goto(Phases[k]) /\ UNCHANGED <<stop, abandoned>>
  BY DEF CheckStop
<1>2. pc.step = Phases[k] /\ Phases[k] \in ArmSteps
  BY <1>1, PhaseSteps DEF Checking
<1>3. QED
  BY <1>1, <1>2 DEF Goto

LEMMA ExperimentInvInit == Init => ExperimentInv
<1> SUFFICES ASSUME Init PROVE ExperimentInv
  OBVIOUS
<1>1. pc.step = "idle"
  BY DEF Init, At
<1>2. SettingFacts /\ IndexFacts /\ AbortFacts
  BY <1>1, SettingsAssumption, LenProperties
  DEF Init, SettingFacts, IndexFacts, AbortFacts, InExperiment, ArmSteps
<1>3. ArmFacts /\ ConclusiveIsControlled
  BY <1>1 DEF Init, ArmFacts, ConclusiveIsControlled, Nothing, Arms, ArmSteps
<1>4. CostFacts /\ CostsBracketTheBuild
  BY <1>1 DEF Init, CostFacts, CostsBracketTheBuild, NoCosts, InExperiment, ArmSteps
<1>5. ScreeningFacts /\ ScreenedIsSequence /\ EstimatesAreComparable
  <2>1. screened \in Seq({screened[k] : k \in DOMAIN screened}) /\ DOMAIN screened = {}
    BY EmptySeq DEF Init
  <2>2. QED
    BY <1>1, <2>1 DEF Init, ScreeningFacts, ScreenedIsSequence, EstimatesAreComparable
<1>6. QED
  BY <1>2, <1>3, <1>4, <1>5 DEF ExperimentInv

LEMMA ScreeningEnds ==
  ASSUME NEW error, EndScreening(error)
  PROVE  pc'.step = "idle" /\ broken' = (broken \/ error)
BY DEF EndScreening, Goto

\* Cancelling moves nothing else than what it names.
LEMMA CandidateKept == UNCHANGED <<proposal, screened>> => UNCHANGED Candidate
BY DEF Candidate, Proposed

\* A sequence that grows keeps its elements.
LEMMA Appended ==
  ASSUME NEW s, s \in Seq({s[k] : k \in DOMAIN s}), NEW e
  PROVE  LET t == Append(s, e) IN
         /\ t \in Seq({t[k] : k \in DOMAIN t})
         /\ \A k \in DOMAIN t : t[k] = e \/ (k \in DOMAIN s /\ t[k] = s[k])
<1> DEFINE S == {s[k] : k \in DOMAIN s} \cup {e}
           t == Append(s, e)
<1>1. s \in Seq(S) /\ e \in S
  BY SeqDef, LenProperties
<1> HIDE DEF S
<1>2. /\ Len(s) \in Nat /\ DOMAIN s = 1..Len(s) /\ DOMAIN t = 1..(Len(s) + 1)
      /\ \A k \in 1..Len(s) : t[k] = s[k]
      /\ t[Len(s) + 1] = e /\ t \in Seq(S) /\ Len(t) = Len(s) + 1
  BY <1>1, LenProperties, AppendProperties
<1>3. \A k \in DOMAIN t : t[k] = e \/ (k \in DOMAIN s /\ t[k] = s[k])
  <2>1. ASSUME NEW k \in DOMAIN t PROVE k \in 1..Len(s) \/ k = Len(s) + 1
    BY <1>2, <2>1
  <2>2. QED
    BY <1>2, <2>1, Zenon
<1>4. t \in Seq({t[k] : k \in DOMAIN t})
  BY <1>2
<1>5. QED
  BY <1>3, <1>4

\* Every setting is put back by the call that set it, or a failing SET leaks it.
LEMMA SettingStep == SettingFacts /\ [Next]_vars => SettingFacts'
<1> SUFFICES ASSUME SettingFacts, [Next]_vars PROVE SettingFacts'
  OBVIOUS
<1> USE DEF SettingFacts, InExperiment, ArmSteps, At, Goto, GotoCheck, database,
   connection, signals, saved, measured, screening, measuring, SettingsToApply
<1> DEFINE next == From(previous + 1, previous + 1)
<1>0. Len(Settings) \in Nat /\ DOMAIN Settings = 1..Len(Settings)
  BY SettingsAssumption, LenProperties
<1>1. CASE Start
  <2>1. Saved' = {}
    BY <1>1 DEF Start, Saved, From
  <2>2. previous' = 0 /\ held' = {} /\ benchmark' = benchmark /\ leaked' = leaked
        /\ pc'.step = "set" /\ benchmark \subseteq leaked
    BY <1>1 DEF Start
  <2>3. (previous <= SettingsToApply)'
    BY <1>0, <2>2
  <2>4. QED
    BY <1>0, <2>1, <2>2, <2>3
<1>2. CASE ApplySetting
  <2>1. /\ benchmark \subseteq Saved \cup leaked /\ held \subseteq leaked
        /\ previous <= SettingsToApply /\ UNCHANGED job
    BY <1>2 DEF ApplySetting
  <2>2. CASE /\ previous < SettingsToApply /\ previous' = previous + 1
             /\ held' = held \cup (next \cap benchmark)
             /\ benchmark' = benchmark \cup next
             /\ UNCHANGED <<autocommit, pc, stop, leaked>>
    <3>1. previous \in 0..Len(Settings) /\ previous + 1 \in 1..Len(Settings)
      BY <1>0, <2>2
    <3>2. Saved' = Saved \cup next /\ next \cap Saved = {}
      BY <1>0, <2>2, <3>1, SettingsAssumption DEF Saved, From
    <3> HIDE DEF next
    <3>3. held' \subseteq leaked' /\ benchmark' \subseteq Saved' \cup leaked'
      BY <2>1, <2>2, <3>2
    <3>4. previous' \in 0..Len(Settings) /\ (previous <= SettingsToApply)'
      BY <1>0, <2>1, <2>2, <3>1
    <3>5. QED
      BY <1>2, <2>2, <3>3, <3>4 DEF ApplySetting
  <2>3. CASE /\ previous = SettingsToApply /\ GotoCheck("a1")
             /\ UNCHANGED <<benchmark, autocommit, saved, stop>>
    BY <2>1, <2>3, SavedKept
  <2>4. CASE /\ autocommit' = FALSE /\ Goto("idle")
             /\ leaked' = leaked \cup Saved /\ UNCHANGED <<benchmark, previous, held>>
    BY <2>1, <2>4
  <2>5. QED
    BY <1>2, <2>2, <2>3, <2>4 DEF ApplySetting, Saved
<1>3. CASE CheckStop
  BY <1>3, CheckMoves, SavedKept DEF CheckStop
<1>4. CASE MeasureArm("a1", "apply")
  BY <1>4, SavedKept DEF MeasureArm, Fail, GivesUp
<1>5. CASE Apply
  BY <1>5, SavedKept DEF Apply, Fail, GivesUp
<1>6. CASE MeasureArm("b", "revert")
  BY <1>6, SavedKept DEF MeasureArm, Fail, GivesUp
<1>7. CASE Revert
  BY <1>7, SavedKept DEF Revert, Fail, GivesUp
<1>8. CASE MeasureArm("a2", "restore")
  BY <1>8, SavedKept DEF MeasureArm, Fail, GivesUp
<1>9. CASE Restore
  <2>1. PICK n \in 0..previous :
          /\ benchmark' = benchmark \ (From(1, n) \ held)
          /\ leaked' = leaked \cup From(n + 1, previous)
    BY <1>9 DEF Restore
  <2>2. Saved \subseteq From(1, n) \cup From(n + 1, previous)
    <3>1. ASSUME NEW k \in 1..previous PROVE k \in 1..n \/ k \in (n + 1)..previous
      BY <1>0, <2>1
    <3>2. QED
      BY <3>1 DEF Saved, From
  <2>3. benchmark \subseteq Saved \cup leaked /\ held \subseteq leaked
    BY <1>9 DEF Restore
  <2>4. benchmark' \subseteq leaked'
    BY <2>1, <2>2, <2>3
  <2>5. autocommit' = FALSE /\ previous' = previous /\ pc'.step \in {"idle", "write_before"}
    BY <1>9 DEF Restore, EndExperiment
  <2>6. QED
    BY <1>0, <2>4, <2>5
<1>10. CASE MeasureBefore
  BY <1>10 DEF MeasureBefore, MeasureAfter, GiveUp
<1>11. CASE Build
  BY <1>11 DEF Build, GiveUp
<1>12. CASE MeasureAfter
  BY <1>12 DEF MeasureBefore, MeasureAfter, GiveUp
<1>13. CASE Drop
  BY <1>13 DEF Drop, GiveUp
<1>14. CASE StartScreening
  BY <1>14 DEF StartScreening
<1>15. CASE CreateExtension
  BY <1>15 DEF CreateExtension, EndScreening
<1>16. CASE EstimateBaseline
  BY <1>16 DEF EstimateBaseline, EndScreening
<1>17. CASE Reset
  BY <1>17 DEF Reset, NextCandidate, EndScreening
<1>18. CASE Hypothesise
  BY <1>18 DEF Hypothesise
<1>19. CASE EstimateCandidate
  BY <1>19 DEF EstimateCandidate, EndScreening
<1>20. CASE Cancel
  BY <1>20, SavedKept DEF Cancel
<1>21. CASE Tick
  BY <1>21, SavedKept DEF Tick
<1>22. CASE UNCHANGED vars
  BY <1>22, SavedKept DEF vars
<1>23. QED
  BY <1>1, <1>2, <1>3, <1>4, <1>5, <1>6, <1>7, <1>8, <1>9, <1>10, <1>11,
     <1>12, <1>13, <1>14, <1>15, <1>16, <1>17, <1>18, <1>19, <1>20, <1>21, <1>22 DEF Next

\* Every way out of a measurement drops its candidate or gives it up.
LEMMA IndexStep == IndexFacts /\ [Next]_vars => IndexFacts'
<1> SUFFICES ASSUME IndexFacts, [Next]_vars PROVE IndexFacts'
  OBVIOUS
<1> USE DEF IndexFacts, Treated, GivesUp, Treating, At, Goto, GotoCheck, database, connection,
   signals, saved, measured, screening, measuring
<1>1. CASE Start
  BY <1>1 DEF Start
<1>2. CASE ApplySetting
  BY <1>2 DEF ApplySetting, SettingsToApply
<1>3. CASE CheckStop
  BY <1>3, CheckMoves DEF CheckStop, ArmSteps
<1>4. CASE MeasureArm("a1", "apply")
  BY <1>4 DEF MeasureArm, Fail, GivesUp
<1>5. CASE Apply
  BY <1>5 DEF Apply, Fail, GivesUp
<1>6. CASE MeasureArm("b", "revert")
  BY <1>6 DEF MeasureArm, Fail, GivesUp
<1>7. CASE Revert
  BY <1>7 DEF Revert, Fail, GivesUp
<1>8. CASE MeasureArm("a2", "restore")
  BY <1>8 DEF MeasureArm, Fail, GivesUp
<1>9. CASE Restore
  BY <1>9 DEF Restore, EndExperiment
<1>10. CASE MeasureBefore
  BY <1>10 DEF MeasureBefore, MeasureAfter, GiveUp
<1>11. CASE Build
  BY <1>11 DEF Build, GiveUp
<1>12. CASE MeasureAfter
  BY <1>12 DEF MeasureBefore, MeasureAfter, GiveUp
<1>13. CASE Drop
  BY <1>13 DEF Drop, GiveUp
<1>14. CASE StartScreening
  BY <1>14 DEF StartScreening
<1>15. CASE CreateExtension
  BY <1>15 DEF CreateExtension, EndScreening
<1>16. CASE EstimateBaseline
  BY <1>16 DEF EstimateBaseline, EndScreening
<1>17. CASE Reset
  BY <1>17 DEF Reset, NextCandidate, EndScreening
<1>18. CASE Hypothesise
  BY <1>18 DEF Hypothesise
<1>19. CASE EstimateCandidate
  BY <1>19 DEF EstimateCandidate, EndScreening
<1>20. CASE Cancel
  BY <1>20 DEF Cancel
<1>21. CASE Tick
  BY <1>21 DEF Tick
<1>22. CASE UNCHANGED vars
  BY <1>22 DEF vars
<1>23. QED
  BY <1>1, <1>2, <1>3, <1>4, <1>5, <1>6, <1>7, <1>8, <1>9, <1>10, <1>11,
     <1>12, <1>13, <1>14, <1>15, <1>16, <1>17, <1>18, <1>19, <1>20, <1>21, <1>22 DEF Next

\* An aborted transaction is rolled back by the next call.
LEMMA AbortStep == AbortFacts /\ [Next]_vars => AbortFacts'
<1> SUFFICES ASSUME AbortFacts, [Next]_vars PROVE AbortFacts'
  OBVIOUS
<1> USE DEF AbortFacts, ArmSteps, At, Goto, GotoCheck, database, connection, signals,
   saved, measured, screening, measuring
<1>1. CASE Start
  BY <1>1 DEF Start
<1>2. CASE ApplySetting
  BY <1>2 DEF ApplySetting, SettingsToApply
<1>3. CASE CheckStop
  BY <1>3, CheckMoves DEF CheckStop, ArmSteps
<1>4. CASE MeasureArm("a1", "apply")
  BY <1>4 DEF MeasureArm, Fail, GivesUp
<1>5. CASE Apply
  BY <1>5 DEF Apply, Fail, GivesUp
<1>6. CASE MeasureArm("b", "revert")
  BY <1>6 DEF MeasureArm, Fail, GivesUp
<1>7. CASE Revert
  BY <1>7 DEF Revert, Fail, GivesUp
<1>8. CASE MeasureArm("a2", "restore")
  BY <1>8 DEF MeasureArm, Fail, GivesUp
<1>9. CASE Restore
  BY <1>9 DEF Restore, EndExperiment
<1>10. CASE MeasureBefore
  BY <1>10 DEF MeasureBefore, MeasureAfter, GiveUp
<1>11. CASE Build
  BY <1>11 DEF Build, GiveUp
<1>12. CASE MeasureAfter
  BY <1>12 DEF MeasureBefore, MeasureAfter, GiveUp
<1>13. CASE Drop
  BY <1>13 DEF Drop, GiveUp
<1>14. CASE StartScreening
  BY <1>14 DEF StartScreening
<1>15. CASE CreateExtension
  BY <1>15 DEF CreateExtension, EndScreening
<1>16. CASE EstimateBaseline
  BY <1>16 DEF EstimateBaseline, EndScreening
<1>17. CASE Reset
  BY <1>17 DEF Reset, NextCandidate, EndScreening
<1>18. CASE Hypothesise
  BY <1>18 DEF Hypothesise
<1>19. CASE EstimateCandidate
  BY <1>19 DEF EstimateCandidate, EndScreening
<1>20. CASE Cancel
  BY <1>20 DEF Cancel
<1>21. CASE Tick
  BY <1>21 DEF Tick
<1>22. CASE UNCHANGED vars
  BY <1>22 DEF vars
<1>23. QED
  BY <1>1, <1>2, <1>3, <1>4, <1>5, <1>6, <1>7, <1>8, <1>9, <1>10, <1>11,
     <1>12, <1>13, <1>14, <1>15, <1>16, <1>17, <1>18, <1>19, <1>20, <1>21, <1>22 DEF Next

\* Each arm sees the indexes of the first with or without the candidate.
LEMMA ArmStep == ArmFacts /\ [Next]_vars => ArmFacts'
<1> SUFFICES ASSUME ArmFacts, [Next]_vars PROVE ArmFacts'
  OBVIOUS
<1> USE DEF ArmFacts, ArmSteps, Arms, Nothing, Treated, Without, At, Goto, GotoCheck,
   database, connection, signals, saved, measured, screening, measuring
<1>1. CASE Start
  BY <1>1 DEF Start
<1>2. CASE ApplySetting
  BY <1>2 DEF ApplySetting, SettingsToApply
<1>3. CASE CheckStop
  BY <1>3, CheckMoves DEF CheckStop
<1>4. CASE MeasureArm("a1", "apply")
  BY <1>4 DEF MeasureArm, Fail, GivesUp
<1>5. CASE Apply
  BY <1>5 DEF Apply, Fail, GivesUp
<1>6. CASE MeasureArm("b", "revert")
  BY <1>6 DEF MeasureArm, Fail, GivesUp
<1>7. CASE Revert
  <2>1. Without' = Without /\ Treated' = Treated /\ arms' = arms
    BY <1>7 DEF Revert
  <2>2. /\ stop = "no" /\ arms["a2"] = <<>> /\ arms["b"] = <<indexes>>
        /\ Treated \notin Without /\ indexes = Without \cup {Treated}
    BY <1>7 DEF Revert
  <2>3. CASE indexes' = indexes \ {job.candidate} /\ GotoCheck("a2") /\ UNCHANGED stop
    <3>1. indexes' = Without
      BY <2>2, <2>3
    <3>2. QED
      BY <2>1, <2>2, <2>3, <3>1
  <2>4. CASE Fail("ddl", "revert")
    BY <2>1, <2>2, <2>4 DEF Fail, GivesUp
  <2>5. QED
    BY <1>7, <2>3, <2>4 DEF Revert
<1>8. CASE MeasureArm("a2", "restore")
  BY <1>8 DEF MeasureArm, Fail, GivesUp
<1>9. CASE Restore
  BY <1>9 DEF Restore, EndExperiment
<1>10. CASE MeasureBefore
  BY <1>10 DEF MeasureBefore, MeasureAfter, GiveUp
<1>11. CASE Build
  BY <1>11 DEF Build, GiveUp
<1>12. CASE MeasureAfter
  BY <1>12 DEF MeasureBefore, MeasureAfter, GiveUp
<1>13. CASE Drop
  BY <1>13 DEF Drop, GiveUp
<1>14. CASE StartScreening
  BY <1>14 DEF StartScreening
<1>15. CASE CreateExtension
  BY <1>15 DEF CreateExtension, EndScreening
<1>16. CASE EstimateBaseline
  BY <1>16 DEF EstimateBaseline, EndScreening
<1>17. CASE Reset
  BY <1>17 DEF Reset, NextCandidate, EndScreening
<1>18. CASE Hypothesise
  BY <1>18 DEF Hypothesise
<1>19. CASE EstimateCandidate
  BY <1>19 DEF EstimateCandidate, EndScreening
<1>20. CASE Cancel
  BY <1>20 DEF Cancel
<1>21. CASE Tick
  BY <1>21 DEF Tick
<1>22. CASE UNCHANGED vars
  BY <1>22 DEF vars
<1>23. QED
  BY <1>1, <1>2, <1>3, <1>4, <1>5, <1>6, <1>7, <1>8, <1>9, <1>10, <1>11,
     <1>12, <1>13, <1>14, <1>15, <1>16, <1>17, <1>18, <1>19, <1>20, <1>21, <1>22 DEF Next

\* The halves of the write cost see the indexes before and after the build.
LEMMA CostStep == CostFacts /\ [Next]_vars => CostFacts'
<1> SUFFICES ASSUME CostFacts, [Next]_vars PROVE CostFacts'
  OBVIOUS
<1> USE DEF CostFacts, NoCosts, InExperiment, ArmSteps, Treated, At, Goto, GotoCheck,
   database, connection, signals, saved, measured, screening, measuring
<1>1. CASE Start
  BY <1>1 DEF Start
<1>2. CASE ApplySetting
  BY <1>2 DEF ApplySetting, SettingsToApply
<1>3. CASE CheckStop
  BY <1>3, CheckMoves DEF CheckStop
<1>4. CASE MeasureArm("a1", "apply")
  BY <1>4 DEF MeasureArm, Fail, GivesUp
<1>5. CASE Apply
  BY <1>5 DEF Apply, Fail, GivesUp
<1>6. CASE MeasureArm("b", "revert")
  BY <1>6 DEF MeasureArm, Fail, GivesUp
<1>7. CASE Revert
  BY <1>7 DEF Revert, Fail, GivesUp
<1>8. CASE MeasureArm("a2", "restore")
  BY <1>8 DEF MeasureArm, Fail, GivesUp
<1>9. CASE Restore
  BY <1>9 DEF Restore, EndExperiment
<1>10. CASE MeasureBefore
  BY <1>10 DEF MeasureBefore, MeasureAfter, GiveUp
<1>11. CASE Build
  BY <1>11 DEF Build, GiveUp
<1>12. CASE MeasureAfter
  BY <1>12 DEF MeasureBefore, MeasureAfter, GiveUp
<1>13. CASE Drop
  BY <1>13 DEF Drop, GiveUp
<1>14. CASE StartScreening
  BY <1>14 DEF StartScreening
<1>15. CASE CreateExtension
  BY <1>15 DEF CreateExtension, EndScreening
<1>16. CASE EstimateBaseline
  BY <1>16 DEF EstimateBaseline, EndScreening
<1>17. CASE Reset
  BY <1>17 DEF Reset, NextCandidate, EndScreening
<1>18. CASE Hypothesise
  BY <1>18 DEF Hypothesise
<1>19. CASE EstimateCandidate
  BY <1>19 DEF EstimateCandidate, EndScreening
<1>20. CASE Cancel
  BY <1>20 DEF Cancel
<1>21. CASE Tick
  BY <1>21 DEF Tick
<1>22. CASE UNCHANGED vars
  BY <1>22 DEF vars
<1>23. QED
  BY <1>1, <1>2, <1>3, <1>4, <1>5, <1>6, <1>7, <1>8, <1>9, <1>10, <1>11,
     <1>12, <1>13, <1>14, <1>15, <1>16, <1>17, <1>18, <1>19, <1>20, <1>21, <1>22 DEF Next

\* Only an error leaves a hypothetical index in the session.
LEMMA ScreeningStep == ScreeningFacts /\ [Next]_vars => ScreeningFacts'
<1> SUFFICES ASSUME ScreeningFacts, [Next]_vars PROVE ScreeningFacts'
  OBVIOUS
<1> USE DEF ScreeningFacts, At, Goto, GotoCheck, database, connection, signals,
   saved, measured, screening, measuring
<1>1. CASE Start
  BY <1>1 DEF Start
<1>2. CASE ApplySetting
  BY <1>2 DEF ApplySetting, SettingsToApply
<1>3. CASE CheckStop
  BY <1>3, CheckMoves, CandidateKept DEF CheckStop, ArmSteps
<1>4. CASE MeasureArm("a1", "apply")
  BY <1>4 DEF MeasureArm, Fail, GivesUp
<1>5. CASE Apply
  BY <1>5 DEF Apply, Fail, GivesUp
<1>6. CASE MeasureArm("b", "revert")
  BY <1>6 DEF MeasureArm, Fail, GivesUp
<1>7. CASE Revert
  BY <1>7 DEF Revert, Fail, GivesUp
<1>8. CASE MeasureArm("a2", "restore")
  BY <1>8 DEF MeasureArm, Fail, GivesUp
<1>9. CASE Restore
  BY <1>9 DEF Restore, EndExperiment
<1>10. CASE MeasureBefore
  BY <1>10 DEF MeasureBefore, MeasureAfter, GiveUp
<1>11. CASE Build
  BY <1>11 DEF Build, GiveUp
<1>12. CASE MeasureAfter
  BY <1>12 DEF MeasureBefore, MeasureAfter, GiveUp
<1>13. CASE Drop
  BY <1>13 DEF Drop, GiveUp
<1>14. CASE StartScreening
  BY <1>14 DEF StartScreening
<1>15. CASE CreateExtension
  BY <1>15 DEF CreateExtension, EndScreening
<1>16. CASE EstimateBaseline
  <2>1. CASE EndScreening(TRUE)
    <3>1. pc'.step = "idle" /\ broken'
      BY <2>1, Zenon DEF EndScreening, Goto
    <3>2. QED
      BY <3>1
  <2>2. CASE baseline' = hypothetical /\ Goto("reset") /\ UNCHANGED <<autocommit, broken>>
    BY <1>16, <2>2 DEF EstimateBaseline
  <2>3. QED
    BY <1>16, <2>1, <2>2 DEF EstimateBaseline
<1>17. CASE Reset
  <2>1. CASE EndScreening(TRUE)
    <3>1. pc'.step = "idle" /\ broken' /\ baseline' = baseline
      BY <1>17, <2>1, Zenon DEF EndScreening, Goto, Reset
    <3>2. QED
      BY <3>1
  <2>2. CASE hypothetical' = {} /\ NextCandidate
    BY <1>17, <2>2, CandidateKept DEF Reset, NextCandidate, EndScreening
  <2>3. QED
    BY <1>17, <2>1, <2>2 DEF Reset
<1>18. CASE Hypothesise
  BY <1>18, CandidateKept DEF Hypothesise
<1>19. CASE EstimateCandidate
  <2>1. CASE EndScreening(TRUE)
    <3>1. pc'.step = "idle" /\ broken'
      BY <2>1, Zenon DEF EndScreening, Goto
    <3>2. QED
      BY <3>1
  <2>2. CASE Goto("reset") /\ UNCHANGED <<autocommit, broken>>
    BY <1>19, <2>2 DEF EstimateCandidate
  <2>3. QED
    BY <1>19, <2>1, <2>2 DEF EstimateCandidate
<1>20. CASE Cancel
  BY <1>20, CandidateKept DEF Cancel
<1>21. CASE Tick
  BY <1>21, CandidateKept DEF Tick
<1>22. CASE UNCHANGED vars
  BY <1>22, CandidateKept DEF vars
<1>23. QED
  BY <1>1, <1>2, <1>3, <1>4, <1>5, <1>6, <1>7, <1>8, <1>9, <1>10, <1>11,
     <1>12, <1>13, <1>14, <1>15, <1>16, <1>17, <1>18, <1>19, <1>20, <1>21, <1>22 DEF Next

\* A result is only made by Restore, of three arms that Controlled what they saw.
LEMMA ResultStep ==
  ArmFacts /\ ConclusiveIsControlled /\ [Next]_vars => ConclusiveIsControlled'
<1> SUFFICES ASSUME ArmFacts, ConclusiveIsControlled, [Next]_vars
             PROVE  ConclusiveIsControlled'
  OBVIOUS
<1>1. CASE UNCHANGED result
  BY <1>1 DEF ConclusiveIsControlled
<1>2. ASSUME Restore, NEW noise \in BOOLEAN, result' = <<Result(noise)>>
      PROVE  ConclusiveIsControlled'
  <2>1. SUFFICES ASSUME ~Result(noise).inconclusive PROVE ConclusiveIsControlled'
    BY <1>2 DEF ConclusiveIsControlled
  <2>2. Complete
    BY <2>1 DEF Result
  <2>3. /\ stop = "no" /\ Treated \notin Without /\ arms["a1"] # <<>>
        /\ arms["b"] = <<Without \cup {Treated}>> /\ arms["a2"] = <<Without>>
    BY <1>2, <2>2 DEF Restore, At, ArmFacts, Complete, Arms
  <2>4. /\ result'[1].arms = arms /\ result'[1].candidate = Treated
        /\ result'[1].cancelled = FALSE /\ result'[1].timed_out = FALSE
    BY <1>2, <2>3 DEF Result, Treated
  <2>5. QED
    BY <2>2, <2>3, <2>4 DEF ConclusiveIsControlled, Complete, Arms, Without
<1>3. CASE Restore
  BY <1>1, <1>2, <1>3 DEF Restore, EndExperiment
<1>4. CASE UNCHANGED measured
  BY <1>1, <1>4 DEF measured
<1>5. QED
  BY <1>1, <1>3, <1>4 DEF Next, vars, measured, measuring,
     Start, ApplySetting, CheckStop, MeasureArm, Apply, Revert, MeasureBefore, MeasureAfter,
     Build, Drop, StartScreening, CreateExtension, EstimateBaseline, Reset, Hypothesise,
     EstimateCandidate, Cancel, Tick

\* The second half of the write cost is only measured after the build.
LEMMA BracketStep ==
  CostFacts /\ CostsBracketTheBuild /\ [Next]_vars => CostsBracketTheBuild'
<1> SUFFICES ASSUME CostFacts, CostsBracketTheBuild, [Next]_vars
             PROVE  CostsBracketTheBuild'
  OBVIOUS
<1>1. CASE UNCHANGED <<costs, job>>
  BY <1>1 DEF CostsBracketTheBuild
<1>2. CASE Start
  BY <1>2 DEF Start, NoCosts, CostsBracketTheBuild
<1>3. CASE MeasureBefore
  BY <1>3 DEF MeasureBefore, MeasureAfter, GiveUp, CostFacts, CostsBracketTheBuild, At
<1>4. CASE MeasureAfter
  <2>1. /\ Treated \notin costs["before"][1] /\ indexes = costs["before"][1] \cup {Treated}
        /\ costs = [h \in {"before", "after"} |-> costs[h]] /\ costs["after"] = <<>>
    BY <1>4 DEF MeasureBefore, MeasureAfter, CostFacts, At
  <2>2. CASE UNCHANGED costs
    BY <1>4, <2>1, <2>2 DEF MeasureBefore, MeasureAfter, CostsBracketTheBuild
  <2>3. CASE costs' = [costs EXCEPT !["after"] = <<indexes>>]
    <3>1. costs'["before"] = costs["before"] /\ costs'["after"] = <<indexes>>
      BY <2>1, <2>3
    <3>2. QED
      BY <1>4, <2>1, <3>1 DEF MeasureBefore, MeasureAfter, CostsBracketTheBuild, Treated
  <2>4. QED
    BY <1>4, <2>2, <2>3 DEF MeasureBefore, MeasureAfter
<1>5. QED
  BY <1>1, <1>2, <1>3, <1>4 DEF Next, vars, measured, measuring,
     ApplySetting, CheckStop, MeasureArm, Apply, Revert, Restore, Build, Drop,
     StartScreening, CreateExtension, EstimateBaseline, Reset, Hypothesise,
     EstimateCandidate, Cancel, Tick

\* Each estimate is taken with the one hypothetical index of its candidate.
LEMMA EstimateStep ==
  ASSUME ScreeningFacts, ScreenedIsSequence, EstimatesAreComparable, [Next]_vars,
         ScreeningFacts'
  PROVE  ScreenedIsSequence' /\ EstimatesAreComparable'
<1> DEFINE Own(r) == r.after # <<>> => r.after[1] = {r.candidate}
<1>1. /\ \A k \in DOMAIN screened : Own(screened[k])
      /\ ~broken' => baseline' = {}
  BY DEF EstimatesAreComparable, ScreeningFacts
<1>2. SUFFICES ScreenedIsSequence' /\ \A k \in DOMAIN screened' : Own(screened'[k])
  BY <1>1 DEF EstimatesAreComparable
<1>3. CASE UNCHANGED screened
  BY <1>1, <1>3 DEF ScreenedIsSequence
<1>4. CASE screened' = <<>>
  BY <1>4, EmptySeq DEF ScreenedIsSequence
<1>5. ASSUME NEW r, screened' = Append(screened, r), Own(r)
      PROVE  ScreenedIsSequence' /\ \A k \in DOMAIN screened' : Own(screened'[k])
  <2> HIDE DEF Own
  <2>1. /\ screened' \in Seq({screened'[k] : k \in DOMAIN screened'})
        /\ \A k \in DOMAIN screened' : \/ screened'[k] = r
                                       \/ k \in DOMAIN screened /\ screened'[k] = screened[k]
    BY <1>5, Appended DEF ScreenedIsSequence
  <2>2. QED
    BY <1>1, <1>5, <2>1 DEF ScreenedIsSequence
<1>6. CASE Hypothesise
  <2> DEFINE r == [candidate |-> Candidate, after |-> <<>>]
  <2>1. screened' = screened \/ screened' = Append(screened, r)
    BY <1>6 DEF Hypothesise
  <2>2. Own(r)
    OBVIOUS
  <2> HIDE DEF r, Own
  <2>3. QED
    BY <1>3, <1>5, <2>1, <2>2
<1>7. CASE EstimateCandidate
  <2> DEFINE r == [candidate |-> Candidate, after |-> <<hypothetical>>]
  <2>1. screened' = screened \/ screened' = Append(screened, r)
    BY <1>7 DEF EstimateCandidate
  <2>2. hypothetical = {Candidate}
    BY <1>7 DEF EstimateCandidate, At, ScreeningFacts
  <2>3. Own(r)
    BY <2>2
  <2> HIDE DEF r, Own
  <2>4. QED
    BY <1>3, <1>5, <2>1, <2>3
<1>8. QED
  BY <1>3, <1>4, <1>6, <1>7 DEF Next, vars, screening, measured, measuring,
     Start, ApplySetting, CheckStop, MeasureArm, Apply, Revert, Restore, MeasureBefore, MeasureAfter,
     Build, Drop, StartScreening, CreateExtension, EstimateBaseline, Reset, Cancel, Tick

\* Whatever fails and whenever the caller cancels, what a call leaves in the
\* session has the cause OnlyFailuresLeaveTraces names: for any candidates,
\* settings and number of calls.
THEOREM TracesHaveCauses == Spec => []OnlyFailuresLeaveTraces
<1> DEFINE Inv == SettingFacts /\ IndexFacts /\ AbortFacts /\ ScreeningFacts
<1>1. Init => Inv
  BY ExperimentInvInit DEF ExperimentInv
<1>2. Inv /\ [Next]_vars => Inv'
  BY SettingStep, IndexStep, AbortStep, ScreeningStep
<1>3. Inv => OnlyFailuresLeaveTraces
  BY DEF SettingFacts, IndexFacts, AbortFacts, ScreeningFacts, OnlyFailuresLeaveTraces, At,
         InExperiment, ArmSteps
<1> HIDE DEF Inv
<1>4. QED
  BY <1>1, <1>2, <1>3, PTL DEF Spec

\* Every conclusive result, every write cost and every screening estimate
\* compares the database with and without one candidate and nothing else,
\* whatever fails and whenever the caller cancels.
THEOREM ControlledComparisons == Spec => []ComparisonsAreControlled
<1> DEFINE Inv == /\ ArmFacts /\ ConclusiveIsControlled /\ CostFacts /\ CostsBracketTheBuild
                  /\ ScreeningFacts /\ ScreenedIsSequence /\ EstimatesAreComparable
<1>1. Init => Inv
  BY ExperimentInvInit DEF ExperimentInv
<1>2. Inv /\ [Next]_vars => Inv'
  BY ArmStep, ResultStep, CostStep, BracketStep, ScreeningStep, EstimateStep
<1>3. Inv => ComparisonsAreControlled
  BY DEF ComparisonsAreControlled
<1> HIDE DEF Inv
<1>4. QED
  BY <1>1, <1>2, <1>3, PTL DEF Spec

(***************************************************************************)
(* Lists                                                                   *)
(***************************************************************************)

\* Every set of naturals that is not empty has its Min.
LEMMA MinIsLeast ==
  ASSUME NEW S \in SUBSET Nat, S # {}
  PROVE  Min(S) \in S /\ \A n \in S : Min(S) <= n
<1> DEFINE R == StrictSubsetOrdering(Nat)
           T == {0..n : n \in S}
<1>1. T \subseteq FiniteSubsetsOf(Nat) /\ T # {}
  <2>1. ASSUME NEW n \in S PROVE 0..n \in FiniteSubsetsOf(Nat)
    <3>1. IsFiniteSet(0..n) /\ 0..n \subseteq Nat
      BY FS_Interval
    <3>2. QED
      BY <3>1 DEF FiniteSubsetsOf
  <2>2. QED
    BY <2>1
<1>2. \E x \in T : \A y \in T : ~(<<y, x>> \in R)
  <2> HIDE DEF T
  <2>1. IsWellFoundedOn(R, FiniteSubsetsOf(Nat))
    BY FS_StrictSubsetOrderingWellFounded
  <2>2. QED
    BY <1>1, <2>1, WFMin
<1>3. PICK m \in S : \A n \in S : ~(<<0..n, 0..m>> \in R)
  BY <1>2
<1>4. ASSUME NEW n \in S, ~(m <= n) PROVE FALSE
  <2>1. 0..n \subseteq 0..m /\ m \in 0..m /\ m \notin 0..n
    BY <1>4
  <2>2. <<0..n, 0..m>> \in R
    BY <2>1 DEF StrictSubsetOrdering
  <2>3. QED
    BY <1>3, <2>2
<1>5. QED
  BY <1>4 DEF Min

StrictOrderOn(S, order) ==
  /\ \A x \in S : <<x, x>> \notin order
  /\ \A x, y, z \in S : <<x, y>> \in order /\ <<y, z>> \in order => <<x, z>> \in order
  /\ \A x, y \in S : x = y \/ <<x, y>> \in order \/ <<y, x>> \in order

\* Ranks are numbers below the cardinality, and follow the order.
LEMMA RanksFollow ==
  ASSUME NEW S, IsFiniteSet(S), NEW order, StrictOrderOn(S, order)
  PROVE  /\ \A x \in S : Rank(S, order, x) \in 0..(Cardinality(S) - 1)
         /\ \A x, y \in S : <<x, y>> \in order => Rank(S, order, x) < Rank(S, order, y)
<1> DEFINE Before(x) == {y \in S : <<y, x>> \in order}
<1>1. Cardinality(S) \in Nat
  BY FS_CardinalityType
<1>2. \A x \in S : /\ IsFiniteSet(Before(x)) /\ Cardinality(Before(x)) \in Nat
                   /\ Cardinality(Before(x)) < Cardinality(S)
  <2>1. SUFFICES ASSUME NEW x \in S
                 PROVE  /\ IsFiniteSet(Before(x)) /\ Cardinality(Before(x)) \in Nat
                        /\ Cardinality(Before(x)) < Cardinality(S)
    OBVIOUS
  <2>2. Before(x) \subseteq S /\ x \notin Before(x)
    BY DEF StrictOrderOn
  <2> HIDE DEF Before
  <2>3. /\ IsFiniteSet(Before(x)) /\ Cardinality(Before(x)) <= Cardinality(S)
        /\ Cardinality(Before(x)) # Cardinality(S)
    BY <2>2, FS_Subset
  <2>4. Cardinality(Before(x)) \in Nat
    BY <2>3, FS_CardinalityType
  <2>5. QED
    BY <1>1, <2>3, <2>4
<1>3. \A x, y \in S : <<x, y>> \in order => Cardinality(Before(x)) < Cardinality(Before(y))
  <2>1. SUFFICES ASSUME NEW x \in S, NEW y \in S, <<x, y>> \in order
                 PROVE  Cardinality(Before(x)) < Cardinality(Before(y))
    OBVIOUS
  <2>2. Before(x) \subseteq Before(y) /\ x \in Before(y) /\ x \notin Before(x)
    BY <2>1 DEF StrictOrderOn
  <2>3. IsFiniteSet(Before(y)) /\ Cardinality(Before(x)) \in Nat /\ Cardinality(Before(y)) \in Nat
    BY <1>2
  <2> HIDE DEF Before
  <2>4. Cardinality(Before(x)) <= Cardinality(Before(y)) /\ Cardinality(Before(x)) # Cardinality(Before(y))
    BY <2>2, <2>3, FS_Subset
  <2>5. QED
    BY <2>3, <2>4
<1>4. \A x : Rank(S, order, x) = Cardinality(Before(x))
  BY DEF Rank
<1> HIDE DEF Before
<1>5. \A x \in S : Cardinality(Before(x)) \in 0..(Cardinality(S) - 1)
  BY <1>1, <1>2
<1>6. QED
  BY <1>3, <1>4, <1>5

\* A finite set is listed in its order, each element at its rank.
LEMMA InOrderLists ==
  ASSUME NEW S, IsFiniteSet(S), NEW order, StrictOrderOn(S, order)
  PROVE  /\ InOrder(S, order) \in [1..Cardinality(S) -> S]
         /\ \A n \in 1..Cardinality(S) : Rank(S, order, InOrder(S, order)[n]) = n - 1
         /\ \A x \in S : InOrder(S, order)[Rank(S, order, x) + 1] = x
<1> DEFINE c == Cardinality(S)
           r == [x \in S |-> Rank(S, order, x) + 1]
<1>0. c \in Nat
  BY FS_CardinalityType
<1>1. r \in [S -> 1..c] /\ \A x, y \in S : <<x, y>> \in order => r[x] < r[y]
  <2>1. \A x \in S : Rank(S, order, x) \in 0..(c - 1)
    BY RanksFollow
  <2>2. \A x, y \in S : <<x, y>> \in order => Rank(S, order, x) < Rank(S, order, y)
    BY RanksFollow
  <2> HIDE DEF c
  <2>3. \A x \in S : Rank(S, order, x) \in Nat /\ Rank(S, order, x) + 1 \in 1..c
    BY <1>0, <2>1
  <2>4. \A x, y \in S : <<x, y>> \in order => Rank(S, order, x) + 1 < Rank(S, order, y) + 1
    BY <2>2, <2>3
  <2>5. QED
    BY <2>3, <2>4
<1>2. \A x \in S : r[x] = Rank(S, order, x) + 1 /\ Rank(S, order, x) \in Nat
  <2>1. \A x \in S : Rank(S, order, x) \in 0..(c - 1)
    BY RanksFollow
  <2>2. QED
    BY <1>0, <2>1
<1> HIDE DEF r
<1>3. \A x, y \in S : r[x] = r[y] => x = y
  <2>1. SUFFICES ASSUME NEW x \in S, NEW y \in S, r[x] = r[y] PROVE x = y
    OBVIOUS
  <2>2. r[x] \in 1..c /\ r[y] \in 1..c
    BY <1>1
  <2>3. ~(<<x, y>> \in order) /\ ~(<<y, x>> \in order)
    BY <1>0, <1>1, <2>1, <2>2
  <2>4. QED
    BY <2>3 DEF StrictOrderOn
<1>4. \A n \in 1..c : \E x \in S : r[x] = n
  <2>1. r \in Injection(S, 1..c)
    BY <1>1, <1>3 DEF Injection, IsInjective
  <2>2. IsFiniteSet(1..c) /\ Cardinality(1..c) = c
    BY <1>0, FS_Interval
  <2>3. r \in Surjection(S, 1..c)
    BY <2>1, <2>2, FS_Injection
  <2>4. QED
    BY <2>3 DEF Surjection
<1> DEFINE s == InOrder(S, order)
<1>5. DOMAIN s = 1..c /\ \A n \in 1..c : s[n] = CHOOSE x \in S : Rank(S, order, x) = n - 1
  BY DEF InOrder
<1> HIDE DEF s
<1>6. \A n \in 1..c : s[n] \in S /\ r[s[n]] = n
  <2>1. SUFFICES ASSUME NEW n \in 1..c PROVE s[n] \in S /\ r[s[n]] = n
    OBVIOUS
  <2>2. PICK x \in S : r[x] = n
    BY <1>4
  <2>3. Rank(S, order, x) = n - 1 /\ n \in Nat
    BY <1>0, <1>2, <2>2
  <2>4. s[n] \in S /\ Rank(S, order, s[n]) = n - 1
    BY <1>5, <2>3
  <2>5. QED
    BY <1>2, <2>3, <2>4
<1>7. s \in [1..c -> S]
  <2>1. s = InOrder(S, order) /\ InOrder(S, order) = [n \in 1..c |-> CHOOSE x \in S : Rank(S, order, x) = n - 1]
    BY DEF s, InOrder
  <2>2. QED
    BY <1>5, <1>6, <2>1
<1>8. \A n \in 1..c : Rank(S, order, s[n]) = n - 1
  BY <1>0, <1>2, <1>6
<1>9. \A x \in S : s[Rank(S, order, x) + 1] = x
  <2>1. SUFFICES ASSUME NEW x \in S PROVE s[r[x]] = x
    BY <1>2
  <2>2. r[x] \in 1..c
    BY <1>1
  <2>3. s[r[x]] \in S /\ r[s[r[x]]] = r[x]
    BY <1>6, <2>2
  <2>4. QED
    BY <1>3, <2>3
<1>10. QED
  BY <1>7, <1>8, <1>9 DEF s

\* Positions are listed with nothing added or lost.
LEMMA PositionsListed ==
  ASSUME NEW S \in SUBSET Nat, IsFiniteSet(S)
  PROVE  /\ Cardinality(S) \in Nat
         /\ ByPosition(S) \in [1..Cardinality(S) -> S]
         /\ \A k \in S : \E n \in 1..Cardinality(S) : ByPosition(S)[n] = k
<1> DEFINE order == {p \in S \X S : p[1] < p[2]}
<1>1. StrictOrderOn(S, order)
  <2>1. \A x \in S : <<x, x>> \notin order
    OBVIOUS
  <2>2. \A x, y, z \in S : <<x, y>> \in order /\ <<y, z>> \in order => <<x, z>> \in order
    <3>1. \A x, y, z \in Nat : x < y /\ y < z => x < z
      OBVIOUS
    <3>2. QED
      BY <3>1
  <2>3. \A x, y \in S : x = y \/ <<x, y>> \in order \/ <<y, x>> \in order
    <3>1. \A x, y \in Nat : x = y \/ x < y \/ y < x
      OBVIOUS
    <3>2. QED
      BY <3>1
  <2>4. QED
    BY <2>1, <2>2, <2>3 DEF StrictOrderOn
<1>2. Cardinality(S) \in Nat
  BY FS_CardinalityType
<1>3. ByPosition(S) = InOrder(S, order)
  BY DEF ByPosition
<1> HIDE DEF order
<1>4. /\ InOrder(S, order) \in [1..Cardinality(S) -> S]
      /\ \A x \in S : InOrder(S, order)[Rank(S, order, x) + 1] = x
  BY <1>1, InOrderLists
<1>5. \A x \in S : Rank(S, order, x) \in 0..(Cardinality(S) - 1)
  BY <1>1, RanksFollow
<1>6. \A x \in S : Rank(S, order, x) + 1 \in 1..Cardinality(S)
  BY <1>2, <1>5
<1>7. QED
  BY <1>2, <1>3, <1>4, <1>6

(***************************************************************************)
(* What is extracted from a query                                          *)
(***************************************************************************)

LEMMA QueryFacts ==
  ASSUME NEW q \in Queries
  PROVE  /\ Len(q.relations) \in Nat /\ DOMAIN q.relations = 1..Len(q.relations)
         /\ \A r \in DOMAIN q.relations : q.relations[r] \in Tables
         /\ Len(q.where) \in Nat /\ DOMAIN q.where = 1..Len(q.where)
         /\ \A k \in DOMAIN q.where :
              /\ q.where[k].table \in ToSet(q.relations)
              /\ q.where[k].column \in Columns(q.where[k].table)
              /\ q.where[k].plain \in BOOLEAN /\ q.where[k].parameter \in BOOLEAN
<1>1. /\ q.relations \in Seq(Tables) /\ q.where \in Seq(ToSet(q.where))
      /\ \A k \in DOMAIN q.where :
           /\ q.where[k].table \in ToSet(q.relations)
           /\ q.where[k].column \in Columns(q.where[k].table)
           /\ q.where[k].plain \in BOOLEAN /\ q.where[k].parameter \in BOOLEAN
  BY QueriesAssumption
<1>2. /\ Len(q.relations) \in Nat /\ DOMAIN q.relations = 1..Len(q.relations)
      /\ \A r \in 1..Len(q.relations) : q.relations[r] \in Tables
  BY <1>1, LenProperties, ElementOfSeq
<1>3. Len(q.where) \in Nat /\ DOMAIN q.where = 1..Len(q.where)
  BY <1>1, LenProperties
<1>4. QED
  BY <1>1, <1>2, <1>3

\* A name that one relation has is resolved to that relation.
LEMMA Resolved ==
  ASSUME NEW q \in Queries, ~Ambiguous(q), NEW k \in DOMAIN q.where
  PROVE  Having(q, ColumnOf(q, k)) # {} /\ TableOf(q, k) = q.where[k].table
<1> DEFINE w == q.where[k]
           name == w.column
           T == {t \in ToSet(q.relations) : name \in Columns(t)}
           H == Having(q, name)
<1>1. /\ H \subseteq Nat /\ H \subseteq DOMAIN q.relations
      /\ \A r \in H : name \in Columns(q.relations[r])
  BY QueryFacts DEF Having
<1>2. w.table \in T
  BY QueryFacts
<1>3. H # {}
  BY <1>2 DEF Having, ToSet
<1>4. Min(H) \in H
  <2> HIDE DEF H
  <2>1. QED
    BY <1>1, <1>3, MinIsLeast
<1>5. q.relations[Min(H)] \in T
  BY <1>1, <1>4 DEF ToSet
<1>6. IsFiniteSet(ToSet(q.relations))
  <2>1. q.relations \in [1..Len(q.relations) -> Tables]
    BY QueryFacts, QueriesAssumption, LenProperties
  <2>2. q.relations \in Surjection(1..Len(q.relations), ToSet(q.relations))
    BY <2>1 DEF Surjection, ToSet
  <2>3. Len(q.relations) \in Int
    BY QueryFacts
  <2>4. IsFiniteSet(1..Len(q.relations))
    BY <2>3, FS_Interval
  <2>5. QED
    BY <2>2, <2>4, FS_Surjection
<1>7. \A a, b \in T : a = b
  <2>1. SUFFICES ASSUME NEW a \in T, NEW b \in T, a # b PROVE FALSE
    OBVIOUS
  <2>2. IsFiniteSet(T) /\ Cardinality(T) \in Nat
    BY <1>6, FS_Subset, FS_CardinalityType
  <2>3. IsFiniteSet({a}) /\ Cardinality({a}) = 1
    BY FS_Singleton
  <2>4. IsFiniteSet({a} \cup {b}) /\ Cardinality({a} \cup {b}) = 2
    <3>1. b \notin {a}
      BY <2>1
    <3>2. /\ IsFiniteSet({a} \cup {b})
          /\ Cardinality({a} \cup {b}) = IF b \in {a} THEN Cardinality({a}) ELSE Cardinality({a}) + 1
      BY ONLY <2>3, FS_AddElement
    <3>3. QED
      BY <2>3, <3>1, <3>2
  <2>5. {a} \cup {b} \subseteq T
    OBVIOUS
  <2>6. Cardinality({a} \cup {b}) <= Cardinality(T)
    BY <2>2, <2>5, FS_Subset
  <2>7. Cardinality(T) > 1
    BY <2>2, <2>4, <2>6
  <2>8. QED
    BY <2>7 DEF Ambiguous
<1>8. q.relations[Min(H)] = w.table
  BY <1>2, <1>5, <1>7
<1>9. QED
  BY <1>3, <1>8 DEF TableOf, Resolve, ColumnOf

LEMMA KindsDiffer == Equality # Range_ /\ Equality # NoKind /\ Range_ # NoKind
BY DEF Equality, Range_, NoKind

\* A kind says which operator compares a column of which type.
LEMMA KindSays ==
  ASSUME NEW operator, NEW type
  PROVE  /\ KindFor(operator, type) \in {Equality, Range_, NoKind}
         /\ KindFor(operator, type) = Equality <=> operator = "="
         /\ KindFor(operator, type) = Range_ <=> operator = "<" /\ type \in {"number", "time"}
BY KindsDiffer DEF KindFor

\* The predicates of a table are its plain comparisons with a parameter, by their kinds.
LEMMA PredicatesAre ==
  ASSUME NEW q \in Queries, ~Ambiguous(q), NEW table \in ToSet(q.relations)
  PROVE  /\ EqualitiesOf(q, table) =
              {k \in DOMAIN q.where : LET w == q.where[k] IN
                 w.plain /\ w.parameter /\ w.table = table /\ w.operator = "="}
         /\ RangesOf(q, table) =
              {k \in DOMAIN q.where : LET w == q.where[k] IN
                 w.plain /\ w.parameter /\ w.table = table /\ w.operator = "<"
                   /\ TypeOf[table][w.column] # "other"}
<1>1. \A k \in DOMAIN q.where : LET w == q.where[k] IN
        k \in PredicatesOf(q, table) <=>
          w.plain /\ w.parameter /\ w.table = table /\ KindOf(q, k) # NoKind
  BY Resolved DEF PredicatesOf, ExtractPredicates, Found
<1>2. PredicatesOf(q, table) \subseteq DOMAIN q.where
  BY DEF PredicatesOf, ExtractPredicates, Found
<1>3. \A k \in DOMAIN q.where : LET w == q.where[k] IN w.table = table =>
        /\ KindOf(q, k) \in {Equality, Range_, NoKind}
        /\ KindOf(q, k) = Equality <=> w.operator = "="
        /\ KindOf(q, k) = Range_ <=> w.operator = "<" /\ TypeOf[table][w.column] # "other"
  <2>1. SUFFICES ASSUME NEW k \in DOMAIN q.where, q.where[k].table = table
                 PROVE  LET w == q.where[k] IN
                        /\ KindOf(q, k) \in {Equality, Range_, NoKind}
                        /\ KindOf(q, k) = Equality <=> w.operator = "="
                        /\ KindOf(q, k) = Range_ <=>
                             w.operator = "<" /\ TypeOf[table][w.column] # "other"
    OBVIOUS
  <2>2. KindOf(q, k) = KindFor(q.where[k].operator, TypeOf[table][q.where[k].column])
    BY <2>1, Resolved DEF KindOf, ColumnOf
  <2>3. table \in Tables /\ q.where[k].column \in Columns(table)
    BY <2>1, QueryFacts DEF ToSet
  <2>4. TypeOf[table][q.where[k].column] \in {"number", "time", "other"}
    BY <2>3, CatalogAssumption
  <2>5. QED
    BY <2>2, <2>4, KindSays
<1>4. QED
  BY <1>1, <1>2, <1>3, KindsDiffer DEF EqualitiesOf, RangesOf

\* Their columns are those the query really compares.
LEMMA ComparedColumns ==
  ASSUME NEW q \in Queries, ~Ambiguous(q), NEW table \in ToSet(q.relations)
  PROVE  /\ {ColumnOf(q, k) : k \in EqualitiesOf(q, table)} = Equal(q, table)
         /\ {ColumnOf(q, k) : k \in RangesOf(q, table)} = Ordered(q, table)
<1>1. \A k \in DOMAIN q.where :
        q.where[k].table = table => q.where[k].column \in Columns(table)
  BY QueryFacts
<1>2. {ColumnOf(q, k) : k \in EqualitiesOf(q, table)} = Equal(q, table)
  BY <1>1, PredicatesAre DEF Equal, ComparedWith, ColumnOf
<1>3. {ColumnOf(q, k) : k \in RangesOf(q, table)} = Ordered(q, table)
  BY <1>1, PredicatesAre DEF Ordered, ComparedWith, ColumnOf
<1>4. QED
  BY <1>2, <1>3

LEMMA PositionsOf ==
  ASSUME NEW q \in Queries, NEW S \in SUBSET ExtractPredicates(q)
  PROVE  S \subseteq DOMAIN q.where /\ S \subseteq Nat \ {0} /\ IsFiniteSet(S)
<1>1. S \subseteq DOMAIN q.where
  BY DEF ExtractPredicates, Found
<1>2. DOMAIN q.where = 1..Len(q.where) /\ Len(q.where) \in Nat
  BY QueryFacts
<1>3. IsFiniteSet(1..Len(q.where))
  BY <1>2, FS_Interval
<1>4. QED
  BY <1>1, <1>2, <1>3, FS_Subset

(***************************************************************************)
(* Sequences of columns                                                    *)
(***************************************************************************)

LEMMA InitialSet ==
  ASSUME NEW S, NEW s \in Seq(S), NEW n \in 0..Len(s)
  PROVE  ToSet(SubSeq(s, 1, n)) = {s[i] : i \in 1..n}
<1>1. Len(s) \in Nat /\ n \in Int /\ 1 \in Int /\ \A i \in 1..n : s[i] \in S
  BY LenProperties, ElementOfSeq
<1>2. /\ SubSeq(s, 1, n) \in Seq(S)
      /\ Len(SubSeq(s, 1, n)) = IF 1 <= n THEN n - 1 + 1 ELSE 0
      /\ \A i \in 1..(n - 1 + 1) : SubSeq(s, 1, n)[i] = s[1 + i - 1]
  BY <1>1, SubSeqProperties
<1>3. Len(SubSeq(s, 1, n)) = n /\ n - 1 + 1 = n /\ \A i \in 1..n : 1 + i - 1 = i
  BY <1>1, <1>2
<1>4. DOMAIN SubSeq(s, 1, n) = 1..n
  BY <1>2, <1>3, LenProperties
<1>5. \A i \in 1..n : SubSeq(s, 1, n)[i] = s[i]
  BY <1>2, <1>3
<1>6. QED
  BY <1>4, <1>5 DEF ToSet

LEMMA PrefixElements ==
  ASSUME NEW S, NEW s \in Seq(S), NEW T, NEW t \in Seq(T), IsPrefix(s, t)
  PROVE  Len(s) <= Len(t) /\ \A i \in 1..Len(s) : s[i] = t[i]
<1>1. Len(s) <= Len(t) /\ SubSeq(s, 1, Len(s)) = SubSeq(t, 1, Len(s))
  BY DEF IsPrefix
<1>2. Len(s) \in Nat /\ Len(t) \in Nat /\ Len(s) \in Int /\ 1 \in Int
  BY LenProperties
<1>3. (\A i \in 1..Len(s) : s[i] \in S) /\ (\A i \in 1..Len(s) : t[i] \in T)
  BY <1>1, <1>2, ElementOfSeq
<1>4. \A i \in 1..(Len(s) - 1 + 1) : SubSeq(s, 1, Len(s))[i] = s[1 + i - 1]
  BY <1>2, <1>3, SubSeqProperties
<1>5. \A i \in 1..(Len(s) - 1 + 1) : SubSeq(t, 1, Len(s))[i] = t[1 + i - 1]
  BY <1>2, <1>3, SubSeqProperties
<1>6. Len(s) - 1 + 1 = Len(s) /\ \A i \in 1..Len(s) : 1 + i - 1 = i
  BY <1>2
<1>7. QED
  BY <1>1, <1>4, <1>5, <1>6

\* A key that begins with columns that serve a query serves it, too.
LEMMA PrefixServes ==
  ASSUME NEW q, NEW table, NEW S, NEW columns \in Seq(S), NEW T, NEW key \in Seq(T),
         IsPrefix(columns, key), Serves(q, table, columns)
  PROVE  Serves(q, table, key)
<1>1. PICK n \in 0..Len(columns) :
        /\ ToSet(SubSeq(columns, 1, n)) = Equal(q, table)
        /\ Ordered(q, table) # {} =>
             n < Len(columns) /\ columns[n + 1] \in Ordered(q, table)
  BY DEF Serves
<1>2. Len(columns) <= Len(key) /\ \A i \in 1..Len(columns) : columns[i] = key[i]
  BY PrefixElements
<1>3. Len(columns) \in Nat /\ Len(key) \in Nat
  BY LenProperties
<1>4. n \in 0..Len(key) /\ \A i \in 1..n : columns[i] = key[i]
  BY <1>2, <1>3
<1>5. ToSet(SubSeq(key, 1, n)) = ToSet(SubSeq(columns, 1, n))
  <2>1. ToSet(SubSeq(key, 1, n)) = {key[i] : i \in 1..n}
    BY <1>4, InitialSet
  <2>2. ToSet(SubSeq(columns, 1, n)) = {columns[i] : i \in 1..n}
    BY InitialSet
  <2>3. QED
    BY <1>4, <2>1, <2>2
<1>6. n < Len(columns) => n < Len(key) /\ key[n + 1] = columns[n + 1]
  BY <1>2, <1>3
<1>7. QED
  BY <1>1, <1>4, <1>5, <1>6 DEF Serves

LEMMA KeysAreSequences ==
  ASSUME NEW table, NEW key \in ExistingKeySequences(table)
  PROVE  \E S : key \in Seq(S)
<1>1. CASE \E i \in DOMAIN Indexes : key = KeySequence(Indexes[i])
  <2>1. PICK i \in DOMAIN Indexes : key = KeySequence(Indexes[i])
    BY <1>1
  <2> DEFINE keys == Indexes[i].keys
             S == {keys[k].column : k \in DOMAIN keys}
  <2>2. \E T : keys \in Seq(T)
    BY CatalogAssumption
  <2>3. Len(keys) \in Nat /\ DOMAIN keys = 1..Len(keys)
    BY <2>2, LenProperties
  <2>4. [k \in DOMAIN keys |-> keys[k].column] \in [1..Len(keys) -> S]
    BY <2>3
  <2> HIDE DEF S
  <2>5. [k \in DOMAIN keys |-> keys[k].column] \in Seq(S)
    BY <2>3, <2>4, SeqDef
  <2>6. <<>> \in Seq(S)
    BY EmptySeq
  <2>7. QED
    BY <2>1, <2>5, <2>6 DEF KeySequence
<1>2. CASE \E i \in DOMAIN Constraints : key = Constraints[i].columns
  BY <1>2, CatalogAssumption
<1>3. QED
  BY <1>1, <1>2 DEF ExistingKeySequences

\* The columns of some predicates, each at its place.
LEMMA ColumnsListed ==
  ASSUME NEW q \in Queries, NEW S \in SUBSET ExtractPredicates(q)
  PROVE  /\ Cardinality(S) \in Nat /\ Len(ColumnsAt(q, S)) = Cardinality(S)
         /\ ColumnsAt(q, S) \in Seq({ColumnOf(q, k) : k \in S})
         /\ {ColumnsAt(q, S)[n] : n \in 1..Cardinality(S)} = {ColumnOf(q, k) : k \in S}
<1> DEFINE C == {ColumnOf(q, k) : k \in S}
           n == Cardinality(S)
           columns == ColumnsAt(q, S)
<1>1. /\ n \in Nat /\ ByPosition(S) \in [1..n -> S]
      /\ \A k \in S : \E m \in 1..n : ByPosition(S)[m] = k
  BY PositionsOf, PositionsListed
<1>2. columns = [m \in 1..n |-> ColumnOf(q, ByPosition(S)[m])]
  BY DEF ColumnsAt
<1>3. \A m \in 1..n : columns[m] \in C
  BY <1>1, <1>2
<1>4. \A k \in S : \E m \in 1..n : columns[m] = ColumnOf(q, k)
  BY <1>1, <1>2
<1>5. columns \in [1..n -> C]
  BY <1>2, <1>3
<1>6. columns \in Seq(C) /\ Len(columns) = n
  <2> HIDE DEF C, n, columns
  <2>1. columns \in Seq(C) /\ DOMAIN columns = 1..n
    BY <1>1, <1>5, SeqDef
  <2>2. QED
    BY <1>1, <2>1, LenProperties
<1>7. {columns[m] : m \in 1..n} = C
  BY <1>3, <1>4
<1>8. QED
  BY <1>1, <1>6, <1>7

(***************************************************************************)
(* Shapes                                                                  *)
(***************************************************************************)

Prefixed(q, table) ==
  Shape(q, table, 0, Append(ColumnsAt(q, EqualitiesOf(q, table)),
                            ColumnOf(q, Min(RangesOf(q, table)))))
Composite(q, table) == Shape(q, table, 1, ColumnsAt(q, EqualitiesOf(q, table)))
Single(q, table, k) == Shape(q, table, 1 + k, <<ColumnOf(q, k)>>)

LEMMA ShapesAre ==
  ASSUME NEW q, NEW table, NEW x
  PROVE  x \in Shapes(q, table) <=>
           \/ EqualitiesOf(q, table) # {} /\ RangesOf(q, table) # {} /\ x = Prefixed(q, table)
           \/ Cardinality(EqualitiesOf(q, table)) >= 2 /\ x = Composite(q, table)
           \/ \E k \in PredicatesOf(q, table) : x = Single(q, table, k)
BY DEF Shapes, Prefixed, Composite, Single

LEMMA TableParts ==
  ASSUME NEW q \in Queries, NEW table
  PROVE  /\ PredicatesOf(q, table) \subseteq ExtractPredicates(q)
         /\ EqualitiesOf(q, table) \subseteq ExtractPredicates(q)
         /\ RangesOf(q, table) \subseteq ExtractPredicates(q)
         /\ PredicatesOf(q, table) = EqualitiesOf(q, table) \cup RangesOf(q, table)
         /\ PredicatesOf(q, table) \subseteq Nat \ {0}
         /\ \A k \in PredicatesOf(q, table) : TableOf(q, k) = table
<1>1. PredicatesOf(q, table) \subseteq ExtractPredicates(q)
  BY DEF PredicatesOf
<1>2. PredicatesOf(q, table) \subseteq Nat \ {0}
  BY <1>1, PositionsOf
<1>3. QED
  BY <1>1, <1>2 DEF PredicatesOf, EqualitiesOf, RangesOf

\* The columns of a shape are columns of its table's predicates.
LEMMA ShapeFacts ==
  ASSUME NEW q \in Queries, NEW table, NEW x \in Shapes(q, table)
  PROVE  /\ x.table = table /\ x.turn \in Nat
         /\ x.first = Min(PredicatesOf(q, table)) /\ x.first \in PredicatesOf(q, table)
         /\ x.columns \in Seq({ColumnOf(q, k) : k \in PredicatesOf(q, table)})
<1> DEFINE P == PredicatesOf(q, table)
           E == EqualitiesOf(q, table)
           R == RangesOf(q, table)
           C == {ColumnOf(q, k) : k \in P}
<1>1. E \subseteq P /\ R \subseteq P /\ P \subseteq Nat \ {0} /\ E \subseteq ExtractPredicates(q)
  BY TableParts
<1>2. ColumnsAt(q, E) \in Seq(C)
  <2>1. ColumnsAt(q, E) \in Seq({ColumnOf(q, k) : k \in E})
    BY <1>1, ColumnsListed
  <2>2. {ColumnOf(q, k) : k \in E} \subseteq C
    BY <1>1
  <2> HIDE DEF C
  <2>3. QED
    BY <2>1, <2>2, SeqMonotonic
<1>3. /\ x.table = table /\ x.first = Min(P) /\ x.turn \in Nat
      /\ x.columns \in Seq(C) /\ P # {}
  <2>1. CASE E # {} /\ R # {} /\ x = Prefixed(q, table)
    <3>1. R \subseteq Nat
      BY <1>1
    <3>2. Min(R) \in R
      <4> HIDE DEF R
      <4>1. QED
        BY <2>1, <3>1, MinIsLeast
    <3>3. ColumnOf(q, Min(R)) \in C
      BY <1>1, <3>2
    <3>4. Append(ColumnsAt(q, E), ColumnOf(q, Min(R))) \in Seq(C)
      <4> HIDE DEF C
      <4>1. QED
        BY <1>2, <3>3, AppendProperties
    <3>5. QED
      BY <1>1, <2>1, <3>4 DEF Prefixed, Shape
  <2>2. CASE Cardinality(E) >= 2 /\ x = Composite(q, table)
    <3>1. E # {}
      BY <2>2, FS_EmptySet
    <3>2. QED
      BY <1>1, <1>2, <2>2, <3>1 DEF Composite, Shape
  <2>3. CASE \E k \in P : x = Single(q, table, k)
    <3>1. PICK k \in P : x = Single(q, table, k)
      BY <2>3
    <3>2. ColumnOf(q, k) \in C
      OBVIOUS
    <3>3. <<ColumnOf(q, k)>> \in Seq(C)
      BY <3>2
    <3>4. QED
      BY <1>1, <3>1, <3>3 DEF Single, Shape
  <2>4. QED
    BY <2>1, <2>2, <2>3, ShapesAre
<1>4. Min(P) \in P
  <2>1. P \subseteq Nat
    BY <1>1
  <2> HIDE DEF P
  <2>2. QED
    BY <1>3, <2>1, MinIsLeast
<1>5. QED
  BY <1>3, <1>4

\* The first shape of a table serves the query on it.
LEMMA FirstShapeServes ==
  ASSUME NEW q \in Queries, ~Ambiguous(q), NEW table \in ToSet(q.relations),
         PredicatesOf(q, table) # {}
  PROVE  \E x \in Shapes(q, table) :
           /\ Serves(q, table, x.columns)
           /\ \A y \in Shapes(q, table) : y = x \/ x.turn < y.turn
<1> DEFINE P == PredicatesOf(q, table)
           E == EqualitiesOf(q, table)
           R == RangesOf(q, table)
           c == ColumnsAt(q, E)
           C == {ColumnOf(q, k) : k \in E}
<1>0. P # {}
  OBVIOUS
<1>1. /\ P = E \cup R /\ P \subseteq Nat \ {0} /\ P \subseteq Nat /\ R \subseteq Nat
      /\ E \subseteq ExtractPredicates(q) /\ R \subseteq ExtractPredicates(q)
  BY TableParts
<1>2. /\ C = Equal(q, table)
      /\ {ColumnOf(q, k) : k \in R} = Ordered(q, table)
  BY ComparedColumns
<1>3. /\ Cardinality(E) \in Nat /\ Len(c) = Cardinality(E) /\ c \in Seq(C)
      /\ {c[n] : n \in 1..Cardinality(E)} = C
  BY <1>1, ColumnsListed
<1>4. IsFiniteSet(E)
  BY <1>1, PositionsOf
<1>5. /\ Prefixed(q, table).turn = 0 /\ Composite(q, table).turn = 1
      /\ \A k : Single(q, table, k).turn = 1 + k
  BY DEF Prefixed, Composite, Single, Shape
<1>6. CASE E # {} /\ R # {}
  <2> DEFINE r == ColumnOf(q, Min(R))
             x == Prefixed(q, table)
             D == C \cup {r}
  <2>1. x \in Shapes(q, table)
    BY <1>6, ShapesAre
  <2>2. x.columns = Append(c, r)
    BY DEF Prefixed, Shape
  <2>3. Min(R) \in R
    <3> HIDE DEF R
    <3>1. QED
      BY <1>1, <1>6, MinIsLeast
  <2>4. r \in Ordered(q, table)
    BY <1>2, <2>3
  <2>5. c \in Seq(D) /\ r \in D
    <3>1. C \subseteq D /\ r \in D
      OBVIOUS
    <3> HIDE DEF C, D
    <3>2. QED
      BY <1>3, <3>1, SeqMonotonic
  <2> HIDE DEF C, D, r, c
  <2>6. /\ Append(c, r) \in Seq(D) /\ Len(Append(c, r)) = Len(c) + 1
        /\ \A i \in 1..Len(c) : Append(c, r)[i] = c[i]
        /\ Append(c, r)[Len(c) + 1] = r
    BY <2>5, AppendProperties
  <2>7. Len(c) \in 0..Len(Append(c, r)) /\ Len(c) < Len(Append(c, r))
    BY <1>3, <2>6
  <2>8. ToSet(SubSeq(Append(c, r), 1, Len(c))) = Equal(q, table)
    <3>1. ToSet(SubSeq(Append(c, r), 1, Len(c))) = {Append(c, r)[i] : i \in 1..Len(c)}
      BY <2>6, <2>7, InitialSet
    <3>2. {Append(c, r)[i] : i \in 1..Len(c)} = {c[i] : i \in 1..Len(c)}
      BY <2>6
    <3>3. QED
      BY <1>2, <1>3, <3>1, <3>2
  <2>9. Serves(q, table, Append(c, r))
    BY <2>4, <2>6, <2>7, <2>8 DEF Serves
  <2>10. ASSUME NEW y \in Shapes(q, table) PROVE y = x \/ x.turn < y.turn
    <3>1. CASE y = Composite(q, table)
      BY <1>5, <3>1
    <3>2. CASE \E k \in P : y = Single(q, table, k)
      <4>1. PICK k \in P : y = Single(q, table, k)
        BY <3>2
      <4>2. 0 < 1 + k
        BY <1>1
      <4>3. QED
        BY <1>5, <4>1, <4>2
    <3>3. QED
      BY <3>1, <3>2, ShapesAre
  <2>11. QED
    BY <2>1, <2>2, <2>9, <2>10
<1>7. CASE R = {} /\ Cardinality(E) >= 2
  <2> DEFINE x == Composite(q, table)
  <2>1. x \in Shapes(q, table)
    BY <1>7, ShapesAre
  <2>2. x.columns = c
    BY DEF Composite, Shape
  <2>3. Len(c) \in 0..Len(c)
    BY <1>3
  <2>4. ToSet(SubSeq(c, 1, Len(c))) = Equal(q, table)
    <3> HIDE DEF C, c
    <3>1. ToSet(SubSeq(c, 1, Len(c))) = {c[i] : i \in 1..Len(c)}
      BY <1>3, <2>3, InitialSet
    <3>2. QED
      BY <1>2, <1>3, <3>1
  <2>5. Ordered(q, table) = {}
    BY <1>2, <1>7
  <2>6. Serves(q, table, c)
    BY <2>3, <2>4, <2>5 DEF Serves
  <2>7. ASSUME NEW y \in Shapes(q, table) PROVE y = x \/ x.turn < y.turn
    <3>1. CASE \E k \in P : y = Single(q, table, k)
      <4>1. PICK k \in P : y = Single(q, table, k)
        BY <3>1
      <4>2. 1 < 1 + k
        BY <1>1
      <4>3. QED
        BY <1>5, <4>1, <4>2
    <3>2. QED
      BY <1>7, <3>1, ShapesAre
  <2>8. QED
    BY <2>1, <2>2, <2>6, <2>7
<1>8. CASE (R = {} /\ ~(Cardinality(E) >= 2)) \/ E = {}
  <2> DEFINE k == Min(P)
             x == Single(q, table, k)
             s == <<ColumnOf(q, k)>>
  <2>1. k \in P /\ \A j \in P : k <= j
    <3> HIDE DEF P
    <3>1. QED
      BY <1>0, <1>1, MinIsLeast
  <2>2. x \in Shapes(q, table) /\ x.columns = s
    BY <2>1, ShapesAre DEF Single, Shape
  <2>3. ~(Cardinality(E) >= 2)
    BY <1>8, FS_EmptySet
  <2>4. ~(E # {} /\ R # {})
    BY <1>8
  <2>5. ASSUME NEW y \in Shapes(q, table) PROVE y = x \/ x.turn < y.turn
    <3>1. PICK j \in P : y = Single(q, table, j)
      BY <2>3, <2>4, ShapesAre
    <3>2. k \in Nat /\ j \in Nat /\ k <= j
      BY <1>1, <2>1
    <3>3. j = k \/ 1 + k < 1 + j
      BY <3>2
    <3>4. QED
      BY <1>5, <3>1, <3>3
  <2>6. s \in Seq({ColumnOf(q, k)}) /\ Len(s) = 1 /\ s[1] = ColumnOf(q, k)
    OBVIOUS
  <2>7. Serves(q, table, s)
    <3>1. CASE E = {}
      <4>1. Equal(q, table) = {} /\ s[1] \in Ordered(q, table)
        BY <1>1, <1>2, <2>1, <2>6, <3>1
      <4>2. 0 \in 0..Len(s) /\ 0 < Len(s) /\ 0 + 1 = 1 /\ 1..0 = {}
        BY <2>6
      <4>3. ToSet(SubSeq(s, 1, 0)) = {s[i] : i \in 1..0}
        <5> HIDE DEF s
        <5>1. QED
          BY <2>6, <4>2, InitialSet
      <4>4. ToSet(SubSeq(s, 1, 0)) = {}
        BY <4>2, <4>3
      <4>5. QED
        BY <4>1, <4>2, <4>4 DEF Serves
    <3>2. CASE E # {}
      <4>1. R = {} /\ Cardinality(E) = 1
        BY <1>3, <1>4, <1>8, <3>2, FS_EmptySet
      <4>2. E = {k}
        BY <1>1, <1>4, <2>1, <4>1, FS_Singleton
      <4>3. Equal(q, table) = {s[1]} /\ Ordered(q, table) = {}
        BY <1>2, <2>6, <4>1, <4>2
      <4>4. 1 \in 0..Len(s) /\ 1..1 = {1}
        BY <2>6
      <4>5. ToSet(SubSeq(s, 1, 1)) = {s[i] : i \in 1..1}
        <5> HIDE DEF s
        <5>1. QED
          BY <2>6, <4>4, InitialSet
      <4>6. ToSet(SubSeq(s, 1, 1)) = {s[1]}
        BY <4>4, <4>5
      <4>7. QED
        BY <4>3, <4>4, <4>6 DEF Serves
    <3>3. QED
      BY <3>1, <3>2
  <2>8. QED
    BY <2>2, <2>5, <2>7
<1>9. QED
  BY <1>6, <1>7, <1>8

(***************************************************************************)
(* What is proposed                                                        *)
(***************************************************************************)

LEMMA PlaceOfShape ==
  ASSUME NEW q \in Queries, NEW x \in AllShapes(q)
  PROVE  /\ x \in Shapes(q, x.table) /\ TableOf(q, x.first) = x.table
         /\ x.first \in 1..Len(q.where) /\ x.turn \in 0..(Len(q.where) + 1)
<1>1. PICK table : x \in Shapes(q, table)
  BY DEF AllShapes
<1>2. x.table = table /\ x.turn \in Nat /\ x.first \in PredicatesOf(q, table)
  BY <1>1, ShapeFacts
<1>3. PredicatesOf(q, table) \subseteq 1..Len(q.where)
  <2>1. PredicatesOf(q, table) \subseteq ExtractPredicates(q)
    BY TableParts
  <2>2. PredicatesOf(q, table) \subseteq DOMAIN q.where
    BY <2>1, PositionsOf
  <2>3. QED
    BY <2>2, QueryFacts
<1>4. x.turn \in 0..(Len(q.where) + 1)
  <2>1. Len(q.where) \in Nat
    BY QueryFacts
  <2>2. CASE x = Prefixed(q, table) \/ x = Composite(q, table)
    BY <2>1, <2>2 DEF Prefixed, Composite, Shape
  <2>3. CASE \E k \in PredicatesOf(q, table) : x = Single(q, table, k)
    <3>1. PICK k \in PredicatesOf(q, table) : x = Single(q, table, k)
      BY <2>3
    <3>2. x.turn = 1 + k /\ k \in 1..Len(q.where)
      BY <1>3, <3>1 DEF Single, Shape
    <3>3. QED
      BY <2>1, <3>2
  <2>4. QED
    BY <1>1, <2>2, <2>3, ShapesAre
<1>5. TableOf(q, x.first) = table
  BY <1>2, TableParts
<1>6. QED
  BY <1>1, <1>2, <1>3, <1>4, <1>5

LEMMA SamePlace ==
  ASSUME NEW q \in Queries, NEW x \in AllShapes(q), NEW y \in AllShapes(q),
         x.first = y.first, x.turn = y.turn
  PROVE  x = y
<1> DEFINE table == x.table
<1>1. x \in Shapes(q, table) /\ y \in Shapes(q, table)
  BY PlaceOfShape
<1>2. \A z \in Shapes(q, table) :
        \/ z = Prefixed(q, table) /\ z.turn = 0
        \/ z = Composite(q, table) /\ z.turn = 1
        \/ \E k \in Nat \ {0} : z = Single(q, table, k) /\ z.turn = 1 + k
  <2>1. SUFFICES ASSUME NEW z \in Shapes(q, table)
                 PROVE  \/ z = Prefixed(q, table) /\ z.turn = 0
                        \/ z = Composite(q, table) /\ z.turn = 1
                        \/ \E k \in Nat \ {0} : z = Single(q, table, k) /\ z.turn = 1 + k
    OBVIOUS
  <2>2. CASE z = Prefixed(q, table)
    BY <2>2 DEF Prefixed, Shape
  <2>3. CASE z = Composite(q, table)
    BY <2>3 DEF Composite, Shape
  <2>4. CASE \E k \in PredicatesOf(q, table) : z = Single(q, table, k)
    BY <2>4, TableParts DEF Single, Shape
  <2>5. QED
    BY <2>2, <2>3, <2>4, ShapesAre
<1>3. CASE x.turn = 0 \/ x.turn = 1
  BY <1>1, <1>2, <1>3
<1>4. CASE x.turn # 0 /\ x.turn # 1
  <2>1. PICK j \in Nat \ {0} : x = Single(q, table, j) /\ x.turn = 1 + j
    BY <1>1, <1>2, <1>4
  <2>2. PICK k \in Nat \ {0} : y = Single(q, table, k) /\ y.turn = 1 + k
    BY <1>1, <1>2, <1>4
  <2>3. j \in Nat /\ k \in Nat /\ 1 + j = 1 + k
    BY <2>1, <2>2
  <2>4. j = k
    BY <2>3
  <2>5. QED
    BY <2>1, <2>2, <2>4
<1>5. QED
  BY <1>3, <1>4

LEMMA FinitelyMany ==
  ASSUME NEW q \in Queries
  PROVE  IsFiniteSet(AllShapes(q))
<1> DEFINE n == Len(q.where)
           places == (1..n) \X (0..(n + 1))
           place == [x \in AllShapes(q) |-> <<x.first, x.turn>>]
<1>1. IsFiniteSet(places)
  <2>1. n \in Int /\ n + 1 \in Int
    BY QueryFacts
  <2>2. IsFiniteSet(1..n) /\ IsFiniteSet(0..(n + 1))
    BY <2>1, FS_Interval
  <2>3. QED
    BY <2>2, FS_Product
<1>2. \A x \in AllShapes(q) : <<x.first, x.turn>> \in places
  BY PlaceOfShape
<1>3. \A x, y \in AllShapes(q) : place[x] = place[y] => x = y
  BY SamePlace
<1>4. place \in Injection(AllShapes(q), places)
  BY <1>2, <1>3 DEF Injection, IsInjective
<1>5. QED
  BY <1>1, <1>4, FS_Injection

LEMMA ShapesAreOrdered ==
  ASSUME NEW q \in Queries, NEW S \in SUBSET AllShapes(q)
  PROVE  StrictOrderOn(S, {p \in S \X S : Earlier(p[1], p[2])})
<1>1. \A x \in S : x.first \in Nat /\ x.turn \in Nat
  <2>1. Len(q.where) \in Nat
    BY QueryFacts
  <2>2. \A x \in S : x.first \in 1..Len(q.where) /\ x.turn \in 0..(Len(q.where) + 1)
    BY PlaceOfShape
  <2>3. QED
    BY <2>1, <2>2
<1>2. \A x \in S : ~Earlier(x, x)
  BY <1>1 DEF Earlier
<1>3. \A x, y, z \in S : Earlier(x, y) /\ Earlier(y, z) => Earlier(x, z)
  BY <1>1 DEF Earlier
<1>4. \A x, y \in S : x = y \/ Earlier(x, y) \/ Earlier(y, x)
  <2>1. \A x, y \in S : x.first = y.first /\ x.turn = y.turn => x = y
    BY SamePlace
  <2>2. QED
    BY <1>1, <2>1 DEF Earlier
<1>5. QED
  BY <1>2, <1>3, <1>4 DEF StrictOrderOn

\* Every eligible shape is proposed, or is over the budget, and then one that is earlier
\* is proposed; nothing else is.
LEMMA ProposalFacts ==
  ASSUME NEW q \in Queries
  PROVE  LET proposed == ToSet(GenerateCandidates(q).candidates)
             overBudget == GenerateCandidates(q).overBudget
         IN  /\ proposed \subseteq Eligible(q)
             /\ GenerateCandidates(q).candidates \in Seq(Eligible(q))
             /\ \A x \in Eligible(q) :
                  \/ x \in proposed
                  \/ x \in overBudget /\ \E y \in proposed : Earlier(y, x)
<1> DEFINE S == Eligible(q)
           order == {p \in S \X S : Earlier(p[1], p[2])}
           n == Cardinality(S)
           m == Min({MaxCandidates, n})
           list == InOrder(S, order)
           candidates == GenerateCandidates(q).candidates
           overBudget == GenerateCandidates(q).overBudget
<1>1. S \subseteq AllShapes(q)
  BY DEF Eligible, Unseen
<1>2. IsFiniteSet(S) /\ n \in Nat
  BY <1>1, FinitelyMany, FS_Subset, FS_CardinalityType
<1>3. StrictOrderOn(S, order)
  BY <1>1, ShapesAreOrdered
<1>4. /\ candidates = [k \in 1..m |-> list[k]]
      /\ overBudget = {x \in S : Rank(S, order, x) >= MaxCandidates}
  BY DEF GenerateCandidates
<1>5. \A x, y \in S : <<x, y>> \in order <=> Earlier(x, y)
  OBVIOUS
<1> HIDE DEF S, order, list, candidates, overBudget
<1>6. /\ list \in [1..n -> S]
      /\ \A k \in 1..n : Rank(S, order, list[k]) = k - 1
      /\ \A x \in S : list[Rank(S, order, x) + 1] = x
  BY <1>2, <1>3, InOrderLists DEF list
<1>7. /\ \A x \in S : Rank(S, order, x) \in 0..(n - 1)
      /\ \A x, y \in S : <<x, y>> \in order => Rank(S, order, x) < Rank(S, order, y)
  BY <1>2, <1>3, RanksFollow
<1>8. MaxCandidates \in Nat \ {0}
  BY MaxCandidatesAssumption
<1>9. m \in {MaxCandidates, n} /\ m <= MaxCandidates /\ m <= n
  <2>1. {MaxCandidates, n} \subseteq Nat /\ {MaxCandidates, n} # {}
    BY <1>2, <1>8
  <2>2. m \in {MaxCandidates, n} /\ \A k \in {MaxCandidates, n} : m <= k
    BY <2>1, MinIsLeast
  <2>3. QED
    BY <2>2
<1> HIDE DEF n, m
<1>10. m \in Nat /\ 1..m \subseteq 1..n
  BY <1>2, <1>8, <1>9
<1>11. ToSet(candidates) = {list[k] : k \in 1..m}
  BY <1>4 DEF ToSet
<1>12. ToSet(candidates) \subseteq S
  BY <1>6, <1>10, <1>11
<1>13. ASSUME NEW x \in S, Rank(S, order, x) < MaxCandidates
       PROVE  x \in ToSet(candidates)
  <2>1. Rank(S, order, x) + 1 \in 1..m
    BY <1>2, <1>7, <1>8, <1>9, <1>13
  <2>2. QED
    BY <1>6, <1>11, <2>1
<1>14. ASSUME NEW x \in S, ~(Rank(S, order, x) < MaxCandidates)
       PROVE  x \in overBudget /\ \E y \in ToSet(candidates) : Earlier(y, x)
  <2> DEFINE y == list[1]
  <2>1. Rank(S, order, x) \in Nat /\ Rank(S, order, x) >= MaxCandidates /\ Rank(S, order, x) > 0
    BY <1>2, <1>7, <1>8, <1>14
  <2>2. 1 \in 1..n
    BY <1>2, <1>7, <2>1
  <2>3. y \in S /\ Rank(S, order, y) = 0
    BY <1>6, <2>2
  <2> HIDE DEF y
  <2>4. y \in ToSet(candidates)
    BY <1>8, <1>13, <2>3
  <2>5. y # x /\ <<x, y>> \notin order
    BY <1>7, <2>1, <2>3
  <2>6. Earlier(y, x)
    BY <1>3, <1>5, <2>3, <2>5 DEF StrictOrderOn
  <2>7. QED
    BY <1>4, <2>1, <2>4, <2>6
<1>15. candidates \in Seq(S)
  <2>1. \A k \in 1..m : list[k] \in S
    BY <1>6, <1>10
  <2>2. [k \in 1..m |-> list[k]] \in [1..m -> S]
    BY <2>1
  <2>3. QED
    BY <1>4, <1>10, <2>2, SeqDef
<1>16. QED
  BY <1>12, <1>13, <1>14, <1>15 DEF S, candidates, overBudget

LEMMA ProposalIsGood ==
  ASSUME NEW q \in Queries, ~Ambiguous(q)
  PROVE  ProposalServes(q, GenerateCandidates(q))
<1> DEFINE proposed == ToSet(GenerateCandidates(q).candidates)
           overBudget == GenerateCandidates(q).overBudget
           earlier(table) == \E s \in proposed : s.table # table
           known(table) ==
             ExistingKeySequences(table)
             \cup {s.columns : s \in {x \in proposed : x.table = table}}
             \cup {s.columns : s \in {x \in overBudget : x.table = table /\ earlier(table)}}
<1>0. /\ proposed \subseteq Eligible(q)
      /\ \A x \in Eligible(q) :
           x \in proposed \/ (x \in overBudget /\ \E y \in proposed : Earlier(y, x))
  BY ProposalFacts
<1>1. ASSUME NEW table \in ToSet(q.relations), Compared(q, table) # {}
      PROVE  \E columns \in known(table) : Serves(q, table, columns)
  <2>1. PredicatesOf(q, table) # {}
    BY <1>1, ComparedColumns, TableParts DEF Compared
  <2>2. PICK x \in Shapes(q, table) :
          /\ Serves(q, table, x.columns)
          /\ \A y \in Shapes(q, table) : y = x \/ x.turn < y.turn
    BY <2>1, FirstShapeServes
  <2>3. x \in AllShapes(q)
    BY <2>1, <2>2 DEF AllShapes, PredicatesOf
  <2>4. x.table = table /\ x.first = Min(PredicatesOf(q, table)) /\ x.turn \in Nat
    BY ShapeFacts
  <2>5. ASSUME NEW y \in AllShapes(q), Earlier(y, x) PROVE y.table # table
    <3>1. SUFFICES ASSUME y.table = table PROVE FALSE
      OBVIOUS
    <3>2. y \in Shapes(q, table)
      BY <3>1, PlaceOfShape
    <3>3. y.first = x.first /\ y.turn \in Nat /\ x.first \in Nat
      <4>1. y.first = Min(PredicatesOf(q, table)) /\ y.turn \in Nat
        BY <3>2, ShapeFacts
      <4>2. x.first \in PredicatesOf(q, table)
        BY <2>2, ShapeFacts
      <4>3. PredicatesOf(q, table) \subseteq Nat \ {0}
        BY TableParts
      <4>4. QED
        BY <2>4, <4>1, <4>2, <4>3
    <3>4. y.turn < x.turn
      BY <2>5, <3>3 DEF Earlier
    <3>5. y = x \/ x.turn < y.turn
      BY <2>2, <3>2
    <3>6. QED
      BY <2>4, <3>3, <3>4, <3>5
  <2>6. x \in Unseen(q)
    BY <2>3, <2>4, <2>5 DEF Unseen
  <2>7. CASE Duplicates(table, x.columns)
    <3>1. PICK key \in ExistingKeySequences(table) : IsPrefix(x.columns, key)
      BY <2>7 DEF Duplicates
    <3>2. \E T : key \in Seq(T)
      BY KeysAreSequences
    <3>3. \E C : x.columns \in Seq(C)
      BY ShapeFacts
    <3>4. Serves(q, table, key)
      BY <2>2, <3>1, <3>2, <3>3, PrefixServes
    <3>5. QED
      BY <3>1, <3>4
  <2>8. CASE ~Duplicates(table, x.columns)
    <3>1. x \in Eligible(q)
      BY <2>4, <2>6, <2>8 DEF Eligible
    <3>2. CASE x \in proposed
      BY <2>2, <2>4, <3>2
    <3>3. CASE x \in overBudget /\ \E y \in proposed : Earlier(y, x)
      <4>1. PICK y \in proposed : Earlier(y, x)
        BY <3>3
      <4>2. y \in AllShapes(q)
        BY <1>0, <4>1 DEF Eligible, Unseen
      <4>3. earlier(table)
        BY <2>5, <4>1, <4>2
      <4>4. x.columns \in known(table)
        BY <2>4, <3>3, <4>3
      <4>5. QED
        BY <2>2, <4>4
    <3>4. QED
      BY <1>0, <3>1, <3>2, <3>3
  <2>9. QED
    BY <2>7, <2>8
<1>2. ASSUME NEW s \in proposed
      PROVE  /\ ToSet(s.columns) \subseteq Compared(q, s.table)
             /\ \A key \in ExistingKeySequences(s.table) : ~IsPrefix(s.columns, key)
  <2>1. s \in AllShapes(q) /\ ~Duplicates(s.table, s.columns)
    BY <1>0 DEF Eligible, Unseen
  <2>2. s \in Shapes(q, s.table)
    BY <2>1, PlaceOfShape
  <2>3. s.columns \in Seq({ColumnOf(q, k) : k \in PredicatesOf(q, s.table)})
    BY <2>2, ShapeFacts
  <2>4. s.table \in ToSet(q.relations)
    <3>1. s.first \in PredicatesOf(q, s.table)
      BY <2>2, ShapeFacts
    <3>2. s.first \in DOMAIN q.where
      BY <3>1, TableParts, PositionsOf
    <3>3. TableOf(q, s.first) = q.where[s.first].table
      BY <3>2, Resolved
    <3>4. TableOf(q, s.first) = s.table
      BY <3>1, TableParts
    <3>5. QED
      BY <3>2, <3>3, <3>4, QueryFacts
  <2>5. {ColumnOf(q, k) : k \in PredicatesOf(q, s.table)} = Compared(q, s.table)
    BY <2>4, ComparedColumns, TableParts DEF Compared
  <2>6. ToSet(s.columns) \subseteq Compared(q, s.table)
    BY <2>3, <2>5, LenProperties, ElementOfSeq DEF ToSet
  <2>7. QED
    BY <2>1, <2>6 DEF Duplicates
<1> HIDE DEF known
<1>3. \A table \in ToSet(q.relations) : Compared(q, table) # {} =>
        \E columns \in known(table) : Serves(q, table, columns)
  BY <1>1
<1>4. QED
  BY <1>2, <1>3 DEF ProposalServes, known

\* For any catalog, query and budget: unless a name is ambiguous, the proposed candidates
\* and the indexes there are serve the query on each table, but for what an earlier table
\* leaves no budget for; none is redundant, or on a column the query does not compare.
THEOREM CandidatesServe == Spec => []CandidatesServeTheQuery
<1> DEFINE Inv == query \in Queries /\ proposal = GenerateCandidates(query)
<1>1. Init => Inv
  BY DEF Init
<1>2. Inv /\ [Next]_vars => Inv'
  <2>1. [Next]_vars => UNCHANGED <<query, proposal>>
    BY DEF Next, vars, database, connection, measuring,
       Start, ApplySetting, CheckStop, MeasureArm, Apply, Revert, Restore,
       MeasureBefore, MeasureAfter, Build, Drop, StartScreening, CreateExtension, EstimateBaseline,
       NextCandidate, Reset, Hypothesise, EstimateCandidate, Cancel, Tick
  <2>2. QED
    BY <2>1
<1>3. Inv => CandidatesServeTheQuery
  BY ProposalIsGood DEF CandidatesServeTheQuery
<1> HIDE DEF Inv
<1>4. QED
  BY <1>1, <1>2, <1>3, PTL DEF Spec

(***************************************************************************)
(* Types                                                                   *)
(***************************************************************************)

LEMMA DataKept == [Next]_vars => UNCHANGED <<query, proposal>>
BY DEF Next, vars, database, connection, measuring,
       Start, ApplySetting, CheckStop, MeasureArm, Apply, Revert, Restore,
       MeasureBefore, MeasureAfter, Build, Drop, StartScreening, CreateExtension, EstimateBaseline,
       NextCandidate, Reset, Hypothesise, EstimateCandidate, Cancel, Tick

\* The variables that hold candidates or sets of them, with what a step needs of the one
\* it is about.
ControlTypes ==
  /\ query \in Queries /\ proposal = GenerateCandidates(query)
  /\ autocommit \in BOOLEAN /\ aborted \in BOOLEAN
  /\ cancelled \in BOOLEAN /\ deadlinePassed \in BOOLEAN
  /\ broken \in BOOLEAN /\ runs \in 0..MaxRuns
  /\ pc \in [step : Steps, check : BOOLEAN]
  /\ stop \in {"no", "cancelled", "timed_out", "error"}

SettingTypes ==
  /\ benchmark \subseteq Names /\ held \subseteq Names /\ leaked \subseteq Names
  /\ previous \in 0..Len(Settings)

MeasureTypes ==
  /\ job \in {<<>>} \cup Jobs /\ (Measuring => job \in Jobs)
  /\ indexes \subseteq Candidates /\ abandoned \subseteq Candidates
  /\ arms \in [Arms -> IndexSets] /\ costs \in [{"before", "after"} -> IndexSets]
  /\ result \in {<<>>} \cup {<<x>> : x \in Results}

ScreenTypes ==
  /\ hypothetical \subseteq Candidates /\ baseline \subseteq Candidates
  /\ screened \in Seq([candidate : Candidates, after : IndexSets])
  /\ pc.step \in {"hypothesise", "estimate"} => Len(screened) < Len(Proposed)

ScreenSteps == {"extension", "baseline", "reset", "hypothesise", "estimate"}
WriteSteps == {"write_before", "build", "write_after", "drop"}

LEMMA StepsAre == Steps = {"idle"} \cup InExperiment \cup WriteSteps \cup ScreenSteps
<1>1. DOMAIN Phases = 1..5
  BY DEF Phases
<1>2. {Phases[k] : k \in DOMAIN Phases} = ArmSteps
  BY <1>1 DEF Phases, ArmSteps
<1>3. QED
  BY <1>2 DEF Steps, InExperiment, WriteSteps, ScreenSteps

LEMMA ControlTypesStep == ControlTypes /\ [Next]_vars => ControlTypes'
<1> SUFFICES ASSUME ControlTypes, [Next]_vars PROVE ControlTypes'
  OBVIOUS
<1> USE DEF At, Goto, GotoCheck, database, connection, signals, saved, measured, screening,
   measuring
<1>1. /\ pc \in [step : Steps, check : BOOLEAN]
      /\ \A s \in Steps : \A c \in BOOLEAN : [step |-> s, check |-> c] \in [step : Steps, check : BOOLEAN]
      /\ Steps = {"idle"} \cup InExperiment \cup WriteSteps \cup ScreenSteps
  BY StepsAre DEF ControlTypes
<1>2. UNCHANGED <<query, proposal>>
  BY DataKept
<1>3. CASE Start \/ StartScreening
  <2>1. runs' \in 0..MaxRuns
    BY <1>3, MaxRunsAssumption DEF Start, StartScreening, ControlTypes
  <2>2. QED
    BY <1>1, <1>2, <1>3, <2>1
    DEF Start, StartScreening, ControlTypes, InExperiment, ArmSteps, ScreenSteps
<1>4. CASE CheckStop
  <2>1. stop' \in {"no", "cancelled", "timed_out", "error"}
    BY <1>4, CheckMoves DEF ControlTypes
  <2>2. pc' \in [step : Steps, check : BOOLEAN]
    <3>1. PICK k \in DOMAIN Phases : Goto("restore") \/ Goto(Phases[k])
      BY <1>4 DEF CheckStop
    <3>2. Phases[k] \in ArmSteps
      BY PhaseSteps
    <3>3. QED
      BY <1>1, <3>1, <3>2 DEF InExperiment
  <2>3. QED
    BY <1>4, <2>1, <2>2 DEF CheckStop, ControlTypes
<1>5. CASE ApplySetting \/ MeasureArm("a1", "apply") \/ Apply \/ MeasureArm("b", "revert")
           \/ Revert \/ MeasureArm("a2", "restore") \/ Restore
  BY <1>1, <1>5
  DEF ApplySetting, MeasureArm, Apply, Revert, Restore, EndExperiment, Fail, ControlTypes,
      InExperiment, ArmSteps, WriteSteps
<1>6. CASE MeasureBefore \/ Build \/ MeasureAfter \/ Drop
  BY <1>1, <1>6 DEF MeasureBefore, MeasureAfter, Build, Drop, GiveUp, ControlTypes, WriteSteps
<1>7. CASE CreateExtension \/ EstimateBaseline \/ Reset \/ Hypothesise \/ EstimateCandidate
  <2>1. pc' \in [step : Steps, check : BOOLEAN]
    BY <1>1, <1>7
    DEF CreateExtension, EstimateBaseline, Reset, Hypothesise, EstimateCandidate,
        NextCandidate, EndScreening, ScreenSteps
  <2>2. autocommit' \in BOOLEAN /\ broken' \in BOOLEAN
    BY <1>7
    DEF CreateExtension, EstimateBaseline, Reset, Hypothesise, EstimateCandidate,
        NextCandidate, EndScreening, ControlTypes
  <2>3. UNCHANGED <<aborted, cancelled, deadlinePassed, runs, stop>>
    BY <1>7
    DEF CreateExtension, EstimateBaseline, Reset, Hypothesise, EstimateCandidate
  <2>4. QED
    BY <1>2, <2>1, <2>2, <2>3 DEF ControlTypes
<1>8. CASE Cancel \/ Tick \/ UNCHANGED vars
  <2>1. /\ cancelled' \in BOOLEAN /\ deadlinePassed' \in BOOLEAN
        /\ UNCHANGED <<autocommit, aborted, broken, runs, pc, stop>>
    BY <1>8 DEF Cancel, Tick, vars, ControlTypes
  <2>2. QED
    BY <1>2, <2>1 DEF ControlTypes
<1>9. QED
  BY <1>3, <1>4, <1>5, <1>6, <1>7, <1>8 DEF Next

LEMMA SettingTypesStep == SettingTypes /\ [Next]_vars => SettingTypes'
<1> SUFFICES ASSUME SettingTypes, [Next]_vars PROVE SettingTypes'
  OBVIOUS
<1> USE DEF SettingTypes, database, connection, measured, screening, measuring
<1>1. Len(Settings) \in Nat /\ DOMAIN Settings = 1..Len(Settings)
  BY SettingsAssumption, LenProperties
<1>2. \A first \in Nat \ {0}, last \in 0..Len(Settings) : From(first, last) \subseteq Names
  BY <1>1 DEF From, Names
<1>3. CASE ApplySetting
  <2>1. CASE UNCHANGED <<benchmark, saved>>
    BY <2>1 DEF saved
  <2>2. CASE /\ previous < SettingsToApply
             /\ previous' = previous + 1
             /\ held' = held \cup (From(previous + 1, previous + 1) \cap benchmark)
             /\ benchmark' = benchmark \cup From(previous + 1, previous + 1)
             /\ UNCHANGED leaked
    <3>1. previous + 1 \in 1..Len(Settings)
      BY <1>1, <2>2 DEF SettingsToApply
    <3>2. From(previous + 1, previous + 1) \subseteq Names
      BY <1>1, <1>2, <3>1
    <3>3. QED
      BY <1>1, <2>2, <3>1, <3>2
  <2>3. CASE leaked' = leaked \cup From(1, previous) /\ UNCHANGED <<benchmark, previous, held>>
    BY <1>1, <1>2, <2>3
  <2>4. QED
    BY <1>3, <2>1, <2>2, <2>3 DEF ApplySetting
<1>4. CASE Start
  BY <1>1, <1>4 DEF Start
<1>5. CASE Restore
  <2>1. PICK n \in 0..previous :
          /\ benchmark' = benchmark \ (From(1, n) \ held)
          /\ leaked' = leaked \cup From(n + 1, previous)
    BY <1>5 DEF Restore
  <2>2. From(n + 1, previous) \subseteq Names
    BY <1>1, <1>2, <2>1
  <2>3. QED
    BY <1>5, <2>1, <2>2 DEF Restore
<1>6. CASE UNCHANGED <<benchmark, saved>>
  BY <1>6 DEF saved
<1>7. QED
  BY <1>3, <1>4, <1>5, <1>6
  DEF Next, vars, CheckStop, MeasureArm, Apply, Revert, MeasureBefore, MeasureAfter, Build, Drop,
      StartScreening, CreateExtension, EstimateBaseline, Reset, Hypothesise, EstimateCandidate,
      Cancel, Tick

LEMMA MeasureTypesStep == ControlTypes /\ MeasureTypes /\ [Next]_vars => MeasureTypes'
<1> SUFFICES ASSUME ControlTypes, MeasureTypes, [Next]_vars PROVE MeasureTypes'
  OBVIOUS
<1> USE DEF At, Goto, GotoCheck, database, connection, signals, saved, measured, screening,
   measuring
<1>1. /\ Candidates' = Candidates /\ IndexSets' = IndexSets /\ Jobs' = Jobs /\ Results' = Results
  BY DataKept DEF Candidates, Proposed, IndexSets, Jobs, Results
<1>2. <<>> \in IndexSets /\ \A S \in SUBSET Candidates : <<S>> \in IndexSets
  BY DEF IndexSets
<1>3. \A j \in Jobs : j.candidate \in Candidates
  BY DEF Jobs
<1>4. CASE Start
  BY <1>1, <1>2, <1>4 DEF Start, MeasureTypes, Nothing, NoCosts
<1>5. CASE MeasureArm("a1", "apply") \/ MeasureArm("b", "revert") \/ MeasureArm("a2", "restore")
  <2>1. Measuring
    BY <1>5 DEF MeasureArm, Measuring
  <2>2. arms' \in [Arms -> IndexSets]
    BY <1>2, <1>5 DEF MeasureArm, MeasureTypes
  <2>3. job \in Jobs /\ abandoned' \subseteq Candidates
    BY <1>3, <1>5, <2>1 DEF MeasureArm, Fail, GivesUp, MeasureTypes
  <2>4. QED
    BY <1>1, <1>5, <2>1, <2>2, <2>3 DEF MeasureArm, MeasureTypes
<1>6. CASE Apply \/ Revert \/ Build \/ Drop
  <2>1. job \in Jobs
    <3>1. \/ At("apply") \/ At("revert") \/ At("build") \/ At("drop")
      BY <1>6, Zenon DEF Apply, Revert, Build, Drop
    <3>2. QED
      BY <3>1 DEF Measuring, MeasureTypes
  <2>2. indexes' \subseteq Candidates /\ abandoned' \subseteq Candidates
    BY <1>3, <1>6, <2>1 DEF Apply, Revert, Build, Drop, Fail, GivesUp, MeasureTypes
  <2>3. UNCHANGED <<job, arms, costs, result>>
    BY <1>6 DEF Apply, Revert, Build, Drop
  <2>4. QED
    BY <1>1, <2>1, <2>2, <2>3 DEF MeasureTypes
<1>7. CASE Restore
  <2>1. job \in Jobs
    BY <1>7 DEF Restore, Measuring, MeasureTypes
  <2>2. \A noise \in BOOLEAN : Result(noise) \in Results
    BY <1>3, <2>1 DEF Result, Results, MeasureTypes, Complete
  <2>3. result' \in {<<>>} \cup {<<x>> : x \in Results}
    BY <1>7, <2>2 DEF Restore, EndExperiment, MeasureTypes
  <2>4. abandoned' = abandoned
    BY <1>7 DEF Restore
  <2>5. QED
    BY <1>1, <1>7, <2>1, <2>3, <2>4 DEF Restore, MeasureTypes
<1>8. CASE MeasureBefore \/ MeasureAfter
  <2>1. job \in Jobs
    <3>1. At("write_before") \/ At("write_after")
      BY <1>8, Zenon DEF MeasureBefore, MeasureAfter
    <3>2. QED
      BY <3>1 DEF Measuring, MeasureTypes
  <2>2. costs' \in [{"before", "after"} -> IndexSets]
    BY <1>2, <1>8 DEF MeasureBefore, MeasureAfter, MeasureTypes
  <2>3. abandoned' \subseteq Candidates
    BY <1>3, <1>8, <2>1 DEF MeasureBefore, MeasureAfter, MeasureTypes
  <2>4. QED
    BY <1>1, <1>8, <2>1, <2>2, <2>3 DEF MeasureBefore, MeasureAfter, MeasureTypes
<1>9. CASE /\ Measuring' => Measuring
           /\ UNCHANGED <<job, indexes, abandoned, arms, costs, result>>
  BY <1>1, <1>9 DEF MeasureTypes
<1>10. CASE ApplySetting
  BY <1>9, <1>10 DEF ApplySetting, Measuring
<1>11. CASE CheckStop
  <2>1. pc.step \in ArmSteps /\ UNCHANGED <<job, indexes, arms, costs, result>>
    BY <1>11, CheckMoves DEF CheckStop
  <2>2. job \in Jobs
    BY <2>1 DEF MeasureTypes, Measuring, ArmSteps
  <2>3. abandoned' \subseteq Candidates
    BY <1>3, <1>11, <2>2, CheckMoves DEF GivesUp, MeasureTypes
  <2>4. QED
    BY <1>1, <2>1, <2>2, <2>3 DEF MeasureTypes
<1>12. CASE StartScreening \/ CreateExtension \/ EstimateBaseline \/ Reset \/ Hypothesise
            \/ EstimateCandidate
  <2>1. ~Measuring'
    BY <1>12
    DEF StartScreening, CreateExtension, EstimateBaseline, Reset, Hypothesise, EstimateCandidate,
        NextCandidate, EndScreening, Measuring
  <2>2. UNCHANGED <<job, indexes, abandoned, arms, costs, result>>
    BY <1>12
    DEF StartScreening, CreateExtension, EstimateBaseline, Reset, Hypothesise, EstimateCandidate
  <2>3. QED
    BY <1>9, <2>1, <2>2
<1>13. CASE Cancel \/ Tick \/ UNCHANGED vars
  BY <1>9, <1>13 DEF Cancel, Tick, vars, Measuring
<1>14. QED
  BY <1>4, <1>5, <1>6, <1>7, <1>8, <1>10, <1>11, <1>12, <1>13 DEF Next

\* The candidate that is screened next is one of the query's.
LEMMA NextIsProposed ==
  ASSUME ControlTypes, ScreenTypes, pc.step \in {"hypothesise", "estimate"}
  PROVE  Candidate \in Candidates
<1>1. proposal.candidates \in Seq(Eligible(query))
  BY ProposalFacts DEF ControlTypes
<1>2. Proposed \in Seq(Eligible(query))
  BY <1>1 DEF Proposed
<1>3. Len(Proposed) \in Nat /\ DOMAIN Proposed = 1..Len(Proposed)
  BY <1>2, LenProperties
<1>4. Len(screened) \in Nat /\ Len(screened) < Len(Proposed)
  BY LenProperties DEF ScreenTypes
<1>5. Len(screened) + 1 \in DOMAIN Proposed
  BY <1>3, <1>4
<1>6. QED
  BY <1>5 DEF Candidate, Candidates, ToSet

LEMMA ScreenTypesStep == ControlTypes /\ ScreenTypes /\ [Next]_vars => ScreenTypes'
<1> SUFFICES ASSUME ControlTypes, ScreenTypes, [Next]_vars PROVE ScreenTypes'
  OBVIOUS
<1> USE DEF At, Goto, GotoCheck, database, connection, signals, saved, measured, screening,
   measuring
<1>1. Candidates' = Candidates /\ IndexSets' = IndexSets /\ Proposed' = Proposed
  BY DataKept DEF Candidates, Proposed, IndexSets
<1>2. <<>> \in IndexSets /\ \A S \in SUBSET Candidates : <<S>> \in IndexSets
  BY DEF IndexSets
<1>3. CASE StartScreening
  <2>1. <<>> \in Seq([candidate : Candidates, after : IndexSets])
    BY EmptySeq
  <2>2. QED
    BY <1>1, <1>3, <2>1 DEF StartScreening, ScreenTypes
<1>4. CASE CreateExtension
  BY <1>1, <1>4 DEF CreateExtension, EndScreening, ScreenTypes
<1>5. CASE EstimateBaseline
  BY <1>1, <1>5 DEF EstimateBaseline, EndScreening, ScreenTypes
<1>6. CASE Reset
  BY <1>1, <1>6 DEF Reset, NextCandidate, EndScreening, ScreenTypes
<1>7. CASE Hypothesise
  <2>1. Candidate \in Candidates
    BY <1>7, NextIsProposed DEF Hypothesise
  <2>2. CASE hypothetical' = hypothetical \cup {Candidate} /\ UNCHANGED <<screened, baseline>>
    BY <1>1, <1>7, <2>1, <2>2 DEF Hypothesise, ScreenTypes
  <2>3. CASE screened' = Append(screened, [candidate |-> Candidate, after |-> <<>>])
             /\ pc'.step = "reset" /\ UNCHANGED <<hypothetical, baseline>>
    <3>1. [candidate |-> Candidate, after |-> <<>>] \in [candidate : Candidates, after : IndexSets]
      BY <1>2, <2>1
    <3>2. screened' \in Seq([candidate : Candidates, after : IndexSets])
      BY <2>3, <3>1, AppendProperties DEF ScreenTypes
    <3>3. QED
      BY <1>1, <2>3, <3>2 DEF ScreenTypes
  <2>4. QED
    BY <1>7, <2>2, <2>3 DEF Hypothesise
<1>8. CASE EstimateCandidate
  <2>1. Candidate \in Candidates
    BY <1>8, NextIsProposed DEF EstimateCandidate
  <2>2. CASE screened' = Append(screened, [candidate |-> Candidate, after |-> <<hypothetical>>])
             /\ pc'.step = "reset" /\ UNCHANGED <<hypothetical, baseline>>
    <3>1. [candidate |-> Candidate, after |-> <<hypothetical>>]
            \in [candidate : Candidates, after : IndexSets]
      BY <1>2, <2>1 DEF ScreenTypes
    <3>2. screened' \in Seq([candidate : Candidates, after : IndexSets])
      BY <2>2, <3>1, AppendProperties DEF ScreenTypes
    <3>3. QED
      BY <1>1, <2>2, <3>2 DEF ScreenTypes
  <2>3. CASE pc'.step = "idle" /\ UNCHANGED <<hypothetical, baseline, screened>>
    BY <1>1, <2>3 DEF ScreenTypes
  <2>4. QED
    BY <1>8, <2>2, <2>3 DEF EstimateCandidate, EndScreening
<1>9. CASE /\ pc' = pc \/ pc'.step \notin {"hypothesise", "estimate"}
           /\ UNCHANGED <<hypothetical, baseline, screened>>
  BY <1>1, <1>9 DEF ScreenTypes
<1>10. CASE CheckStop
  BY <1>9, <1>10, CheckMoves DEF CheckStop, ArmSteps
<1>11. CASE Start \/ ApplySetting \/ Cancel \/ Tick \/ UNCHANGED vars
  BY <1>9, <1>11 DEF Start, ApplySetting, Cancel, Tick, vars
<1>12. CASE \/ MeasureArm("a1", "apply") \/ Apply \/ MeasureArm("b", "revert")
            \/ Revert \/ MeasureArm("a2", "restore") \/ Restore
            \/ MeasureBefore \/ Build \/ MeasureAfter \/ Drop
  BY <1>9, <1>12
  DEF MeasureArm, Apply, Revert, Restore, EndExperiment, Fail, MeasureBefore, MeasureAfter, Build,
      Drop, GiveUp
<1>13. QED
  BY <1>3, <1>4, <1>5, <1>6, <1>7, <1>8, <1>10, <1>11, <1>12 DEF Next

\* Whatever fails, only candidates of the query are built, hypothesised, given up or
\* reported, and only the named settings are set.
THEOREM ExperimentTypeCorrect == Spec => []TypeOK
<1> DEFINE Inv == ControlTypes /\ SettingTypes /\ MeasureTypes /\ ScreenTypes
<1>1. Init => Inv
  <2> SUFFICES ASSUME Init PROVE Inv
    OBVIOUS
  <2>1. "idle" \in Steps /\ <<>> \in IndexSets
    BY DEF Steps, IndexSets
  <2>2. ControlTypes
    <3>1. pc \in [step : Steps, check : BOOLEAN]
      BY <2>1 DEF Init, At
    <3>2. query \in Queries /\ proposal = GenerateCandidates(query)
      BY DEF Init
    <3>3. runs \in 0..MaxRuns
      BY MaxRunsAssumption DEF Init
    <3>4. QED
      BY <3>1, <3>2, <3>3 DEF Init, ControlTypes
  <2>3. SettingTypes
    BY SettingsAssumption, LenProperties DEF Init, SettingTypes
  <2>4. MeasureTypes
    BY <2>1 DEF Init, MeasureTypes, At, Measuring, Nothing, NoCosts
  <2>5. ScreenTypes
    BY EmptySeq DEF Init, ScreenTypes, At
  <2>6. QED
    BY <2>2, <2>3, <2>4, <2>5
<1>2. Inv /\ [Next]_vars => Inv'
  BY ControlTypesStep, SettingTypesStep, MeasureTypesStep, ScreenTypesStep
<1>3. Inv => TypeOK
  BY DEF ControlTypes, SettingTypes, MeasureTypes, ScreenTypes, TypeOK
<1> HIDE DEF Inv
<1>4. QED
  BY <1>1, <1>2, <1>3, PTL DEF Spec
=============
