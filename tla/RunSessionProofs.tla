-------------------------- MODULE RunSessionProofs --------------------------
(***************************************************************************)
(* The properties of AtomicWrite for any number of writers and files, and  *)
(* that write_bytes_atomic implements DurableFile; of RunSession for every *)
(* set of runs, stages and paths and every bound on the number of          *)
(* artifacts, of CleanRuns for any number of cleans beside them, and of    *)
(* Capture, whose runs they are.                                           *)
(***************************************************************************)
EXTENDS AtomicWrite, CleanRuns, Capture, SequenceTheorems, TLAPS

(***************************************************************************)
(* The writes of one file                                                  *)
(***************************************************************************)

\* What a writer has done to the file it is preparing: it is its own, the data
\* are whole once written and on disk once flushed, and it is at the path once
\* renamed.
WriterFact(w) ==
  /\ progress[w] = "idle" => temp[w] = 0
  /\ progress[w] # "idle" => temp[w] \in 1..created
  /\ progress[w] \in Preparing =>
       temp[w] \in tempNames /\ \A k \in DOMAIN renames : renames[k] # temp[w]
  /\ progress[w] \in {"written", "flushed", "moded"} => content[temp[w]] = "whole"
  /\ progress[w] \in {"flushed", "moded"} => temp[w] \in synced
  /\ progress[w] = "renamed" => \E k \in DOMAIN renames : renames[k] = temp[w]
WriterFacts == \A w \in Writers : WriterFact(w)

\* No two writers prepare the same file.
OwnTemps ==
  \A v, w \in Writers :
    v # w /\ progress[v] \in Preparing /\ progress[w] \in Preparing => temp[v] # temp[w]

\* Nothing names a file that mkstemp has not created yet.
OnlyCreated ==
  /\ tempNames \subseteq 1..created
  /\ \A k \in DOMAIN renames : renames[k] \in 1..created

\* The file at the path has no temporary name, and no file is renamed onto
\* the path twice: two writers never share a temporary file (mkstemp).
RenamedOnce ==
  /\ \A k \in DOMAIN renames : renames[k] \notin tempNames
  /\ \A j, k \in DOMAIN renames : renames[j] = renames[k] => j = k

\* The inductive invariant.  RenamedOnce and OnlyCreated make mkstemp's file
\* fresh; WriterFacts carries what WriteData and FsyncFile did to Replace.
WriteInv ==
  /\ WriteTypeOK
  /\ WriterFacts
  /\ OwnTemps
  /\ OnlyCreated
  /\ PathHoldsWholeFiles
  /\ ReturnedWritesSurvive
  /\ RenamedOnce
  /\ OnlyDeathLeavesTemps

\* What appending to the renames does to them.
LEMMA RenamesAppended ==
  ASSUME NEW S, NEW s \in Seq(S), NEW e \in S
  PROVE  /\ Append(s, e) \in Seq(S)
         /\ Len(Append(s, e)) = Len(s) + 1 /\ Len(s) \in Nat
         /\ DOMAIN s = 1..Len(s)
         /\ DOMAIN Append(s, e) = 1..(Len(s) + 1)
         /\ \A k \in 1..Len(s) : Append(s, e)[k] = s[k]
         /\ Append(s, e)[Len(s) + 1] = e
<1>1. /\ Append(s, e) \in Seq(S)
      /\ Len(Append(s, e)) = Len(s) + 1
      /\ \A k \in 1..Len(s) : Append(s, e)[k] = s[k]
      /\ Append(s, e)[Len(s) + 1] = e
  BY AppendProperties
<1>2. Len(s) \in Nat /\ DOMAIN s = 1..Len(s)
  BY LenProperties
<1>3. DOMAIN Append(s, e) = 1..(Len(s) + 1)
  BY <1>1, LenProperties
<1>4. QED
  BY <1>1, <1>2, <1>3

\* What taking renames back does to them.
LEMMA RenamesCut ==
  ASSUME NEW S, NEW s \in Seq(S), NEW m \in 0..Len(s)
  PROVE  /\ SubSeq(s, 1, m) \in Seq(S)
         /\ Len(SubSeq(s, 1, m)) = m
         /\ DOMAIN s = 1..Len(s) /\ Len(s) \in Nat
         /\ DOMAIN SubSeq(s, 1, m) = 1..m
         /\ \A k \in 1..m : SubSeq(s, 1, m)[k] = s[k]
<1>1. Len(s) \in Nat /\ DOMAIN s = 1..Len(s) /\ m \in Int /\ 1 \in Int
  BY LenProperties
<1>2. \A i \in 1..m : s[i] \in S
  BY <1>1, ElementOfSeq
<1>3. /\ SubSeq(s, 1, m) \in Seq(S)
      /\ Len(SubSeq(s, 1, m)) = IF 1 <= m THEN m - 1 + 1 ELSE 0
      /\ \A i \in 1..(m - 1 + 1) : SubSeq(s, 1, m)[i] = s[1 + i - 1]
  BY <1>1, <1>2, SubSeqProperties
<1>4. Len(SubSeq(s, 1, m)) = m
  BY <1>1, <1>3
<1>5. DOMAIN SubSeq(s, 1, m) = 1..m
  BY <1>3, <1>4, LenProperties
<1>6. \A k \in 1..m : SubSeq(s, 1, m)[k] = s[k]
  BY <1>1, <1>3
<1>7. QED
  BY <1>1, <1>3, <1>4, <1>5, <1>6

LEMMA WriteInvInit == WriteInit => WriteInv
<1> SUFFICES ASSUME WriteInit PROVE WriteInv
  OBVIOUS
<1>1. renames \in Seq(Files) /\ Len(renames) = 0 /\ DOMAIN renames = {}
  BY EmptySeq DEF WriteInit
<1>2. WriteTypeOK
  BY <1>1, MaxFilesAssumption DEF WriteInit, WriteTypeOK, Files
<1>3. WriterFacts /\ OwnTemps
  BY <1>1 DEF WriteInit, WriterFacts, WriterFact, OwnTemps, Preparing
<1>4. OnlyCreated /\ PathHoldsWholeFiles /\ RenamedOnce
  BY <1>1 DEF WriteInit, OnlyCreated, PathHoldsWholeFiles, RenamedOnce
<1>5. ReturnedWritesSurvive /\ OnlyDeathLeavesTemps
  BY DEF WriteInit, ReturnedWritesSurvive, OnlyDeathLeavesTemps
<1>6. QED
  BY <1>2, <1>3, <1>4, <1>5 DEF WriteInv

LEMMA MakeTempKeeps ==
  ASSUME WriteInv, NEW w \in Writers, MakeTemp(w)
  PROVE  WriteInv'
<1> USE DEF WriteInv
<1>0. /\ created \in Nat /\ created + 1 \in 1..MaxFiles /\ MaxFiles \in Nat
      /\ created + 1 \notin 1..created /\ 1..created \subseteq 1..(created + 1)
      /\ DOMAIN renames = 1..Len(renames)
  BY MaxFilesAssumption, LenProperties DEF MakeTemp, WriteTypeOK
<1>1. WriteTypeOK'
  BY <1>0 DEF MakeTemp, WriteTypeOK, Files, Preparing
<1>2. WriterFacts'
  BY <1>0 DEF MakeTemp, WriterFacts, WriterFact, WriteTypeOK, Preparing, OnlyCreated
<1>3. OwnTemps'
  BY <1>0 DEF MakeTemp, WriterFacts, WriterFact, OwnTemps, WriteTypeOK, Preparing
<1>4. OnlyCreated'
  BY <1>0 DEF MakeTemp, OnlyCreated
<1>5. PathHoldsWholeFiles'
  BY DEF MakeTemp, PathHoldsWholeFiles
<1>6. ReturnedWritesSurvive'
  BY DEF MakeTemp, ReturnedWritesSurvive
<1>7. RenamedOnce'
  BY <1>0 DEF MakeTemp, RenamedOnce, OnlyCreated
<1>8. OnlyDeathLeavesTemps'
  BY <1>0 DEF MakeTemp, OnlyDeathLeavesTemps, WriteTypeOK, WriterFacts, WriterFact, OnlyCreated
<1>9. QED
  BY <1>1, <1>2, <1>3, <1>4, <1>5, <1>6, <1>7, <1>8

\* WriteData, FsyncFile and Chmod touch only the writer's own file.
LEMMA PrepareKeeps ==
  ASSUME WriteInv, NEW w \in Writers, WriteData(w) \/ FsyncFile(w) \/ Chmod(w)
  PROVE  WriteInv'
<1> USE DEF WriteInv
<1>0. /\ temp[w] \in Files /\ temp[w] \in 1..created
      /\ progress[w] \in Preparing /\ progress'[w] \in Preparing
      /\ \A v \in Writers \ {w} : progress'[v] = progress[v]
      /\ UNCHANGED <<temp, created, tempNames, renames, onDisk, returned, orphaned>>
      /\ synced \subseteq synced'
      /\ \A f \in Files : content[f] = "whole" => content'[f] = "whole"
  BY DEF WriteData, FsyncFile, Chmod, WriteTypeOK, WriterFacts, WriterFact, Preparing, Files
<1>1. WriteTypeOK'
  BY <1>0 DEF WriteData, FsyncFile, Chmod, WriteTypeOK, Preparing
<1>2. WriterFacts'
  <2> SUFFICES ASSUME NEW v \in Writers PROVE WriterFact(v)'
    BY DEF WriterFacts
  <2>1. CASE v = w
    BY <1>0, <2>1 DEF WriteData, FsyncFile, Chmod, WriterFacts, WriterFact, WriteTypeOK, Preparing
  <2>2. CASE v # w
    <3>1. progress[v] # "idle" => temp[v] \in Files
      BY DEF WriterFacts, WriterFact, WriteTypeOK, Files
    <3>2. QED
      BY <1>0, <2>2, <3>1 DEF WriterFacts, WriterFact, Preparing
  <2>3. QED
    BY <2>1, <2>2
<1>3. OwnTemps'
  BY <1>0 DEF OwnTemps
<1>4. OnlyCreated' /\ ReturnedWritesSurvive' /\ RenamedOnce' /\ OnlyDeathLeavesTemps'
  BY <1>0 DEF OnlyCreated, ReturnedWritesSurvive, RenamedOnce, OnlyDeathLeavesTemps
<1>5. PathHoldsWholeFiles'
  <2>1. \A k \in DOMAIN renames : renames[k] \in Files
    BY ElementOfSeq DEF WriteTypeOK
  <2>2. QED
    BY <1>0, <2>1 DEF PathHoldsWholeFiles
<1>6. QED
  BY <1>1, <1>2, <1>3, <1>4, <1>5

LEMMA ReplaceKeeps ==
  ASSUME WriteInv, NEW w \in Writers, Replace(w)
  PROVE  WriteInv'
<1> USE DEF WriteInv
<1>0. /\ progress[w] = "moded" /\ temp[w] \in Files /\ temp[w] \in 1..created
      /\ content[temp[w]] = "whole" /\ temp[w] \in synced
      /\ temp[w] \in tempNames /\ \A k \in DOMAIN renames : renames[k] # temp[w]
  BY DEF Replace, WriteTypeOK, WriterFacts, WriterFact, Preparing, Files
<1>1. /\ renames' \in Seq(Files) /\ Len(renames) \in Nat
      /\ Len(renames') = Len(renames) + 1
      /\ DOMAIN renames = 1..Len(renames)
      /\ DOMAIN renames' = 1..(Len(renames) + 1)
      /\ \A k \in DOMAIN renames : renames'[k] = renames[k]
      /\ renames'[Len(renames) + 1] = temp[w]
      /\ DOMAIN renames' = DOMAIN renames \cup {Len(renames) + 1}
      /\ Len(renames) + 1 \notin DOMAIN renames
  <2>1. /\ renames' \in Seq(Files) /\ Len(renames) \in Nat
        /\ Len(renames') = Len(renames) + 1
        /\ DOMAIN renames = 1..Len(renames)
        /\ DOMAIN renames' = 1..(Len(renames) + 1)
        /\ \A k \in 1..Len(renames) : renames'[k] = renames[k]
        /\ renames'[Len(renames) + 1] = temp[w]
    BY <1>0, RenamesAppended DEF Replace, WriteTypeOK
  <2>2. QED
    BY <2>1
<1>2. WriteTypeOK'
  BY <1>0, <1>1 DEF Replace, WriteTypeOK, Preparing
<1>3. WriterFacts'
  <2> SUFFICES ASSUME NEW v \in Writers PROVE WriterFact(v)'
    BY DEF WriterFacts
  <2>1. CASE v = w
    BY <1>0, <1>1, <2>1 DEF Replace, WriterFact, WriteTypeOK, Preparing
  <2>2. CASE v # w
    <3>1. progress'[v] = progress[v] /\ temp'[v] = temp[v] /\ WriterFact(v)
      BY <2>2 DEF Replace, WriteTypeOK, WriterFacts
    <3>2. progress[v] \in Preparing => temp[v] # temp[w]
      BY <1>0, <2>2 DEF OwnTemps, Preparing
    <3>3. progress[v] \in Preparing => temp[v] \in tempNames' /\ \A k \in DOMAIN renames' : renames'[k] # temp[v]
      BY <1>1, <3>1, <3>2 DEF Replace, WriterFact
    <3>4. progress[v] = "renamed" => \E k \in DOMAIN renames' : renames'[k] = temp[v]
      BY <1>1, <3>1 DEF WriterFact
    <3>5. QED
      BY <3>1, <3>3, <3>4 DEF Replace, WriterFact
  <2>3. QED
    BY <2>1, <2>2
<1>4. OwnTemps'
  BY <1>0 DEF Replace, OwnTemps, WriteTypeOK, Preparing
<1>5. OnlyCreated'
  BY <1>0, <1>1 DEF Replace, OnlyCreated
<1>6. PathHoldsWholeFiles'
  BY <1>0, <1>1 DEF Replace, PathHoldsWholeFiles
<1>7. ReturnedWritesSurvive'
  <2>1. \A k \in 1..onDisk : k \in DOMAIN renames
    BY <1>1 DEF WriteTypeOK
  <2>2. QED
    BY <1>1, <2>1 DEF Replace, ReturnedWritesSurvive
<1>8. RenamedOnce'
  BY <1>0, <1>1 DEF Replace, RenamedOnce
<1>9. OnlyDeathLeavesTemps'
  BY <1>0 DEF Replace, OnlyDeathLeavesTemps
<1>10. QED
  BY <1>2, <1>3, <1>4, <1>5, <1>6, <1>7, <1>8, <1>9

LEMMA FsyncDirectoryKeeps ==
  ASSUME WriteInv, NEW w \in Writers, FsyncDirectory(w)
  PROVE  WriteInv'
<1> USE DEF WriteInv
<1>0. /\ progress[w] = "renamed" /\ temp[w] \in Files
      /\ Len(renames) \in Nat /\ DOMAIN renames = 1..Len(renames)
      /\ \E k \in 1..Len(renames) : renames[k] = temp[w]
  BY LenProperties DEF FsyncDirectory, WriteTypeOK, WriterFacts, WriterFact, Files
<1>1. temp[w] \notin tempNames
  BY <1>0 DEF RenamedOnce
<1>2. WriteTypeOK'
  BY <1>0, MaxFilesAssumption DEF FsyncDirectory, WriteTypeOK, Preparing
<1>3. WriterFacts'
  <2> SUFFICES ASSUME NEW v \in Writers PROVE WriterFact(v)'
    BY DEF WriterFacts
  <2>1. WriterFact(v)
    BY DEF WriterFacts
  <2>2. QED
    BY <2>1 DEF FsyncDirectory, WriterFact, WriteTypeOK, Preparing
<1>4. OwnTemps' /\ OnlyCreated' /\ PathHoldsWholeFiles' /\ RenamedOnce'
  BY DEF FsyncDirectory, OwnTemps, OnlyCreated, PathHoldsWholeFiles, RenamedOnce, WriteTypeOK, Preparing
<1>5. ReturnedWritesSurvive'
  <2>1. onDisk \in 0..Len(renames)
    BY DEF WriteTypeOK
  <2>2. \A k \in 1..onDisk : k \in 1..Len(renames)
    BY <1>0, <2>1
  <2>3. QED
    BY <1>0, <2>2 DEF FsyncDirectory, ReturnedWritesSurvive
<1>6. OnlyDeathLeavesTemps'
  BY <1>1 DEF FsyncDirectory, OnlyDeathLeavesTemps, WriteTypeOK
<1>7. QED
  BY <1>2, <1>3, <1>4, <1>5, <1>6

\* A writer that raises, or that dies, forgets its file; only one that dies
\* leaves its temporary name.
LEMMA GiveUpKeeps ==
  ASSUME WriteInv, NEW w \in Writers, RaiseWrite(w) \/ Abandon(w)
  PROVE  WriteInv'
<1> USE DEF WriteInv
<1>0. /\ progress[w] # "idle" /\ temp[w] \in Files
      /\ progress' = [progress EXCEPT ![w] = "idle"] /\ temp' = [temp EXCEPT ![w] = 0]
      /\ UNCHANGED <<created, content, synced, renames, onDisk, returned>>
      /\ tempNames' \subseteq tempNames
      /\ tempNames \subseteq tempNames' \cup {temp[w]}
  BY DEF RaiseWrite, Abandon, WriteTypeOK, WriterFacts, WriterFact, Preparing, Files
<1>1. WriteTypeOK'
  <2>1. orphaned' \subseteq Files
    BY <1>0 DEF RaiseWrite, Abandon, WriteTypeOK
  <2>2. QED
    BY <1>0, <2>1, MaxFilesAssumption DEF WriteTypeOK
<1>2. WriterFacts'
  <2> SUFFICES ASSUME NEW v \in Writers PROVE WriterFact(v)'
    BY DEF WriterFacts
  <2>1. CASE v = w
    BY <1>0, <2>1 DEF WriterFact, WriteTypeOK, Preparing
  <2>2. CASE v # w
    <3>1. progress'[v] = progress[v] /\ temp'[v] = temp[v] /\ WriterFact(v)
      BY <1>0, <2>2 DEF WriteTypeOK, WriterFacts
    <3>2. progress[v] \in Preparing => temp[v] \in tempNames'
      <4>1. CASE RaiseWrite(w)
        <5>1. progress[v] \in Preparing => temp[v] # temp[w]
          BY <2>2, <4>1 DEF RaiseWrite, OwnTemps
        <5>2. QED
          BY <1>0, <3>1, <5>1 DEF WriterFact
      <4>2. CASE Abandon(w)
        BY <3>1, <4>2 DEF Abandon, WriterFact
      <4>3. QED
        BY <4>1, <4>2
    <3>3. QED
      BY <1>0, <3>1, <3>2 DEF WriterFact
  <2>3. QED
    BY <2>1, <2>2
<1>3. OwnTemps'
  BY <1>0 DEF OwnTemps, WriteTypeOK, Preparing
<1>4. OnlyCreated' /\ PathHoldsWholeFiles' /\ ReturnedWritesSurvive' /\ RenamedOnce'
  BY <1>0 DEF OnlyCreated, PathHoldsWholeFiles, ReturnedWritesSurvive, RenamedOnce
<1>5. OnlyDeathLeavesTemps'
  BY DEF RaiseWrite, Abandon, OnlyDeathLeavesTemps, WriteTypeOK
<1>6. QED
  BY <1>1, <1>2, <1>3, <1>4, <1>5

LEMMA PowerLossKeeps ==
  ASSUME WriteInv, PowerLoss
  PROVE  WriteInv'
<1> USE DEF WriteInv
<1>0. /\ Len(renames) \in Nat /\ DOMAIN renames = 1..Len(renames)
      /\ onDisk \in 0..Len(renames)
      /\ \A k \in DOMAIN renames : renames[k] \in Files
  BY LenProperties, ElementOfSeq DEF WriteTypeOK
<1>1. PICK m \in onDisk..Len(renames) :
        /\ renames' = SubSeq(renames, 1, m)
        /\ onDisk' = m
        /\ tempNames' = tempNames \cup {renames[j] : j \in (m + 1)..Len(renames)}
  BY DEF PowerLoss
<1>2. /\ m \in Nat /\ m \in 0..Len(renames)
      /\ renames' \in Seq(Files) /\ Len(renames') = m
      /\ DOMAIN renames' = 1..m /\ DOMAIN renames' \subseteq DOMAIN renames
      /\ \A k \in DOMAIN renames' : renames'[k] = renames[k]
  <2>1. m \in Nat /\ m \in 0..Len(renames)
    BY <1>0
  <2>2. /\ renames' \in Seq(Files) /\ Len(renames') = m
        /\ DOMAIN renames' = 1..m
        /\ \A k \in 1..m : renames'[k] = renames[k]
    BY <1>1, <2>1, RenamesCut DEF WriteTypeOK
  <2>3. QED
    BY <1>0, <2>1, <2>2
<1>3. /\ content' \in [Files -> {"torn", "whole"}]
      /\ \A f \in synced : content'[f] = content[f]
  BY DEF PowerLoss, WriteTypeOK
<1>4. \A j \in (m + 1)..Len(renames) : j \in DOMAIN renames /\ j \notin DOMAIN renames'
  BY <1>0, <1>2
<1>5. WriteTypeOK'
  <2>1. tempNames' \subseteq Files
    BY <1>0, <1>1, <1>4 DEF WriteTypeOK
  <2>2. onDisk' \in 0..Len(renames')
    BY <1>1, <1>2
  <2>3. QED
    BY <1>2, <1>3, <2>1, <2>2, MaxFilesAssumption DEF PowerLoss, WriteTypeOK
<1>6. WriterFacts' /\ OwnTemps'
  BY DEF PowerLoss, WriterFacts, WriterFact, OwnTemps, Preparing
<1>7. OnlyCreated'
  BY <1>1, <1>2, <1>4 DEF PowerLoss, OnlyCreated
<1>8. PathHoldsWholeFiles'
  BY <1>2, <1>3 DEF PowerLoss, PathHoldsWholeFiles
<1>9. ReturnedWritesSurvive'
  <2> SUFFICES ASSUME NEW f \in returned PROVE \E k \in 1..onDisk' : renames'[k] = f
    BY DEF PowerLoss, ReturnedWritesSurvive
  <2>1. PICK k \in 1..onDisk : renames[k] = f
    BY DEF ReturnedWritesSurvive
  <2>2. k \in 1..m
    BY <1>0, <1>2, <2>1
  <2>3. QED
    BY <1>1, <1>2, <2>1, <2>2
<1>10. RenamedOnce'
  <2>1. \A k \in DOMAIN renames' : renames'[k] \notin tempNames'
    BY <1>1, <1>2, <1>4 DEF RenamedOnce
  <2>2. QED
    BY <1>2, <2>1 DEF RenamedOnce
<1>11. OnlyDeathLeavesTemps'
  BY DEF PowerLoss, OnlyDeathLeavesTemps
<1>12. QED
  BY <1>5, <1>6, <1>7, <1>8, <1>9, <1>10, <1>11

LEMMA WriteInvStep == WriteInv /\ [WriteNext]_writeVars => WriteInv'
<1> SUFFICES ASSUME WriteInv, [WriteNext]_writeVars PROVE WriteInv'
  OBVIOUS
<1>1. CASE UNCHANGED writeVars
  BY <1>1 DEF writeVars, WriteInv, WriteTypeOK, WriterFacts, WriterFact, OwnTemps, OnlyCreated,
              PathHoldsWholeFiles, ReturnedWritesSurvive, RenamedOnce, OnlyDeathLeavesTemps
<1>2. CASE \E w \in Writers : MakeTemp(w)
  BY <1>2, MakeTempKeeps
<1>3. CASE \E w \in Writers : WriteData(w) \/ FsyncFile(w) \/ Chmod(w)
  BY <1>3, PrepareKeeps
<1>4. CASE \E w \in Writers : Replace(w)
  BY <1>4, ReplaceKeeps
<1>5. CASE \E w \in Writers : FsyncDirectory(w)
  BY <1>5, FsyncDirectoryKeeps
<1>6. CASE \E w \in Writers : RaiseWrite(w) \/ Abandon(w)
  BY <1>6, GiveUpKeeps
<1>7. CASE PowerLoss
  BY <1>7, PowerLossKeeps
<1>8. QED
  BY <1>1, <1>2, <1>3, <1>4, <1>5, <1>6, <1>7 DEF WriteNext

LEMMA WriteInvCorrect == WriteSpec => []WriteInv
BY WriteInvInit, WriteInvStep, PTL DEF WriteSpec

\* The variables keep their types.
THEOREM WriteTypeCorrect == WriteSpec => []WriteTypeOK
<1>1. WriteInv => WriteTypeOK
  BY DEF WriteInv
<1>2. QED
  BY <1>1, WriteInvCorrect, PTL

\* However many writers race, whoever raises, dies or loses power: a reader of
\* the path finds a whole document whose bytes are on disk.
THEOREM WholeFiles == WriteSpec => []PathHoldsWholeFiles
<1>1. WriteInv => PathHoldsWholeFiles
  BY DEF WriteInv
<1>2. QED
  BY <1>1, WriteInvCorrect, PTL

\* No power loss takes back a write that returned.
THEOREM DurableReturns == WriteSpec => []ReturnedWritesSurvive
<1>1. WriteInv => ReturnedWritesSurvive
  BY DEF WriteInv
<1>2. QED
  BY <1>1, WriteInvCorrect, PTL

\* Writers never share a temporary file, and never publish one twice.
THEOREM OneRename == WriteSpec => []RenamedOnce
<1>1. WriteInv => RenamedOnce
  BY DEF WriteInv
<1>2. QED
  BY <1>1, WriteInvCorrect, PTL

\* A temporary file that stays behind had a writer that died.
THEOREM CleanFailures == WriteSpec => []OnlyDeathLeavesTemps
<1>1. WriteInv => OnlyDeathLeavesTemps
  BY DEF WriteInv
<1>2. QED
  BY <1>1, WriteInvCorrect, PTL

\* When every renamed file is whole and synced the abstract history is the
\* sequence of renames; the lemma is used before and after a step.
LEMMA HistoryIsRenames ==
  ASSUME NEW names \in Seq(Files), NEW data, NEW durable,
         \A k \in DOMAIN names : data[names[k]] = "whole" /\ names[k] \in durable
  PROVE  [k \in 1..Len(names) |->
            IF data[names[k]] = "whole" /\ names[k] \in durable THEN names[k] ELSE 0] = names
<1>1. DOMAIN names = 1..Len(names)
  BY LenProperties
<1>2. names = [k \in DOMAIN names |-> names[k]]
  BY <1>1, IsASeq
<1>3. QED
  BY <1>1, <1>2

\* write_bytes_atomic implements DurableFile: a rename publishes, the fsync of
\* the directory promises, a power loss takes back, and nothing else is seen.
THEOREM WriteRefinement == WriteSpec => ImplementsDurableFile
<1> DEFINE H == [k \in 1..Len(renames) |-> AtPath(renames[k])]
<1>1. WriteInit => File!Init
  <2> SUFFICES ASSUME WriteInit PROVE File!Init
    OBVIOUS
  <2>1. Len(renames) = 0
    BY EmptySeq DEF WriteInit
  <2>2. H = renames
    BY WriteInvInit, HistoryIsRenames DEF AtPath, WriteInv, WriteTypeOK, PathHoldsWholeFiles
  <2>3. QED
    BY <2>2 DEF WriteInit, File!Init
<1>2. WriteInv /\ WriteInv' /\ [WriteNext]_writeVars => [File!Next]_File!vars
  <2> SUFFICES ASSUME WriteInv, WriteInv', [WriteNext]_writeVars PROVE [File!Next]_File!vars
    OBVIOUS
  <2>1. H = renames
    BY HistoryIsRenames DEF AtPath, WriteInv, WriteTypeOK, PathHoldsWholeFiles
  <2>2. H' = renames'
    BY HistoryIsRenames DEF AtPath, WriteInv, WriteTypeOK, PathHoldsWholeFiles
  <2>3. ASSUME UNCHANGED <<renames, onDisk, returned>> PROVE UNCHANGED File!vars
    BY <2>1, <2>2, <2>3 DEF File!vars
  <2>4. ASSUME NEW w \in Writers, Replace(w) PROVE File!Publish
    <3>1. temp[w] \in Files
      BY <2>4 DEF Replace, WriteInv, WriteTypeOK, WriterFacts, WriterFact, Files
    <3>2. QED
      BY <2>1, <2>2, <2>4, <3>1 DEF Replace, File!Publish
  <2>5. ASSUME NEW w \in Writers, FsyncDirectory(w) PROVE File!Promise
    <3>1. \E k \in 1..Len(renames) : renames[k] = temp[w]
      BY <2>5, LenProperties DEF FsyncDirectory, WriteInv, WriteTypeOK, WriterFacts, WriterFact
    <3>2. \E k \in 1..Len(renames) : returned' = returned \cup {renames[k]}
      BY <2>5, <3>1 DEF FsyncDirectory
    <3>3. onDisk' = Len(renames) /\ renames' = renames
      BY <2>5 DEF FsyncDirectory
    <3>4. QED
      BY <2>1, <2>2, <3>2, <3>3 DEF File!Promise
  <2>6. ASSUME PowerLoss PROVE File!TakeBack
    BY <2>1, <2>2, <2>6 DEF PowerLoss, File!TakeBack
  <2>7. ASSUME NEW w \in Writers,
               MakeTemp(w) \/ WriteData(w) \/ FsyncFile(w) \/ Chmod(w) \/ RaiseWrite(w) \/ Abandon(w)
        PROVE  UNCHANGED <<renames, onDisk, returned>>
    BY <2>7 DEF MakeTemp, WriteData, FsyncFile, Chmod, RaiseWrite, Abandon
  <2>8. CASE UNCHANGED writeVars
    BY <2>3, <2>8 DEF writeVars
  <2>9. QED
    BY <2>3, <2>4, <2>5, <2>6, <2>7, <2>8 DEF WriteNext, File!Next
<1>3. QED
  BY <1>1, <1>2, WriteInvCorrect, PTL DEF WriteSpec, ImplementsDurableFile, File!Spec

(***************************************************************************)
(* The session of a run                                                    *)
(***************************************************************************)

\* A sequence with at most one element, appended, gives a sequence.
LEMMA OptionalConcat ==
  ASSUME NEW S, NEW log \in Seq(S), NEW o \in Optional(S)
  PROVE  log \o o \in Seq(S) /\ Len(log \o o) = Len(log) + Len(o)
<1>1. CASE o = <<>>
  BY <1>1, EmptySeq, ConcatProperties
<1>2. CASE o # <<>>
  <2>1. PICK x \in S : o = <<x>>
    BY <1>2 DEF Optional
  <2>2. o \in Seq(S)
    BY <2>1
  <2>3. QED
    BY <2>2, ConcatProperties
<1>3. QED
  BY <1>1, <1>2

\* A sequence one element longer.
LEMMA ExtendedSeq ==
  ASSUME NEW S, NEW log \in Seq(S), NEW e \in S
  PROVE  /\ log \o <<e>> \in Seq(S)
         /\ DOMAIN (log \o <<e>>) = DOMAIN log \cup {Len(log) + 1}
         /\ DOMAIN log = 1..Len(log) /\ Len(log) \in Nat
         /\ \A k \in DOMAIN log : (log \o <<e>>)[k] = log[k]
         /\ (log \o <<e>>)[Len(log) + 1] = e
<1>1. <<e>> \in Seq(S) /\ Len(<<e>>) = 1 /\ <<e>>[1] = e
  OBVIOUS
<1>2. /\ log \o <<e>> \in Seq(S)
      /\ Len(log \o <<e>>) = Len(log) + 1
      /\ \A i \in 1..(Len(log) + 1) :
           (log \o <<e>>)[i] = IF i <= Len(log) THEN log[i] ELSE <<e>>[i - Len(log)]
  BY <1>1, ConcatProperties
<1>3. DOMAIN (log \o <<e>>) = 1..(Len(log) + 1)
  BY <1>2, LenProperties
<1>4. DOMAIN log = 1..Len(log) /\ Len(log) \in Nat
  BY LenProperties
<1>5. (log \o <<e>>)[Len(log) + 1] = e
  BY <1>1, <1>2, <1>4
<1>6. \A k \in DOMAIN log : (log \o <<e>>)[k] = log[k]
  BY <1>2, <1>4
<1>7. QED
  BY <1>2, <1>3, <1>4, <1>5, <1>6

\* Only the listed transitions exist, and they lead to a status with an event.
LEMMA TransitionTargets ==
  ASSUME NEW status \in Statuses, NEW target \in AllowedTransitions(status)
  PROVE  /\ target \in Statuses \ {"pending"}
         /\ status \in {"pending", "running"}
         /\ status = "running" => target \in Terminal
BY DEF AllowedTransitions, Statuses, Terminal

\* The variables keep their types, and a run its bound.
THEOREM TypeCorrect == Spec => []TypeOK
<1>1. Init => TypeOK
  BY MaxWritesAssumption, SMT
  DEF Init, TypeOK, Optional, StageMaps, Statuses, Terminal, Entries, Events
<1>2. TypeOK /\ [Next]_vars => TypeOK'
  <2> SUFFICES ASSUME TypeOK, [Next]_vars PROVE TypeOK'
    OBVIOUS
  <2> USE DEF TypeOK, NoteLate
  <2>1. ASSUME NEW r \in Runs, NEW s \in Stages, NEW status \in Statuses,
               Transition(r, s, status)
        PROVE  TypeOK'
    <3>1. status \in Statuses \ {"pending"}
      BY <2>1, TransitionTargets DEF Transition, StageMaps
    <3>2. stages' \in [Runs -> StageMaps]
      BY <2>1, <3>1 DEF Transition, StageMaps
    <3>3. unlogged' \in [Runs -> Optional(Events)]
      BY <2>1, <3>1 DEF Transition, Optional, Events
    <3>4. QED
      BY <2>1, <3>2, <3>3 DEF Transition
  <2>2. ASSUME NEW r \in Runs, LogEvent(r) PROVE TypeOK'
    <3>1. events[r] \o unlogged[r] \in Seq(Events)
      BY OptionalConcat
    <3>2. events' \in [Runs -> Seq(Events)]
      BY <2>2, <3>1 DEF LogEvent
    <3>3. unlogged' \in [Runs -> Optional(Events)]
      BY <2>2 DEF LogEvent, Optional
    <3>4. QED
      BY <2>2, <3>2, <3>3 DEF LogEvent
  <2>3. ASSUME NEW r \in Runs, NEW p \in Paths, Len(entries[r]) <= MaxWrites
        PROVE  /\ <<NextDocument(r)>> \in Optional(Documents)
               /\ <<[path |-> p, hash |-> NextDocument(r)]>> \in Optional(Entries)
               /\ Len(<<[path |-> p, hash |-> NextDocument(r)]>>) = 1
    <3>1. Len(entries[r]) \in Nat
      OBVIOUS
    <3>2. NextDocument(r) \in Documents
      BY <2>3, <3>1, MaxWritesAssumption DEF NextDocument, Documents
    <3>3. QED
      BY <3>2 DEF Optional, Entries
  <2>4. ASSUME NEW r \in Runs, NEW p \in Shared, WriteArtifact(r, p) PROVE TypeOK'
    <3>1. p \in Paths /\ Len(entries[r]) \in Nat /\ Len(entries[r]) < MaxWrites
      BY <2>4 DEF WriteArtifact, Paths
    <3>2. /\ files' \in [Paths -> Optional(Documents)]
          /\ unlisted' \in [Runs -> Optional(Entries)]
      BY <2>3, <2>4, <3>1, MaxWritesAssumption DEF WriteArtifact
    <3>3. \A q \in Runs : Len(entries'[q]) + Len(unlisted'[q]) <= MaxWrites + 1
      BY <2>3, <2>4, <3>1, MaxWritesAssumption DEF WriteArtifact
    <3>4. QED
      BY <2>4, <3>2, <3>3 DEF WriteArtifact
  <2>5. ASSUME NEW r \in Runs, ListArtifact(r) PROVE TypeOK'
    <3>1. /\ entries[r] \o unlisted[r] \in Seq(Entries)
          /\ Len(entries[r] \o unlisted[r]) = Len(entries[r]) + Len(unlisted[r])
      BY OptionalConcat
    <3>2. entries' \in [Runs -> Seq(Entries)]
      BY <2>5, <3>1 DEF ListArtifact
    <3>3. unlisted' \in [Runs -> Optional(Entries)]
      BY <2>5 DEF ListArtifact, Optional
    <3>4. \A q \in Runs : Len(entries'[q]) + Len(unlisted'[q]) <= MaxWrites + 1
      <4> SUFFICES ASSUME NEW q \in Runs
                   PROVE Len(entries'[q]) + Len(unlisted'[q]) <= MaxWrites + 1
        OBVIOUS
      <4>1. CASE q = r
        <5>1. Len(unlisted'[r]) = 0 /\ Len(entries[r]) \in Nat
          BY <2>5 DEF ListArtifact
        <5>2. QED
          BY <2>5, <3>1, <4>1, <5>1, MaxWritesAssumption DEF ListArtifact
      <4>2. CASE q # r
        BY <2>5, <4>2 DEF ListArtifact
      <4>3. QED
        BY <4>1, <4>2
    <3>5. QED
      BY <2>5, <3>2, <3>3, <3>4 DEF ListArtifact
  <2>6. ASSUME NEW r \in Runs, WriteResult(r) PROVE TypeOK'
    <3>0. ResultPath(r) \in Paths
      BY DEF Paths
    <3>1. Len(entries[r]) \in Nat /\ Len(entries[r]) <= MaxWrites
      BY <2>6 DEF WriteResult
    <3>2. /\ files' \in [Paths -> Optional(Documents)]
          /\ unlisted' \in [Runs -> Optional(Entries)]
      BY <2>3, <2>6, <3>0, <3>1 DEF WriteResult
    <3>3. result' \in [Runs -> Optional(StageMaps)]
      BY <2>6 DEF WriteResult, Optional
    <3>4. \A q \in Runs : Len(entries'[q]) + Len(unlisted'[q]) <= MaxWrites + 1
      BY <2>3, <2>6, <3>0, <3>1, MaxWritesAssumption DEF WriteResult
    <3>5. QED
      BY <2>6, <3>2, <3>3, <3>4 DEF WriteResult
  <2>7. ASSUME NEW r \in Runs, WriteManifest(r) PROVE TypeOK'
    BY <2>7 DEF WriteManifest
  <2>8. ASSUME NEW r \in Runs, RejectManifest(r) \/ Die(r) PROVE TypeOK'
    BY <2>8 DEF RejectManifest, Die
  <2>9. CASE UNCHANGED vars
    BY <2>9 DEF vars
  <2>10. QED
    BY <2>1, <2>2, <2>4, <2>5, <2>6, <2>7, <2>8, <2>9 DEF Next, Call, Continue
<1>3. QED
  BY <1>1, <1>2, PTL DEF Spec

-----------------------------------------------------------------------------
(***************************************************************************)
(* The event log                                                           *)
(***************************************************************************)

\* The log as it will be when the pending event has been appended.
FullLog(r) == events[r] \o unlogged[r]

\* What LogIsLegal says, of one log.
Legal(log) ==
  \A j, k \in DOMAIN log :
    j < k /\ log[j].stage = log[k].stage
      => log[j].kind = "running" /\ log[k].kind \in Terminal

\* The inductive invariant: memory agrees with a legal log, and from
\* result.json on neither of the two changes until a call is made.
LogInv ==
  \A r \in Runs :
    /\ Agrees(FullLog(r), stages[r])
    /\ Legal(FullLog(r))
    /\ r \notin late /\ result[r] # <<>> =>
         /\ phase[r] # "open"
         /\ result[r] = <<stages[r]>>
         /\ unlogged[r] = <<>>

\* One more event keeps the log in agreement with the stages it changes.
LEMMA AgreesExtends ==
  ASSUME NEW log \in Seq(Events), NEW st \in StageMaps, Agrees(log, st),
         NEW s \in Stages, NEW status \in Statuses \ {"pending"}
  PROVE  Agrees(log \o <<[stage |-> s, kind |-> status]>>, [st EXCEPT ![s] = status])
<1> DEFINE e == [stage |-> s, kind |-> status]
           n == Len(log) + 1
           new == [st EXCEPT ![s] = status]
<1>1. e \in Events
  BY DEF Events
<1>2. /\ DOMAIN (log \o <<e>>) = DOMAIN log \cup {n}
      /\ DOMAIN log = 1..Len(log) /\ Len(log) \in Nat
      /\ \A k \in DOMAIN log : (log \o <<e>>)[k] = log[k]
      /\ (log \o <<e>>)[n] = e
  BY <1>1, ExtendedSeq
<1> HIDE DEF e
<1>3. SUFFICES ASSUME NEW t \in Stages
      PROVE  \/ /\ new[t] = "pending"
                /\ \A k \in DOMAIN (log \o <<e>>) : (log \o <<e>>)[k].stage # t
             \/ \E k \in DOMAIN (log \o <<e>>) :
                  /\ (log \o <<e>>)[k] = [stage |-> t, kind |-> new[t]]
                  /\ \A j \in DOMAIN (log \o <<e>>) : j > k => (log \o <<e>>)[j].stage # t
  BY DEF Agrees, e
<1>4. CASE t = s
  <2>1. e = [stage |-> t, kind |-> new[t]]
    BY <1>4 DEF e, StageMaps
  <2>2. \A j \in DOMAIN (log \o <<e>>) : ~(j > n)
    BY <1>2
  <2>3. QED
    BY <1>2, <2>1, <2>2
<1>5. CASE t # s
  <2>1. new[t] = st[t] /\ e.stage # t
    BY <1>5 DEF e, StageMaps
  <2>2. CASE st[t] = "pending" /\ \A k \in DOMAIN log : log[k].stage # t
    BY <1>2, <2>1, <2>2
  <2>3. CASE \E k \in DOMAIN log :
               /\ log[k] = [stage |-> t, kind |-> st[t]]
               /\ \A j \in DOMAIN log : j > k => log[j].stage # t
    <3>1. PICK k \in DOMAIN log :
                 /\ log[k] = [stage |-> t, kind |-> st[t]]
                 /\ \A j \in DOMAIN log : j > k => log[j].stage # t
      BY <2>3
    <3>2. \A j \in DOMAIN (log \o <<e>>) : j > k => (log \o <<e>>)[j].stage # t
      BY <1>2, <2>1, <3>1
    <3>3. QED
      BY <1>2, <2>1, <3>1, <3>2
  <2>4. QED
    BY <2>2, <2>3 DEF Agrees
<1>6. QED
  BY <1>4, <1>5

\* An allowed transition keeps the log legal.
LEMMA LegalExtends ==
  ASSUME NEW log \in Seq(Events), NEW st \in StageMaps, Agrees(log, st), Legal(log),
         NEW s \in Stages, NEW status \in AllowedTransitions(st[s])
  PROVE  Legal(log \o <<[stage |-> s, kind |-> status]>>)
<1> DEFINE e == [stage |-> s, kind |-> status]
           n == Len(log) + 1
<1>0. st[s] \in Statuses
  BY DEF StageMaps
<1>1. /\ status \in Statuses \ {"pending"}
      /\ st[s] \in {"pending", "running"}
      /\ st[s] = "running" => status \in Terminal
  BY <1>0, TransitionTargets
<1>2. e \in Events /\ e.stage = s /\ e.kind = status
  BY <1>1 DEF Events
<1>3. /\ DOMAIN (log \o <<e>>) = DOMAIN log \cup {n}
      /\ DOMAIN log = 1..Len(log) /\ Len(log) \in Nat
      /\ \A k \in DOMAIN log : (log \o <<e>>)[k] = log[k]
      /\ (log \o <<e>>)[n] = e
  BY <1>2, ExtendedSeq
<1>4. ASSUME NEW j \in DOMAIN log, log[j].stage = s
      PROVE  log[j].kind = "running" /\ status \in Terminal
  <2>1. PICK k \in DOMAIN log :
               /\ log[k] = [stage |-> s, kind |-> st[s]]
               /\ \A i \in DOMAIN log : i > k => log[i].stage # s
    BY <1>4 DEF Agrees
  <2>2. log[k] \in Events
    BY <1>3, ElementOfSeq
  <2>3. st[s] = "running"
    BY <1>1, <2>1, <2>2 DEF Events
  <2>4. j <= k
    BY <1>3, <1>4, <2>1
  <2>5. CASE j = k
    BY <1>1, <2>1, <2>3, <2>5
  <2>6. CASE j < k
    <3>1. log[k].kind \in Terminal /\ log[k].kind = "running"
      BY <1>4, <2>1, <2>3, <2>6 DEF Legal
    <3>2. QED
      BY <3>1 DEF Terminal
  <2>7. QED
    BY <1>3, <2>4, <2>5, <2>6
<1> HIDE DEF e
<1>5. SUFFICES ASSUME NEW j \in DOMAIN (log \o <<e>>), NEW k \in DOMAIN (log \o <<e>>),
                      j < k, (log \o <<e>>)[j].stage = (log \o <<e>>)[k].stage
      PROVE  /\ (log \o <<e>>)[j].kind = "running"
             /\ (log \o <<e>>)[k].kind \in Terminal
  BY DEF Legal, e
<1>6. j \in DOMAIN log
  BY <1>3, <1>5
<1>7. CASE k = n
  BY <1>2, <1>3, <1>4, <1>5, <1>6, <1>7
<1>8. CASE k \in DOMAIN log
  BY <1>3, <1>5, <1>6, <1>8 DEF Legal
<1>9. QED
  BY <1>3, <1>7, <1>8

LEMMA LogInvStep == TypeOK /\ LogInv /\ [Next]_vars => LogInv'
<1> SUFFICES ASSUME TypeOK, LogInv, [Next]_vars PROVE LogInv'
  OBVIOUS
<1> USE DEF LogInv, FullLog
<1>1. \A q \in Runs : /\ stages[q] \in StageMaps /\ events[q] \in Seq(Events)
                      /\ unlogged[q] \in Optional(Events)
  BY DEF TypeOK
<1>2. ASSUME NEW r \in Runs, NEW s \in Stages, NEW status \in Statuses,
             Transition(r, s, status)
      PROVE  LogInv'
  <2> DEFINE e == [stage |-> s, kind |-> status]
  <2>1. /\ unlogged[r] = <<>>
        /\ r \notin late' => result[r] = <<>>
        /\ status \in AllowedTransitions(stages[r][s])
        /\ late \subseteq late'
    BY <1>2 DEF Transition, Idle, NoteLate
  <2>2. FullLog(r) = events[r]
    BY <1>1, <2>1, ConcatEmptySeq
  <2>3. /\ events'[r] = events[r] /\ unlogged'[r] = <<e>>
        /\ stages'[r] = [stages[r] EXCEPT ![s] = status]
    BY <1>2 DEF Transition, TypeOK
  <2>4. status \in Statuses \ {"pending"}
    BY <1>1, <2>1, TransitionTargets DEF StageMaps
  <2>5. Agrees(events[r] \o <<e>>, [stages[r] EXCEPT ![s] = status])
    BY <1>1, <2>2, <2>4, AgreesExtends
  <2>6. Legal(events[r] \o <<e>>)
    BY <1>1, <2>1, <2>2, LegalExtends
  <2>7. \A q \in Runs \ {r} : /\ events'[q] = events[q] /\ unlogged'[q] = unlogged[q]
                              /\ stages'[q] = stages[q]
    BY <1>2 DEF Transition, TypeOK
  <2>8. UNCHANGED <<phase, result>>
    BY <1>2 DEF Transition
  <2> HIDE DEF e
  <2>9. \A q \in Runs : Agrees(FullLog(q), stages[q])' /\ Legal(FullLog(q))'
    BY <2>3, <2>5, <2>6, <2>7
  <2>10. \A q \in Runs : q \notin late' /\ result'[q] # <<>> =>
           phase'[q] # "open" /\ result'[q] = <<stages'[q]>> /\ unlogged'[q] = <<>>
    BY <2>1, <2>7, <2>8
  <2>11. QED
    BY <2>9, <2>10
<1>3. ASSUME NEW r \in Runs, LogEvent(r) PROVE LogInv'
  <2>1. \A q \in Runs : (events'[q] \o unlogged'[q]) = FullLog(q)
    <3>1. events[r] \o unlogged[r] \in Seq(Events)
      BY <1>1, OptionalConcat
    <3>2. (events[r] \o unlogged[r]) \o <<>> = events[r] \o unlogged[r]
      BY <3>1, ConcatEmptySeq
    <3>3. QED
      BY <1>3, <3>2 DEF LogEvent, TypeOK
  <2>2. UNCHANGED <<phase, stages, result, late>> /\ unlogged[r] # <<>>
    BY <1>3 DEF LogEvent
  <2>3. \A q \in Runs : Agrees(FullLog(q), stages[q])' /\ Legal(FullLog(q))'
    BY <2>1, <2>2
  <2>4. \A q \in Runs \ {r} : unlogged'[q] = unlogged[q]
    BY <1>3 DEF LogEvent, TypeOK
  <2>5. QED
    BY <2>2, <2>3, <2>4
<1>4. ASSUME NEW r \in Runs, WriteResult(r) PROVE LogInv'
  <2>1. UNCHANGED <<stages, unlogged, events>> /\ unlogged[r] = <<>> /\ late \subseteq late'
    BY <1>4 DEF WriteResult, Idle, NoteLate
  <2>2. /\ result'[r] = <<stages[r]>> /\ phase'[r] # "open"
        /\ \A q \in Runs \ {r} : result'[q] = result[q] /\ phase'[q] = phase[q]
    BY <1>4 DEF WriteResult, TypeOK
  <2>3. QED
    BY <2>1, <2>2
<1>5. ASSUME NEW r \in Runs, WriteManifest(r) \/ RejectManifest(r) \/ Die(r) PROVE LogInv'
  <2>1. /\ UNCHANGED <<stages, unlogged, events, result, late>>
        /\ phase'[r] # "open" /\ \A q \in Runs \ {r} : phase'[q] = phase[q]
    BY <1>5 DEF WriteManifest, RejectManifest, Die, TypeOK
  <2>2. QED
    BY <2>1
<1>6. ASSUME UNCHANGED <<phase, stages, unlogged, events, result>>, late \subseteq late'
      PROVE  LogInv'
  BY <1>6
<1>7. ASSUME NEW r \in Runs, ListArtifact(r) \/ \E p \in Shared : WriteArtifact(r, p)
      PROVE  LogInv'
  BY <1>6, <1>7 DEF ListArtifact, WriteArtifact, NoteLate
<1>8. CASE UNCHANGED vars
  BY <1>6, <1>8 DEF vars
<1>9. QED
  BY <1>2, <1>3, <1>4, <1>5, <1>7, <1>8 DEF Next, Call, Continue

LEMMA LogInvCorrect == Spec => []LogInv
<1>1. Init => LogInv
  <2> SUFFICES ASSUME Init PROVE LogInv
    OBVIOUS
  <2>1. \A r \in Runs : FullLog(r) = <<>>
    BY ConcatEmptySeq, EmptySeq DEF Init, FullLog
  <2>2. \A r \in Runs : Agrees(<<>>, stages[r])
    BY EmptySeq DEF Init, Agrees
  <2>3. Legal(<<>>)
    BY EmptySeq DEF Legal
  <2>4. \A r \in Runs : result[r] = <<>>
    BY DEF Init
  <2>5. QED
    BY <2>1, <2>2, <2>3, <2>4 DEF LogInv
<1>2. QED
  BY <1>1, LogInvStep, TypeCorrect, PTL DEF Spec

\* Memory and log agree in every state of every run.
THEOREM MemoryLog == Spec => []MemoryAgreesWithLog
<1>1. LogInv => MemoryAgreesWithLog
  BY DEF LogInv, FullLog, MemoryAgreesWithLog
<1>2. QED
  BY <1>1, LogInvCorrect, PTL

\* result.json never contradicts events.ndjson.
THEOREM ResultLog == Spec => []ResultAgreesWithLog
<1>1. TypeOK /\ LogInv => ResultAgreesWithLog
  <2> SUFFICES ASSUME TypeOK, LogInv, NEW r \in Runs, r \notin late, result[r] # <<>>
               PROVE  Agrees(events[r], result[r][1])
    BY DEF ResultAgreesWithLog
  <2>1. result[r] = <<stages[r]>> /\ unlogged[r] = <<>> /\ Agrees(FullLog(r), stages[r])
    BY DEF LogInv
  <2>2. FullLog(r) = events[r]
    BY <2>1, ConcatEmptySeq DEF FullLog, TypeOK
  <2>3. QED
    BY <2>1, <2>2
<1>2. QED
  BY <1>1, TypeCorrect, LogInvCorrect, PTL

\* No stage is reopened and none ends twice, in the log on disk.
THEOREM LegalLog == Spec => []LogIsLegal
<1>1. TypeOK /\ LogInv => LogIsLegal
  <2> SUFFICES ASSUME TypeOK, LogInv, NEW r \in Runs PROVE Legal(events[r])
    BY DEF LogIsLegal, Legal
  <2>1. events[r] \in Seq(Events) /\ Legal(FullLog(r))
    BY DEF LogInv, TypeOK
  <2>2. CASE unlogged[r] = <<>>
    BY <2>1, <2>2, ConcatEmptySeq DEF FullLog
  <2>3. CASE unlogged[r] # <<>>
    <3>1. PICK e \in Events : unlogged[r] = <<e>>
      BY <2>3 DEF TypeOK, Optional
    <3>2. /\ DOMAIN events[r] \subseteq DOMAIN FullLog(r)
          /\ \A k \in DOMAIN events[r] : FullLog(r)[k] = events[r][k]
      BY <2>1, <3>1, ExtendedSeq DEF FullLog
    <3>3. QED
      BY <2>1, <3>2 DEF Legal
  <2>4. QED
    BY <2>2, <2>3
<1>2. QED
  BY <1>1, TypeCorrect, LogInvCorrect, PTL

\* The log of a run is legal, and its result.json says what the log says.
THEOREM LogsAreTrue == Spec => []LogIsTrue
<1>1. LogIsLegal /\ ResultAgreesWithLog => LogIsTrue
  BY DEF LogIsTrue
<1>2. QED
  BY <1>1, LegalLog, ResultLog, PTL

-----------------------------------------------------------------------------
(***************************************************************************)
(* The manifest                                                            *)
(***************************************************************************)

\* The file at an entry's path is the run's own latest one, or another run's.
Accounted(r, es, e) ==
  /\ files[e.path] # <<>>
  /\ files[e.path][1][1] = r =>
       \E j \in DOMAIN es : es[j].path = e.path /\ files[e.path] = <<es[j].hash>>

\* Every artifact a run wrote, listed or about to be.
Recorded(r) == entries[r] \o unlisted[r]

LEMMA ManifestTypes ==
  ASSUME TypeOK, NEW q \in Runs
  PROVE  /\ entries[q] \in Seq(Entries) /\ unlisted[q] \in Optional(Entries)
         /\ Recorded(q) \in Seq(Entries) /\ DOMAIN Recorded(q) = 1..Len(Recorded(q))
         /\ Len(Recorded(q)) \in Nat
         /\ \A k \in DOMAIN Recorded(q) : Recorded(q)[k] \in Entries
         /\ unlisted[q] = <<>> => Recorded(q) = entries[q]
<1>1. entries[q] \in Seq(Entries) /\ unlisted[q] \in Optional(Entries)
  BY DEF TypeOK
<1>2. Recorded(q) \in Seq(Entries)
  BY <1>1, OptionalConcat DEF Recorded
<1>3. unlisted[q] = <<>> => Recorded(q) = entries[q]
  BY <1>1, ConcatEmptySeq DEF Recorded
<1>4. DOMAIN Recorded(q) = 1..Len(Recorded(q)) /\ Len(Recorded(q)) \in Nat
  BY <1>2, LenProperties
<1>5. \A k \in DOMAIN Recorded(q) : Recorded(q)[k] \in Entries
  BY <1>2, <1>4, ElementOfSeq
<1>6. QED
  BY <1>1, <1>2, <1>3, <1>4, <1>5

\* Each recorded artifact is accounted for.
AllAccounted ==
  \A q \in Runs : \A k \in DOMAIN Recorded(q) :
    /\ Recorded(q)[k].hash[1] = q
    /\ Accounted(q, Recorded(q), Recorded(q)[k])

\* Writing a document and having it listed accounts for it, and for the
\* document it replaces.
LEMMA RecordArtifact ==
  ASSUME TypeOK, AllAccounted, NEW r \in Runs, NEW p \in Paths,
         NEW d \in Documents, d[1] = r, unlisted[r] = <<>>, UNCHANGED entries,
         files' = [files EXCEPT ![p] = <<d>>],
         unlisted' = [unlisted EXCEPT ![r] = <<[path |-> p, hash |-> d]>>]
  PROVE  /\ AllAccounted'
         /\ Recorded(r)' # <<>>
         /\ Recorded(r)'[Len(Recorded(r)')].path = p
         /\ \A q \in Runs \ {r} : Recorded(q)' = Recorded(q)
         /\ (\E k \in DOMAIN entries[r] : entries[r][k].path = p) => ~UniquePaths(Recorded(r)')
<1> DEFINE e == [path |-> p, hash |-> d]
           n == Len(entries[r]) + 1
<1>1. e \in Entries /\ e.path = p /\ e.hash = d
  BY DEF Entries
<1>2. entries[r] \in Seq(Entries) /\ Recorded(r) = entries[r]
  BY ManifestTypes
<1> HIDE DEF e
<1>3. Recorded(r)' = entries[r] \o <<e>>
  BY DEF Recorded, TypeOK, e
<1>4. /\ entries[r] \o <<e>> \in Seq(Entries)
      /\ DOMAIN (entries[r] \o <<e>>) = DOMAIN entries[r] \cup {n}
      /\ \A k \in DOMAIN entries[r] : (entries[r] \o <<e>>)[k] = entries[r][k]
      /\ (entries[r] \o <<e>>)[n] = e
      /\ DOMAIN entries[r] = 1..Len(entries[r]) /\ Len(entries[r]) \in Nat
  BY <1>1, <1>2, ExtendedSeq
<1>5. Len(entries[r] \o <<e>>) = n
  <2>1. DOMAIN (entries[r] \o <<e>>) = 1..Len(entries[r] \o <<e>>)
    BY <1>4, LenProperties
  <2>2. Len(entries[r] \o <<e>>) \in Nat
    BY <1>4, LenProperties
  <2>3. QED
    BY <1>4, <2>1, <2>2
<1>6. \A q \in Runs \ {r} : Recorded(q)' = Recorded(q)
  BY DEF Recorded, TypeOK
<1>7. \A x \in Paths : files'[x] = IF x = p THEN <<d>> ELSE files[x]
  BY DEF TypeOK
<1>8. ASSUME NEW q \in Runs, NEW k \in DOMAIN Recorded(q)'
      PROVE  /\ Recorded(q)'[k].hash[1] = q
             /\ files'[Recorded(q)'[k].path] # <<>>
             /\ files'[Recorded(q)'[k].path][1][1] = q =>
                  \E j \in DOMAIN Recorded(q)' :
                    /\ Recorded(q)'[j].path = Recorded(q)'[k].path
                    /\ files'[Recorded(q)'[k].path] = <<Recorded(q)'[j].hash>>
  <2>1. CASE q # r
    <3>1. Recorded(q)' = Recorded(q)
      BY <1>6, <2>1
    <3>2. Recorded(q)[k] \in Entries /\ Recorded(q)[k].path \in Paths
      BY <1>8, <3>1, ManifestTypes DEF Entries
    <3>3. Recorded(q)[k].hash[1] = q /\ Accounted(q, Recorded(q), Recorded(q)[k])
      BY <1>8, <3>1 DEF AllAccounted
    <3>4. CASE Recorded(q)[k].path = p
      BY <1>7, <2>1, <3>1, <3>2, <3>3, <3>4
    <3>5. CASE Recorded(q)[k].path # p
      BY <1>7, <3>1, <3>2, <3>3, <3>5 DEF Accounted
    <3>6. QED
      BY <3>4, <3>5
  <2>2. CASE q = r /\ k = n
    <3>1. Recorded(q)'[k] = e
      BY <1>3, <1>4, <2>2
    <3>2. QED
      BY <1>1, <1>7, <2>2, <3>1
  <2>3. CASE q = r /\ k \in DOMAIN entries[r]
    <3>1. Recorded(r)'[k] = Recorded(r)[k] /\ k \in DOMAIN Recorded(r)
      BY <1>2, <1>3, <1>4, <2>3
    <3>2. Recorded(r)[k].path \in Paths
      BY <3>1, ManifestTypes DEF Entries
    <3>3. Recorded(r)[k].hash[1] = r /\ Accounted(r, Recorded(r), Recorded(r)[k])
      BY <3>1 DEF AllAccounted
    <3>4. CASE Recorded(r)[k].path = p
      <4>1. n \in DOMAIN Recorded(r)' /\ Recorded(r)'[n].path = p /\ Recorded(r)'[n].hash = d
        BY <1>1, <1>3, <1>4
      <4>2. QED
        BY <1>7, <2>3, <3>1, <3>2, <3>3, <3>4, <4>1
    <3>5. CASE Recorded(r)[k].path # p
      <4>1. files'[Recorded(r)[k].path] = files[Recorded(r)[k].path]
        BY <1>7, <3>2, <3>5
      <4>2. \A j \in DOMAIN Recorded(r) : j \in DOMAIN Recorded(r)' /\ Recorded(r)'[j] = Recorded(r)[j]
        BY <1>2, <1>3, <1>4
      <4>3. QED
        BY <2>3, <3>1, <3>3, <4>1, <4>2 DEF Accounted
    <3>6. QED
      BY <3>4, <3>5
  <2>4. QED
    BY <1>3, <1>4, <1>8, <2>1, <2>2, <2>3
<1>9. AllAccounted'
  BY <1>8 DEF AllAccounted, Accounted
<1>10. n \in DOMAIN (entries[r] \o <<e>>) /\ (entries[r] \o <<e>>) # <<>>
  BY <1>4, EmptySeq
<1>11. ASSUME NEW k \in DOMAIN entries[r], entries[r][k].path = p
       PROVE  ~UniquePaths(Recorded(r)')
  <2>1. k # n /\ k \in DOMAIN (entries[r] \o <<e>>)
    BY <1>4
  <2>2. (entries[r] \o <<e>>)[k].path = (entries[r] \o <<e>>)[n].path
    BY <1>1, <1>4, <1>11
  <2>3. QED
    BY <1>3, <1>10, <2>1, <2>2 DEF UniquePaths
<1>12. QED
  BY <1>1, <1>3, <1>4, <1>5, <1>6, <1>9, <1>10, <1>11

\* In finish, result.json is the last recorded artifact.  A manifest was such a
\* list, and is the whole of it until the next call; result.json stays recorded,
\* so that a list which ends with another one is refused.
Sealed(r) ==
  /\ phase[r] \in {"finishing", "finished"} => result[r] # <<>>
  /\ phase[r] = "finishing" =>
       /\ Recorded(r) # <<>>
       /\ Recorded(r)[Len(Recorded(r))].path = ResultPath(r)
  /\ manifest[r] # <<>> =>
       /\ phase[r] # "open" /\ result[r] # <<>>
       /\ UniquePaths(manifest[r])
       /\ manifest[r][Len(manifest[r])].path = ResultPath(r)
       /\ \E k \in DOMAIN entries[r] : entries[r][k].path = ResultPath(r)
       /\ phase[r] = "finishing" => ~UniquePaths(Recorded(r))
       /\ r \notin late =>
            phase[r] = "finished" /\ unlisted[r] = <<>> /\ manifest[r] = entries[r]

ManifestInv == AllAccounted /\ \A r \in Runs : Sealed(r)

LEMMA ManifestInvStep == TypeOK /\ ManifestInv /\ [Next]_vars => ManifestInv'
<1> SUFFICES ASSUME TypeOK, ManifestInv, [Next]_vars PROVE ManifestInv'
  OBVIOUS
<1>1. AllAccounted /\ \A q \in Runs : Sealed(q)
  BY DEF ManifestInv
\* A step that leaves the files and the recorded artifacts alone.
<1>2. ASSUME UNCHANGED files, \A q \in Runs : Recorded(q)' = Recorded(q)
      PROVE  AllAccounted'
  <2>1. \A q \in Runs : \A k \in DOMAIN Recorded(q) :
          /\ Recorded(q)[k].hash[1] = q
          /\ Accounted(q, Recorded(q), Recorded(q)[k])
    BY <1>1 DEF AllAccounted
  <2>2. ASSUME NEW q \in Runs, NEW k \in DOMAIN Recorded(q)'
        PROVE  /\ Recorded(q)'[k].hash[1] = q
               /\ files'[Recorded(q)'[k].path] # <<>>
               /\ files'[Recorded(q)'[k].path][1][1] = q =>
                    \E j \in DOMAIN Recorded(q)' :
                      /\ Recorded(q)'[j].path = Recorded(q)'[k].path
                      /\ files'[Recorded(q)'[k].path] = <<Recorded(q)'[j].hash>>
    <3>1. Recorded(q)' = Recorded(q) /\ k \in DOMAIN Recorded(q)
      BY <1>2, <2>2
    <3>2. Recorded(q)[k].hash[1] = q /\ Accounted(q, Recorded(q), Recorded(q)[k])
      BY <2>1, <3>1
    <3>3. QED
      BY <1>2, <3>1, <3>2 DEF Accounted
  <2>3. QED
    BY <2>2 DEF AllAccounted, Accounted
<1>3. ASSUME UNCHANGED <<entries, unlisted>> PROVE \A q \in Runs : Recorded(q)' = Recorded(q)
  BY <1>3 DEF Recorded
<1>4. ASSUME NEW q \in Runs, Recorded(q)' = Recorded(q), phase'[q] = phase[q],
             result'[q] = result[q], manifest'[q] = manifest[q],
             entries'[q] = entries[q], unlisted'[q] = unlisted[q], q \in late => q \in late'
      PROVE  Sealed(q)'
  BY <1>1, <1>4 DEF Sealed, UniquePaths
<1>5. ASSUME NEW r \in Runs, NEW p \in Shared, WriteArtifact(r, p) PROVE ManifestInv'
  <2> DEFINE d == NextDocument(r)
  <2>1. /\ p \in Paths /\ d \in Documents /\ d[1] = r /\ unlisted[r] = <<>>
    <3>1. Len(entries[r]) \in Nat /\ Len(entries[r]) < MaxWrites /\ unlisted[r] = <<>>
      BY <1>5, ManifestTypes, LenProperties DEF WriteArtifact, Idle
    <3>2. QED
      BY <3>1, MaxWritesAssumption DEF NextDocument, Documents, Paths
  <2>2. /\ files' = [files EXCEPT ![p] = <<d>>] /\ UNCHANGED <<phase, entries, result, manifest>>
        /\ unlisted' = [unlisted EXCEPT ![r] = <<[path |-> p, hash |-> d]>>]
        /\ phase[r] \in {"open", "finished"} /\ late \subseteq late'
        /\ phase[r] = "finished" => r \in late'
    BY <1>5 DEF WriteArtifact, Idle, NoteLate
  <2> HIDE DEF d
  <2>3. AllAccounted' /\ \A q \in Runs \ {r} : Recorded(q)' = Recorded(q)
    BY <1>1, <2>1, <2>2, RecordArtifact
  <2>4. \A q \in Runs \ {r} : unlisted'[q] = unlisted[q]
    BY <2>2 DEF TypeOK
  <2>5. \A q \in Runs \ {r} : Sealed(q)'
    BY <1>4, <2>2, <2>3, <2>4
  <2>6. Sealed(r)'
    BY <1>1, <2>2 DEF Sealed, UniquePaths
  <2>7. QED
    BY <2>3, <2>5, <2>6 DEF ManifestInv
<1>6. ASSUME NEW r \in Runs, ListArtifact(r) PROVE ManifestInv'
  <2>1. UNCHANGED <<phase, files, result, manifest, late>> /\ unlisted[r] # <<>>
    BY <1>6 DEF ListArtifact
  <2>2. \A q \in Runs \ {r} : entries'[q] = entries[q] /\ unlisted'[q] = unlisted[q]
    BY <1>6 DEF ListArtifact, TypeOK
  <2>3. entries'[r] = Recorded(r) /\ unlisted'[r] = <<>>
    BY <1>6 DEF ListArtifact, TypeOK, Recorded
  <2>4. \A q \in Runs : Recorded(q)' = Recorded(q)
    <3>1. Recorded(r) \in Seq(Entries)
      BY ManifestTypes
    <3>2. Recorded(r) \o <<>> = Recorded(r)
      BY <3>1, ConcatEmptySeq
    <3>3. QED
      BY <2>2, <2>3, <3>2 DEF Recorded
  <2>5. \A q \in Runs \ {r} : Sealed(q)'
    BY <1>4, <2>1, <2>2, <2>4
  <2>6. DOMAIN entries[r] \subseteq DOMAIN Recorded(r)
        /\ \A k \in DOMAIN entries[r] : Recorded(r)[k] = entries[r][k]
    <3>1. PICK e \in Entries : unlisted[r] = <<e>>
      BY <2>1, ManifestTypes DEF Optional
    <3>2. entries[r] \in Seq(Entries) /\ Recorded(r) = entries[r] \o <<e>>
      BY <3>1, ManifestTypes DEF Recorded
    <3>3. QED
      BY <3>2, ExtendedSeq
  <2>7. Sealed(r)'
    BY <1>1, <2>1, <2>3, <2>4, <2>6 DEF Sealed, UniquePaths
  <2>8. QED
    BY <1>2, <2>1, <2>4, <2>5, <2>7 DEF ManifestInv
<1>7. ASSUME NEW r \in Runs, WriteResult(r) PROVE ManifestInv'
  <2> DEFINE d == NextDocument(r)
             p == ResultPath(r)
  <2>1. /\ p \in Paths /\ d \in Documents /\ d[1] = r /\ unlisted[r] = <<>>
    <3>1. /\ Len(entries[r]) \in Nat /\ unlisted[r] = <<>> /\ Len(entries[r]) <= MaxWrites
      BY <1>7, ManifestTypes, LenProperties DEF WriteResult, Idle
    <3>2. QED
      BY <3>1, MaxWritesAssumption DEF NextDocument, Documents, Paths
  <2>2. /\ files' = [files EXCEPT ![p] = <<d>>] /\ UNCHANGED <<entries, manifest>>
        /\ unlisted' = [unlisted EXCEPT ![r] = <<[path |-> p, hash |-> d]>>]
        /\ phase[r] \in {"open", "finished"} /\ late \subseteq late'
        /\ phase[r] = "finished" => r \in late'
    BY <1>7 DEF WriteResult, Idle, NoteLate
  <2>3. /\ result'[r] # <<>> /\ phase'[r] = "finishing"
        /\ \A q \in Runs \ {r} : /\ phase'[q] = phase[q] /\ result'[q] = result[q]
                                 /\ unlisted'[q] = unlisted[q]
    BY <1>7 DEF WriteResult, TypeOK
  <2> HIDE DEF d, p
  <2>4. /\ AllAccounted' /\ \A q \in Runs \ {r} : Recorded(q)' = Recorded(q)
        /\ Recorded(r)' # <<>> /\ Recorded(r)'[Len(Recorded(r)')].path = p
        /\ (\E k \in DOMAIN entries[r] : entries[r][k].path = p) => ~UniquePaths(Recorded(r)')
    BY <1>1, <2>1, <2>2, RecordArtifact
  <2>5. \A q \in Runs \ {r} : Sealed(q)'
    BY <1>4, <2>2, <2>3, <2>4
  <2>6. Sealed(r)'
    BY <1>1, <2>2, <2>3, <2>4 DEF Sealed, UniquePaths, p
  <2>7. QED
    BY <2>4, <2>5, <2>6 DEF ManifestInv
<1>8. ASSUME NEW r \in Runs, WriteManifest(r) PROVE ManifestInv'
  <2>1. /\ UNCHANGED <<files, entries, unlisted, result, late>>
        /\ phase[r] = "finishing" /\ unlisted[r] = <<>> /\ UniquePaths(entries[r])
    BY <1>8 DEF WriteManifest
  <2>2. /\ manifest'[r] = entries[r] /\ phase'[r] = "finished"
        /\ \A q \in Runs \ {r} : manifest'[q] = manifest[q] /\ phase'[q] = phase[q]
    BY <1>8 DEF WriteManifest, TypeOK
  <2>3. \A q \in Runs : Recorded(q)' = Recorded(q)
    BY <1>3, <2>1
  <2>4. \A q \in Runs \ {r} : Sealed(q)'
    BY <1>4, <2>1, <2>2, <2>3
  <2>5. Sealed(r)'
    <3>1. Recorded(r) = entries[r] /\ Len(entries[r]) \in DOMAIN entries[r]
      <4>1. /\ Recorded(r) = entries[r] /\ entries[r] \in Seq(Entries) /\ entries[r] # <<>>
            /\ DOMAIN entries[r] = 1..Len(entries[r]) /\ Len(entries[r]) \in Nat
        BY <1>1, <2>1, ManifestTypes DEF Sealed
      <4>2. 0 < Len(entries[r])
        BY <4>1, EmptySeq
      <4>3. QED
        BY <4>1, <4>2
    <3>2. entries[r][Len(entries[r])].path = ResultPath(r) /\ result[r] # <<>>
      BY <1>1, <2>1, <3>1 DEF Sealed
    <3>3. QED
      BY <2>1, <2>2, <3>1, <3>2 DEF Sealed, UniquePaths
  <2>6. QED
    BY <1>2, <2>1, <2>3, <2>4, <2>5 DEF ManifestInv
<1>9. ASSUME NEW r \in Runs, RejectManifest(r) \/ Die(r) PROVE ManifestInv'
  <2>1. /\ UNCHANGED <<files, entries, unlisted, result, manifest, late>>
        /\ phase[r] \in {"open", "finishing"} /\ phase'[r] \in {"finished", "dead"}
        /\ \A q \in Runs \ {r} : phase'[q] = phase[q]
    BY <1>9 DEF RejectManifest, Die, TypeOK
  <2>2. \A q \in Runs : Recorded(q)' = Recorded(q)
    BY <1>3, <2>1
  <2>3. \A q \in Runs \ {r} : Sealed(q)'
    BY <1>4, <2>1, <2>2
  <2>4. Sealed(r)'
    <3>1. Sealed(r) /\ phase'[r] # "finishing" /\ phase'[r] # "open"
      BY <1>1, <2>1
    <3>2. manifest[r] # <<>> => r \in late
      BY <2>1, <3>1 DEF Sealed
    <3>3. phase'[r] = "finished" => phase[r] = "finishing"
      BY <1>9 DEF RejectManifest, Die, TypeOK
    <3>4. result[r] = result'[r] /\ manifest'[r] = manifest[r] /\ entries'[r] = entries[r]
      BY <2>1
    <3>5. QED
      BY <2>1, <3>1, <3>2, <3>3, <3>4 DEF Sealed, UniquePaths
  <2>5. QED
    BY <1>2, <2>1, <2>2, <2>3, <2>4 DEF ManifestInv
<1>10. ASSUME UNCHANGED <<phase, files, unlisted, entries, result, manifest>>, late \subseteq late'
       PROVE  ManifestInv'
  <2>1. \A q \in Runs : Recorded(q)' = Recorded(q)
    BY <1>3, <1>10
  <2>2. \A q \in Runs : Sealed(q)'
    BY <1>4, <1>10, <2>1
  <2>3. QED
    BY <1>2, <1>10, <2>1, <2>2 DEF ManifestInv
<1>11. ASSUME NEW r \in Runs,
              LogEvent(r) \/ \E s \in Stages, status \in Statuses : Transition(r, s, status)
       PROVE  ManifestInv'
  BY <1>10, <1>11 DEF LogEvent, Transition, NoteLate
<1>12. CASE UNCHANGED vars
  BY <1>10, <1>12 DEF vars
<1>13. QED
  BY <1>5, <1>6, <1>7, <1>8, <1>9, <1>11, <1>12 DEF Next, Call, Continue

LEMMA ManifestInvCorrect == Spec => []ManifestInv
<1>1. Init => ManifestInv
  <2> SUFFICES ASSUME Init PROVE ManifestInv
    OBVIOUS
  <2>1. \A r \in Runs : Recorded(r) = <<>> /\ manifest[r] = <<>> /\ phase[r] = "open"
    BY ConcatEmptySeq, EmptySeq DEF Init, Recorded
  <2>2. AllAccounted
    BY <2>1, EmptySeq DEF AllAccounted
  <2>3. \A r \in Runs : Sealed(r)
    BY <2>1 DEF Sealed
  <2>4. QED
    BY <2>2, <2>3 DEF ManifestInv
<1>2. QED
  BY <1>1, ManifestInvStep, TypeCorrect, PTL DEF Spec

\* A manifest has unique paths, ends with result.json and is not there before it.
THEOREM ManifestSeals == Spec => []ManifestSealsRun
<1>1. ManifestInv => ManifestSealsRun
  BY DEF ManifestInv, Sealed, ManifestSealsRun, UniquePaths
<1>2. QED
  BY <1>1, ManifestInvCorrect, PTL

\* verify_manifest never reports a run's own doing.
THEOREM DriftIsForeign == Spec => []OnlyOthersCauseDrift
<1>1. TypeOK /\ ManifestInv => OnlyOthersCauseDrift
  <2> SUFFICES ASSUME TypeOK, ManifestInv, NEW r \in Runs, r \notin late, manifest[r] # <<>>,
                      NEW k \in DOMAIN manifest[r],
                      files[manifest[r][k].path] # <<manifest[r][k].hash>>
               PROVE  LET file == files[manifest[r][k].path]
                      IN  file # <<>> /\ file[1][1] # r
    BY DEF OnlyOthersCauseDrift, Problems
  <2>1. /\ manifest[r] = entries[r] /\ Recorded(r) = entries[r] /\ UniquePaths(entries[r])
    BY ManifestTypes DEF ManifestInv, Sealed
  <2>2. Accounted(r, entries[r], entries[r][k])
    BY <2>1 DEF ManifestInv, AllAccounted
  <2>3. \A j \in DOMAIN entries[r] : entries[r][j].path = entries[r][k].path => j = k
    BY <2>1 DEF UniquePaths
  <2>4. QED
    BY <2>1, <2>2, <2>3 DEF Accounted
<1>2. QED
  BY <1>1, TypeCorrect, ManifestInvCorrect, PTL

\* What a manifest says is so, but for what other runs did since.
THEOREM ManifestsAreTrue == Spec => []ManifestIsTrue
<1>1. ManifestSealsRun /\ OnlyOthersCauseDrift => ManifestIsTrue
  BY DEF ManifestIsTrue
<1>2. QED
  BY <1>1, ManifestSeals, DriftIsForeign, PTL

\* No finish after the first that wrote a manifest writes another.
THEOREM OneManifest == Spec => ManifestIsFinal
<1>1. TypeOK /\ ManifestInv /\ [Next]_vars =>
        [\A r \in Runs : manifest[r] # <<>> => manifest'[r] = manifest[r]]_vars
  <2> SUFFICES ASSUME TypeOK, ManifestInv, Next, NEW r \in Runs, manifest[r] # <<>>
               PROVE  manifest'[r] = manifest[r]
    BY DEF vars
  <2>1. ASSUME NEW q \in Runs, WriteManifest(q) PROVE manifest'[r] = manifest[r]
    <3>1. Recorded(q) = entries[q]
      BY <2>1, ManifestTypes DEF WriteManifest
    <3>2. manifest[q] = <<>>
      BY <2>1, <3>1 DEF WriteManifest, ManifestInv, Sealed
    <3>3. QED
      BY <2>1, <3>2 DEF WriteManifest, TypeOK
  <2>2. ASSUME NEW q \in Runs,
               \/ \E p \in Shared : WriteArtifact(q, p)
               \/ WriteResult(q) \/ LogEvent(q)
               \/ ListArtifact(q) \/ RejectManifest(q) \/ Die(q)
               \/ \E s \in Stages, status \in Statuses : Transition(q, s, status)
        PROVE  UNCHANGED manifest
    BY <2>2 DEF WriteArtifact, WriteResult, LogEvent, ListArtifact, RejectManifest, Die, Transition
  <2>3. QED
    BY <2>1, <2>2 DEF Next, Call, Continue
<1>2. QED
  BY <1>1, TypeCorrect, ManifestInvCorrect, PTL DEF Spec, ManifestIsFinal

-----------------------------------------------------------------------------
(***************************************************************************)
(* CleanRuns: a clean changes nothing of what a run wrote, so every        *)
(* theorem above holds beside it; and what is left on disk, and what a run *)
(* writes again, contradicts nothing.                                      *)
(***************************************************************************)

\* A step of a clean is no step of a run.
LEMMA CleanSteps == [NextClean]_cleanVars => [Next]_vars
BY DEF NextClean, RunStep, Clean, ListRuns, StopClean, Lose, RemoveLog, RemoveResult,
       RemoveManifest, RemoveDirectory, cleanVars

\* Runs beside a clean are runs: it has no part in their state.
THEOREM CleanedRunsAreRuns == SpecClean => Spec
<1>1. InitClean => Init
  BY DEF InitClean
<1>2. QED
  BY <1>1, CleanSteps, PTL DEF SpecClean, Spec

\* So what the files of runs say of each other is so beside a clean, too, as long
\* as a clean has not removed one of them.
THEOREM SessionsBesideCleans ==
  SpecClean => [](TypeOK /\ LogIsTrue /\ ManifestIsTrue) /\ ManifestIsFinal
BY CleanedRunsAreRuns, TypeCorrect, LogsAreTrue, ManifestsAreTrue, OneManifest, PTL

-----------------------------------------------------------------------------
(***************************************************************************)
(* The inductive invariant                                                 *)
(***************************************************************************)

\* A run that is under way and has all it wrote is still there when it is
\* listed; one whose directory was removed when it had ended is gone.
CleanInv ==
  /\ stale \subseteq Runs /\ underway \subseteq Runs /\ removed \subseteq Runs
  /\ lost \in [Runs -> [events : Nat, result : BOOLEAN, manifest : BOOLEAN]]
  /\ \A r \in Runs : lost[r].events <= Len(events[r])
  /\ \A r \in stale \ (underway \cup late) : UnderWay(r) => HasFiles(r)
  /\ \A r \in removed \ (underway \cup late) : ~UnderWay(r) /\ ~HasFiles(r)

\* Nothing is written, listed or removed at first.
LEMMA CleanInvInit == InitClean => CleanInv
<1> SUFFICES ASSUME InitClean PROVE CleanInv
  OBVIOUS
<1>1. \A r \in Runs : lost[r].events = 0 /\ Len(events[r]) = 0
  BY DEF InitClean, Init, NothingLost
<1>2. QED
  BY <1>1 DEF InitClean, CleanInv, NothingLost

\* A sequence without its first n elements.
LEMMA Suffix ==
  ASSUME NEW S, NEW seq \in Seq(S), NEW n \in Nat, n <= Len(seq)
  PROVE  /\ DOMAIN SubSeq(seq, n + 1, Len(seq)) = 1..(Len(seq) - n)
         /\ \A k \in 1..(Len(seq) - n) : SubSeq(seq, n + 1, Len(seq))[k] = seq[n + k]
         /\ SubSeq(seq, n + 1, Len(seq)) # <<>> <=> n < Len(seq)
<1> DEFINE end == SubSeq(seq, n + 1, Len(seq))
<1>1. Len(seq) \in Nat /\ \A i \in 1..Len(seq) : seq[i] \in S
  BY LenProperties
<1>2. n + 1 \in Int /\ Len(seq) \in Int /\ \A i \in (n + 1)..Len(seq) : seq[i] \in S
  BY <1>1
<1>3. /\ end \in Seq(S)
      /\ Len(end) = IF n + 1 <= Len(seq) THEN Len(seq) - (n + 1) + 1 ELSE 0
      /\ \A i \in 1..(Len(seq) - (n + 1) + 1) : end[i] = seq[n + 1 + i - 1]
  BY <1>2, SubSeqProperties
<1>4. Len(end) = Len(seq) - n
  BY <1>1, <1>3
<1>5. DOMAIN end = 1..Len(end)
  BY <1>3, LenProperties
<1>6. end # <<>> <=> n < Len(seq)
  <2>1. \A t \in Seq(S) : t # <<>> <=> 0 < Len(t)
    BY EmptySeq
  <2>2. end # <<>> <=> 0 < Len(end)
    BY <1>3, <2>1
  <2>3. QED
    BY <1>1, <1>4, <2>2
<1>7. \A k \in 1..(Len(seq) - n) : end[k] = seq[n + k]
  BY <1>1, <1>3
<1>8. QED
  BY <1>4, <1>5, <1>6, <1>7

\* What is left of a log is its end, from the first event on that is not lost.
LEMMA LogIsTheEnd ==
  ASSUME NEW r \in Runs, events[r] \in Seq(Events),
         lost[r].events \in Nat, lost[r].events <= Len(events[r])
  PROVE  /\ DOMAIN Log(r) = 1..(Len(events[r]) - lost[r].events)
         /\ \A k \in DOMAIN Log(r) : Log(r)[k] = events[r][lost[r].events + k]
         /\ Log(r) # <<>> <=> lost[r].events < Len(events[r])
BY Suffix DEF Log

\* A run that has ended writes nothing unless it is called again, and what a run
\* has written stays written.
LEMMA WritesOnly ==
  ASSUME TypeOK, LogInv, ManifestInv, Next, NEW r \in Runs
  PROVE  /\ Len(events[r]) <= Len(events'[r])
         /\ result[r] # <<>> => result'[r] # <<>>
         /\ manifest[r] # <<>> => manifest'[r] = manifest[r]
         /\ late \subseteq late'
         /\ UnderWay(r)' => UnderWay(r) \/ r \in late'
         /\ ~UnderWay(r) /\ r \notin late' => UNCHANGED <<events[r], result[r], manifest[r]>>
<1>1. PICK q \in Runs : Call(q) \/ Continue(q) \/ Die(q)
  BY DEF Next
<1>2. Len(events[r]) \in Nat
  BY DEF TypeOK
<1>3. CASE \E s \in Stages, status \in Statuses : Transition(q, s, status)
  BY <1>2, <1>3 DEF Transition, UnderWay, NoteLate
<1>4. CASE \E p \in Shared : WriteArtifact(q, p)
  BY <1>2, <1>4 DEF WriteArtifact, UnderWay, NoteLate
<1>5. CASE WriteResult(q)
  BY <1>2, <1>5 DEF WriteResult, UnderWay, Idle, TypeOK, NoteLate
<1>6. CASE LogEvent(q)
  <2>1. \A e \in Optional(Events) : Len(events[r] \o e) >= Len(events[r])
    <3>1. events[r] \in Seq(Events)
      BY DEF TypeOK
    <3>2. QED
      BY <1>2, <3>1, OptionalConcat DEF Optional
  <2>2. ~UnderWay(q) => q \in late
    <3>1. phase[q] # "dead" /\ unlogged[q] # <<>>
      BY <1>6 DEF LogEvent
    <3>2. phase[q] = "finished" => result[q] # <<>>
      BY DEF ManifestInv, Sealed
    <3>3. QED
      BY <3>1, <3>2 DEF UnderWay, LogInv, TypeOK
  <2>3. QED
    BY <1>2, <1>6, <2>1, <2>2 DEF LogEvent, UnderWay, TypeOK
<1>7. CASE ListArtifact(q) \/ RejectManifest(q) \/ Die(q)
  BY <1>2, <1>7 DEF ListArtifact, RejectManifest, Die, UnderWay, TypeOK
<1>8. CASE WriteManifest(q)
  <2>1. phase[q] = "finishing" /\ manifest[q] = <<>>
    <3>1. Recorded(q) = entries[q]
      BY <1>8, ManifestTypes DEF WriteManifest
    <3>2. QED
      BY <1>8, <3>1 DEF WriteManifest, ManifestInv, Sealed
  <2>2. QED
    BY <1>2, <1>8, <2>1 DEF WriteManifest, UnderWay, TypeOK
<1>9. QED
  BY <1>1, <1>3, <1>4, <1>5, <1>6, <1>7, <1>8 DEF Call, Continue

\* Only a run that is in finish, or comes to it, has written its result.
LEMMA ResultWriter ==
  ASSUME TypeOK, Next, NEW r \in Runs, ~UnderWay(r)', r \notin late', ~UnderWay(r)
  PROVE  files'[ResultPath(r)] = files[ResultPath(r)]
<1>0. ResultPath(r) \in Paths /\ ResultPath(r) \notin Shared
  BY ResultPathAssumption DEF Paths
<1>1. PICK q \in Runs : Call(q) \/ Continue(q) \/ Die(q)
  BY DEF Next
<1>2. CASE \E p \in Shared : WriteArtifact(q, p)
  BY <1>0, <1>2 DEF WriteArtifact, TypeOK
<1>3. CASE WriteResult(q)
  <2>1. q # r
    BY <1>3 DEF WriteResult, UnderWay, TypeOK
  <2>2. ResultPath(q) # ResultPath(r)
    BY <2>1 DEF ResultPath
  <2>3. QED
    BY <1>0, <1>3, <2>2 DEF WriteResult, TypeOK
<1>4. CASE \/ Die(q) \/ LogEvent(q) \/ ListArtifact(q) \/ WriteManifest(q) \/ RejectManifest(q)
           \/ \E s \in Stages, status \in Statuses : Transition(q, s, status)
  BY <1>4 DEF Die, LogEvent, ListArtifact, WriteManifest, RejectManifest, Transition
<1>5. QED
  BY <1>1, <1>2, <1>3, <1>4 DEF Call, Continue

\* ... so a directory a run has written to is not emptied by a run.
LEMMA CleanInvRun ==
  ASSUME TypeOK, TypeOK', LogInv, ManifestInv, CleanInv, RunStep
  PROVE  CleanInv'
<1>0. Next
  BY DEF RunStep
<1>1. /\ stale' = stale /\ underway' = underway /\ removed' = removed
      /\ lost' \in [Runs -> [events : Nat, result : BOOLEAN, manifest : BOOLEAN]]
      /\ \A r \in Runs : /\ lost'[r].events = lost[r].events
                         /\ lost'[r].manifest = lost[r].manifest
                         /\ lost'[r].result => lost[r].result
  BY DEF RunStep, CleanInv
<1>2. ASSUME NEW r \in Runs PROVE lost'[r].events <= Len(events'[r])
  <2>1. lost[r].events \in Nat /\ Len(events[r]) \in Nat /\ Len(events'[r]) \in Nat
    BY DEF CleanInv, TypeOK
  <2>2. QED
    BY <1>0, <1>1, <2>1, WritesOnly DEF CleanInv
<1>3. ASSUME NEW r \in stale \ (underway \cup late'), UnderWay(r)' PROVE HasFiles(r)'
  <2>1. r \in Runs /\ UnderWay(r) /\ HasFiles(r)
    BY <1>0, <1>3, WritesOnly DEF CleanInv
  <2>2. HasResult(r) => HasResult(r)'
    BY <1>0, <1>1, <2>1, WritesOnly DEF HasResult
  <2>3. HasManifest(r) => HasManifest(r)'
    BY <1>0, <1>1, <2>1, WritesOnly DEF HasManifest
  <2>4. ASSUME Log(r) # <<>> PROVE (Log(r) # <<>>)'
    <3>1. lost[r].events \in Nat /\ lost[r].events < Len(events[r])
      BY <2>1, <2>4, LogIsTheEnd DEF CleanInv, TypeOK
    <3>2. /\ lost'[r].events \in Nat /\ lost'[r].events < Len(events'[r])
          /\ events'[r] \in Seq(Events) /\ lost'[r].events <= Len(events'[r])
      BY <1>0, <1>1, <1>2, <2>1, <3>1, WritesOnly DEF TypeOK
    <3>3. QED
      BY <2>1, <3>2, Suffix DEF Log
  <2>5. QED
    BY <2>1, <2>2, <2>3, <2>4 DEF HasFiles
<1>4. ASSUME NEW r \in removed \ (underway \cup late') PROVE ~UnderWay(r)' /\ ~HasFiles(r)'
  <2>1. r \in Runs /\ ~UnderWay(r) /\ ~HasFiles(r) /\ ~UnderWay(r)'
        /\ UNCHANGED <<events[r], result[r], manifest[r]>>
    BY <1>0, <1>4, WritesOnly DEF CleanInv
  <2>2. files'[ResultPath(r)] = files[ResultPath(r)]
    BY <1>0, <1>4, <2>1, ResultWriter DEF CleanInv
  <2>3. lost'[r] = lost[r]
    BY <2>1, <2>2 DEF RunStep
  <2>4. QED
    BY <2>1, <2>3 DEF HasFiles, Log, HasResult, HasManifest
<1>5. QED
  BY <1>0, <1>1, <1>2, <1>3, <1>4, WritesOnly DEF CleanInv

\* Neither does a clean take what it has not listed.
LEMMA CleanInvClean ==
  ASSUME TypeOK, CleanInv, Clean
  PROVE  CleanInv'
<1>1. CASE ListRuns
  <2>1. CleanInv /\ stale' = {r \in Runs : HasFiles(r)}
        /\ UNCHANGED <<vars, lost, underway, removed>>
    BY <1>1 DEF ListRuns
  <2>2. QED
    BY <2>1 DEF CleanInv, vars, UnderWay, HasFiles, Log, HasResult, HasManifest
<1>2. CASE StopClean
  BY <1>2 DEF StopClean, CleanInv, vars, UnderWay, HasFiles, Log, HasResult, HasManifest
<1>3. ASSUME NEW r \in Runs, NEW files_,
             files_ \in [events : Nat, result : BOOLEAN, manifest : BOOLEAN],
             files_.events \in {lost[r].events, Len(events[r])},
             lost[r].result => files_.result, lost[r].manifest => files_.manifest,
             Lose(r, files_)
      PROVE  CleanInv'
  <2>1. /\ UNCHANGED <<phase, events, result, manifest, stale, removed, late>>
        /\ r \in stale
        /\ lost' = [lost EXCEPT ![r] = files_]
        /\ underway' = IF UnderWay(r) THEN underway \cup {r} ELSE underway
    BY <1>3 DEF Lose, vars
  <2>2. /\ lost' \in [Runs -> [events : Nat, result : BOOLEAN, manifest : BOOLEAN]]
        /\ \A q \in Runs : lost'[q].events <= Len(events'[q])
    BY <1>3, <2>1 DEF CleanInv, TypeOK
  <2>3. ASSUME NEW q \in stale' \ (underway' \cup late'), UnderWay(q)' PROVE HasFiles(q)'
    <3>1. q # r /\ q \in stale \ (underway \cup late) /\ UnderWay(q)
      BY <2>1, <2>3 DEF UnderWay
    <3>2. HasFiles(q) /\ lost'[q] = lost[q]
      BY <2>1, <3>1 DEF CleanInv
    <3>3. QED
      BY <2>1, <3>2 DEF HasFiles, Log, HasResult, HasManifest
  <2>4. ASSUME NEW q \in removed' \ (underway' \cup late') PROVE ~UnderWay(q)' /\ ~HasFiles(q)'
    <3>1. q \in Runs /\ ~UnderWay(q) /\ ~HasFiles(q)
      BY <2>1 DEF CleanInv
    <3>2. CASE q # r
      BY <2>1, <3>1, <3>2 DEF CleanInv, UnderWay, HasFiles, Log, HasResult, HasManifest
    <3>3. CASE q = r
      <4>1. /\ lost[q].events \in Nat /\ Len(events[q]) \in Nat
            /\ lost[q].events <= Len(events[q]) /\ ~(lost[q].events < Len(events[q]))
        BY <3>1, LogIsTheEnd DEF CleanInv, TypeOK, HasFiles
      <4>2. lost'[q] = files_ /\ files_.events = lost[q].events
        BY <1>3, <2>1, <3>3, <4>1 DEF CleanInv
      <4>3. QED
        BY <1>3, <2>1, <3>1, <3>3, <4>2 DEF UnderWay, HasFiles, Log, HasResult, HasManifest
    <3>4. QED
      BY <3>2, <3>3
  <2>5. QED
    BY <2>1, <2>2, <2>3, <2>4 DEF CleanInv
<1>4. ASSUME NEW r \in Runs, RemoveLog(r) \/ RemoveResult(r) \/ RemoveManifest(r)
      PROVE  CleanInv'
  <2>1. /\ lost[r] \in [events : Nat, result : BOOLEAN, manifest : BOOLEAN]
        /\ Len(events[r]) \in Nat
    BY DEF CleanInv, TypeOK
  <2>2. CASE RemoveLog(r)
    BY <1>3, <2>1, <2>2 DEF RemoveLog
  <2>3. CASE RemoveResult(r)
    BY <1>3, <2>1, <2>3 DEF RemoveResult
  <2>4. CASE RemoveManifest(r)
    BY <1>3, <2>1, <2>4 DEF RemoveManifest
  <2>5. QED
    BY <1>4, <2>2, <2>3, <2>4
<1>5. ASSUME NEW r \in Runs, RemoveDirectory(r) PROVE CleanInv'
  <2>1. /\ r \in stale /\ ~HasFiles(r)
        /\ stale' = stale \ {r} /\ removed' = removed \cup {r}
        /\ UNCHANGED <<phase, events, result, manifest, lost, underway, late>>
    BY <1>5 DEF RemoveDirectory, vars
  <2>2. r \notin underway \cup late => ~UnderWay(r)
    BY <2>1 DEF CleanInv
  <2>3. QED
    BY <2>1, <2>2 DEF CleanInv, UnderWay, HasFiles, Log, HasResult, HasManifest
<1>6. QED
  BY <1>1, <1>2, <1>4, <1>5 DEF Clean

\* Runs and cleans together.
LEMMA CleanInvStep ==
  TypeOK /\ TypeOK' /\ LogInv /\ ManifestInv /\ CleanInv /\ [NextClean]_cleanVars => CleanInv'
<1> SUFFICES ASSUME TypeOK, TypeOK', LogInv, ManifestInv, CleanInv, [NextClean]_cleanVars PROVE CleanInv'
  OBVIOUS
<1>1. CASE UNCHANGED cleanVars
  BY <1>1 DEF cleanVars, vars, cleaner, CleanInv, UnderWay, HasFiles, Log, HasResult, HasManifest
<1>2. QED
  BY <1>1, CleanInvRun, CleanInvClean DEF NextClean

-----------------------------------------------------------------------------
(***************************************************************************)
(* What is left on disk                                                    *)
(***************************************************************************)

\* The last event of a stage that is left is its last event, which the result has.
LEMMA LeftIsConsistent ==
  ASSUME TypeOK, ResultAgreesWithLog, CleanInv, NEW r \in Runs \ late
  PROVE  NeverContradicts(r)
<1> SUFFICES ASSUME HasResult(r), NEW s \in Stages
             PROVE  LET last == {k \in DOMAIN Log(r) : /\ Log(r)[k].stage = s
                                   /\ \A j \in DOMAIN Log(r) : j > k => Log(r)[j].stage # s}
                    IN  /\ \A k \in last : Log(r)[k].kind = result[r][1][s]
                        /\ last = {} => result[r][1][s] = "pending" \/ lost[r].events > 0
  BY DEF NeverContradicts
<1> DEFINE status == result[r][1]
           gone == lost[r].events
           log == events[r]
<1>1. Agrees(log, status)
  BY DEF ResultAgreesWithLog, HasResult
<1>2. gone \in Nat /\ gone <= Len(log) /\ Len(log) \in Nat /\ DOMAIN log = 1..Len(log)
  BY LenProperties DEF CleanInv, TypeOK
<1>3. /\ DOMAIN Log(r) = 1..(Len(log) - gone)
      /\ \A k \in DOMAIN Log(r) : Log(r)[k] = log[gone + k]
  BY <1>2, LogIsTheEnd DEF TypeOK
<1>4. CASE status[s] = "pending" /\ \A k \in DOMAIN log : log[k].stage # s
  <2>1. ASSUME NEW k \in DOMAIN Log(r) PROVE Log(r)[k].stage # s
    <3>1. gone + k \in DOMAIN log
      BY <1>2, <1>3
    <3>2. QED
      BY <1>3, <1>4, <3>1
  <2>2. QED
    BY <1>4, <2>1
<1>5. CASE \E k \in DOMAIN log : /\ log[k] = [stage |-> s, kind |-> status[s]]
                                 /\ \A j \in DOMAIN log : j > k => log[j].stage # s
  <2>1. PICK n \in DOMAIN log : /\ log[n] = [stage |-> s, kind |-> status[s]]
                                /\ \A j \in DOMAIN log : j > n => log[j].stage # s
    BY <1>5
  <2>2. ASSUME NEW k \in DOMAIN Log(r), Log(r)[k].stage = s,
               \A j \in DOMAIN Log(r) : j > k => Log(r)[j].stage # s
        PROVE  Log(r)[k].kind = status[s]
    <3>0. k \in Nat /\ n \in Nat /\ gone + k \in 1..Len(log) /\ n \in 1..Len(log)
      BY <1>2, <1>3
    <3>1. log[gone + k].stage = s /\ gone + k <= n
      <4>1. log[gone + k].stage = s
        BY <1>3, <2>2
      <4>2. ~(gone + k > n)
        BY <1>2, <2>1, <3>0, <4>1
      <4>3. QED
        BY <1>2, <3>0, <4>1, <4>2
    <3>2. ASSUME gone + k < n PROVE FALSE
      <4>0. n - gone \in 1..(Len(log) - gone) /\ n - gone > k /\ gone + (n - gone) = n
        BY <1>2, <3>0, <3>2
      <4>1. n - gone \in DOMAIN Log(r) /\ n - gone > k /\ Log(r)[n - gone] = log[n]
        BY <1>3, <4>0
      <4>2. QED
        BY <2>1, <2>2, <4>1
    <3>3. gone + k = n
      BY <1>2, <3>0, <3>1, <3>2
    <3>4. QED
      BY <1>3, <2>1, <3>3
  <2>3. ASSUME gone = 0
        PROVE  n \in DOMAIN Log(r) /\ Log(r)[n].stage = s
               /\ \A j \in DOMAIN Log(r) : j > n => Log(r)[j].stage # s
    BY <1>2, <1>3, <2>1, <2>3
  <2>4. QED
    BY <1>2, <2>2, <2>3
<1>6. QED
  BY <1>1, <1>4, <1>5 DEF Agrees

\* Whatever a clean removes, under whichever runs, what remains is consistent;
\* and of a run that had ended when its directory was removed nothing remains.
THEOREM CleanedRuns == SpecClean => []CleanedRunsAreConsistent
<1>1. TypeOK /\ ResultAgreesWithLog /\ CleanInv => CleanedRunsAreConsistent
  BY LeftIsConsistent DEF CleanedRunsAreConsistent, CleanInv
<1>2. QED
  BY <1>1, CleanedRunsAreRuns, TypeCorrect, ResultLog, LogInvCorrect, ManifestInvCorrect,
     CleanInvInit, CleanInvStep, PTL DEF SpecClean

\* The variables of the cleans keep their types, and so do those of the runs below them.
THEOREM CleanTypeCorrect == SpecClean => []CleanTypeOK
<1> DEFINE Counted == cleans \in 0..MaxCleans
<1>1. InitClean => Counted
  BY MaxCleansAssumption DEF InitClean
<1>2. Counted /\ [NextClean]_cleanVars => Counted'
  <2> SUFFICES ASSUME Counted, [NextClean]_cleanVars PROVE Counted'
    OBVIOUS
  <2>1. CASE ListRuns
    BY <2>1, MaxCleansAssumption DEF ListRuns
  <2>2. CASE cleans' = cleans
    BY <2>2
  <2>3. QED
    BY <2>1, <2>2
    DEF NextClean, RunStep, Clean, StopClean, RemoveLog, RemoveResult, RemoveManifest, RemoveDirectory,
        Lose, cleanVars, cleaner
<1>3. TypeOK /\ CleanInv /\ Counted => CleanTypeOK
  BY DEF CleanInv, CleanTypeOK
<1> HIDE DEF Counted
<1>4. QED
  BY <1>1, <1>2, <1>3, CleanedRunsAreRuns, TypeCorrect, LogInvCorrect, ManifestInvCorrect,
     CleanInvInit, CleanInvStep, PTL DEF SpecClean

(***************************************************************************)
(* A capture drives its session as RunSession allows, for any number of    *)
(* invocations and whatever goes wrong, so what is proved above holds of   *)
(* captures; what it reports is so; and what it took from docker it has    *)
(* given back at its end.                                                  *)
(***************************************************************************)

Phases == {"open", "finishing", "finished", "dead"}
PhaseOK == phase \in [Runs -> Phases]

\* Every status a stage may move to is one.
LEMMA OnlyStatuses ==
  ASSUME NEW status, NEW target \in AllowedTransitions(status)
  PROVE  target \in Statuses
BY DEF AllowedTransitions, Statuses, Terminal

LEMMA TransitionIsNext ==
  ASSUME NEW r \in Runs, NEW s \in Stages, NEW status, Transition(r, s, status)
  PROVE  Next
<1>1. status \in Statuses
  BY OnlyStatuses DEF Transition
<1>2. QED
  BY <1>1 DEF Next, Call

LEMMA WriteArtifactIsNext ==
  ASSUME NEW r \in Runs, NEW p \in Shared, WriteArtifact(r, p)
  PROVE  Next
BY DEF Next, Call

\* A handler that ends in an exception abandons the session.
LEMMA RaiseIsNext ==
  ASSUME NEW r \in Runs, NEW step, Raise(r, step)
  PROVE  Next
BY DEF Raise, Next

\* The steps of an invocation that move its session, and those that do not.
LEMMA CaptureStepMaps ==
  ASSUME NEW r \in Runs, CaptureStep(r)
  PROVE  [Next]_vars
<1>0. /\ MigrationSandbox \in Stages /\ QueryCapture \in Stages
      /\ SchemaPath \in Shared /\ WorkloadPath \in Shared
  BY StagesAssumption, PathsAssumption
<1>1. CASE CreateNetwork(r) \/ StopDatabase(r) \/ WriteEvents(r) \/ RemoveNetwork(r)
  BY <1>1 DEF CreateNetwork, StopDatabase, WriteEvents, RemoveNetwork
<1>2. CASE StartStage(r) \/ FailStage(r) \/ StartQueries(r) \/ EndQueries(r)
  BY <1>0, <1>2, TransitionIsNext DEF StartStage, FailStage, StartQueries, EndQueries
<1>3. CASE ReportMigration(r)
  BY <1>0, <1>3, TransitionIsNext DEF ReportMigration
<1>4. CASE RecordSchema(r) \/ RecordWorkload(r)
  BY <1>0, <1>4, WriteArtifactIsNext DEF RecordSchema, RecordWorkload
<1>5. CASE Finish(r)
  BY <1>5 DEF Finish, Next, Call
<1>6. CASE RunDatabase(r)
  BY <1>6, RaiseIsNext DEF RunDatabase
<1>7. CASE JoinDatabase(r) \/ AwaitDatabase(r)
  BY <1>7, RaiseIsNext DEF JoinDatabase, AwaitDatabase, FailDatabase
<1>8. CASE Migrate(r) \/ Introspect(r) \/ RunTests(r)
  BY <1>8, RaiseIsNext DEF Migrate, Introspect, RunTests
<1>9. CASE SessionContinues(r)
  BY <1>9 DEF SessionContinues, Next
<1>10. QED
  BY <1>1, <1>2, <1>3, <1>4, <1>5, <1>6, <1>7, <1>8, <1>9 DEF CaptureStep

\* An interrupt or a kill ends an open session, and leaves an ended one alone.
LEMMA StopMaps ==
  ASSUME PhaseOK, NEW r \in Runs, Interrupt(r) \/ FailToFinish(r) \/ Kill(r)
  PROVE  [Next]_vars
<1>1. CASE Interrupt(r)
  <2>1. CASE phase[r] = "open"
    BY <1>1, <2>1 DEF Interrupt, Next, Die
  <2>2. CASE phase[r] # "open"
    BY <1>1, <2>2 DEF Interrupt, PhaseOK, vars
  <2>3. QED
    BY <2>1, <2>2
<1>2. CASE FailToFinish(r)
  BY <1>2, RaiseIsNext DEF FailToFinish
<1>3. CASE Kill(r)
  <2>1. CASE phase[r] \in {"open", "finishing"}
    BY <1>3, <2>1 DEF Kill, Next, Die
  <2>2. CASE phase[r] \in {"finished", "dead"}
    BY <1>3, <2>2 DEF Kill, PhaseOK, vars
  <2>3. QED
    BY <2>1, <2>2 DEF PhaseOK, Phases
<1>4. QED
  BY <1>1, <1>2, <1>3

LEMMA CaptureNextMaps == PhaseOK /\ [CaptureNext]_allVars => [Next]_vars
<1> SUFFICES ASSUME PhaseOK, [CaptureNext]_allVars PROVE [Next]_vars
  OBVIOUS
<1>1. CASE UNCHANGED allVars
  BY <1>1 DEF allVars
<1>2. CASE \E r \in Runs : CaptureStep(r)
  BY <1>2, CaptureStepMaps
<1>3. CASE \E r \in Runs : Interrupt(r) \/ FailToFinish(r) \/ Kill(r)
  BY <1>3, StopMaps
<1>4. CASE ListContainers \/ RemoveListed
  BY <1>4 DEF ListContainers, RemoveListed
<1>5. QED
  BY <1>1, <1>2, <1>3, <1>4 DEF CaptureNext

\* A step of a session keeps the phases.
LEMMA PhasesStay == PhaseOK /\ [Next]_vars => PhaseOK'
<1> SUFFICES ASSUME PhaseOK, [Next]_vars PROVE PhaseOK'
  OBVIOUS
<1>1. CASE UNCHANGED phase
  BY <1>1 DEF PhaseOK
<1>2. ASSUME NEW r \in Runs, NEW step \in Phases, phase' = [phase EXCEPT ![r] = step]
      PROVE  PhaseOK'
  BY <1>2 DEF PhaseOK
<1>3. ASSUME NEW r \in Runs, Call(r)
      PROVE  UNCHANGED phase \/ phase' = [phase EXCEPT ![r] = "finishing"]
  BY <1>3 DEF Call, Transition, WriteArtifact, WriteResult
<1>4. ASSUME NEW r \in Runs, Continue(r)
      PROVE  UNCHANGED phase \/ \E step \in {"finished", "dead"} : phase' = [phase EXCEPT ![r] = step]
  BY <1>4 DEF Continue, LogEvent, ListArtifact, WriteManifest, RejectManifest
<1>5. ASSUME NEW r \in Runs, Die(r) PROVE phase' = [phase EXCEPT ![r] = "dead"]
  BY <1>5 DEF Die
<1>6. {"finishing", "finished", "dead"} \subseteq Phases
  BY DEF Phases
<1>7. CASE UNCHANGED vars
  BY <1>1, <1>7 DEF vars
<1>8. QED
  BY <1>1, <1>2, <1>3, <1>4, <1>5, <1>6, <1>7 DEF Next

\* Every action of a capture that moves its session is an action of RunSession,
\* and the others leave it alone.
LEMMA CapturesAreSessions == CaptureSpec => Spec
<1>1. CaptureInit => Init
  BY DEF CaptureInit
<1>2. Init => PhaseOK
  BY DEF Init, PhaseOK, Phases
<1>3. QED
  BY <1>1, <1>2, CaptureNextMaps, PhasesStay, PTL DEF CaptureSpec, Spec

\* What RunSession promises of its logs, results and manifests, captures keep.
THEOREM SessionsOfCaptures ==
  CaptureSpec => [](MemoryAgreesWithLog /\ LogIsTrue /\ ManifestIsTrue) /\ ManifestIsFinal
<1>1. CaptureSpec => Spec
  BY CapturesAreSessions
<1>2. QED
  BY <1>1, MemoryLog, LogsAreTrue, ManifestsAreTrue, OneManifest, PTL

(***************************************************************************)
(* What a capture knows at each of its steps                               *)
(***************************************************************************)

Tested == {"complete", "partial"}

\* A session that has been asked for its result has no stage under way.
Settled(r) ==
  \/ stages[r][MigrationSandbox] = "failed" /\ stages[r][QueryCapture] = "pending"
  \/ /\ stages[r][MigrationSandbox] = "complete"
     /\ stages[r][QueryCapture] = tests[r] /\ tests[r] \in Tested

HasSchema == {"start_queries", "write_events", "record_workload", "end_queries"}
Quiescent == {"create_network", "join_db", "await_db", "stop_db"} \cup WithDatabase

\* A docker resource that is left has a reason among the leaks.
DatabaseAccounted(r) ==
  /\ db[r] \in Removable => leaks[r] \cap {"run", "start", "rm"} # {}
  /\ db[r] = "joined" => leaks[r] \cap {"start", "rm"} # {}
NetworkAccounted(r) ==
  network[r] = "up" => leaks[r] \cap {"create", "network_rm", "start", "rm"} # {}

\* Where the session and the docker resources are at each step.
PlaceFacts(r) ==
  /\ pc[r] \in Steps \ {"stop_db", "remove_network"} => phase[r] = "open"
  /\ pc[r] = "stop_db" => phase[r] \in {"open", "dead"}
  /\ pc[r] \in {"remove_network"} \cup Over => phase[r] # "open"
  /\ phase[r] = "finishing" => pc[r] = "remove_network"
  /\ pc[r] \in Quiescent /\ phase[r] = "open" => Idle(r)
  /\ pc[r] \in {"create_network", "start_stage", "run_db"} => db[r] = "none"
  /\ r \notin late
  /\ pc[r] \in Reporting \cup {"remove_network", "end"} => DatabaseAccounted(r)
  /\ pc[r] = "end" => NetworkAccounted(r)

\* What the stages are at each step, and what they were settled to.
StageFacts(r) ==
  /\ \A s \in Stages \ {MigrationSandbox, QueryCapture} : stages[r][s] = "pending"
  /\ phase[r] \in {"finishing", "finished"} => Settled(r)
  /\ phase[r] = "open" =>
       /\ pc[r] \in {"create_network", "start_stage"} => stages[r][MigrationSandbox] = "pending"
       /\ pc[r] \in {"run_db", "join_db", "await_db", "stop_db", "fail_stage", "report_migration"}
                      \cup WithDatabase => stages[r][MigrationSandbox] = "running"
       /\ pc[r] \in HasSchema \cup {"record_schema"} =>
            stages[r][MigrationSandbox] = "complete" /\ tests[r] \in Tested
       /\ pc[r] \in {"write_events", "record_workload", "end_queries"} =>
            stages[r][QueryCapture] = "running"
       /\ pc[r] \in Steps \ {"write_events", "record_workload", "end_queries", "finish"} =>
            stages[r][QueryCapture] = "pending"
       /\ pc[r] \in {"stop_db", "report_migration"} /\ migration[r] = "succeeded" =>
            tests[r] \in Tested
       /\ pc[r] = "record_schema" => migration[r] = "succeeded"
       /\ pc[r] = "finish" => Settled(r)

\* Where a run is once it has written its schema, and its workload.
PastSchema == HasSchema \cup {"finish", "remove_network"} \cup Over
PastWorkload == {"end_queries", "finish", "remove_network"} \cup Over

\* What a run has recorded at each step, and what it says of the stages.
ListFacts(r) ==
  /\ Has(r, SchemaPath) => stages[r][MigrationSandbox] = "complete"
  /\ Has(r, WorkloadPath) => Has(r, SchemaPath) /\ rawEvents[r]
  /\ Has(r, SchemaPath) => pc[r] \in PastSchema
  /\ Has(r, WorkloadPath) => pc[r] \in PastWorkload
  /\ phase[r] = "open" /\ pc[r] \in HasSchema => Has(r, SchemaPath)
  /\ phase[r] = "open" /\ pc[r] \in {"record_workload", "end_queries"} => rawEvents[r]

CaptureFacts(r) == PlaceFacts(r) /\ StageFacts(r) /\ ListFacts(r)

\* The run that wrote schema.json is past its migration.
SchemaFacts ==
  files[SchemaPath] # <<>> =>
    LET w == files[SchemaPath][1][1] IN
    w \in Runs /\ migration[w] = "succeeded" /\ pc[w] \in PastSchema

CaptureInv == SchemaFacts /\ \A r \in Runs : CaptureFacts(r)

\* However far a docker call has come, it leaves a network and a container in one
\* of their states.
LEMMA PartialEffects ==
  ASSUME CaptureTypeOK, NEW r \in Runs,
         NEW effect \in IF InDockerCall(r) THEN PartialEffect(r) ELSE {<<network[r], db[r]>>}
  PROVE  effect[1] \in {"none", "up", "removed"} /\ effect[2] \in Containers
<1> DEFINE Effects == {"none", "up", "removed"} \X Containers
<1>1. network[r] \in {"none", "up", "removed"} /\ db[r] \in Containers
  BY DEF CaptureTypeOK
<1>2. <<network[r], db[r]>> \in Effects
  BY <1>1
<1>3. PartialEffect(r) \subseteq Effects
  <2>1. {<<"up", db[r]>>, <<network[r], db[r]>>} \subseteq Effects
    BY <1>1
  <2>2. \A C \in SUBSET Containers : {<<network[r], c>> : c \in C} \subseteq Effects
    BY <1>1
  <2>3. {<<n, db[r]>> : n \in {"up", "removed"}} \subseteq Effects
    BY <1>1
  <2>4. /\ {"none", "created", "up"} \in SUBSET Containers
        /\ {"up", "joined"} \in SUBSET Containers /\ {db[r], "removed"} \in SUBSET Containers
    BY <1>1 DEF Containers
  <2> HIDE DEF Effects
  <2>5. QED
    BY <1>2, <2>1, <2>2, <2>3, <2>4 DEF PartialEffect
<1>4. effect \in Effects
  BY <1>2, <1>3
<1>5. QED
  BY <1>4

\* The variables of a capture keep their types.
LEMMA CaptureTypes == CaptureTypeOK /\ [CaptureNext]_allVars => CaptureTypeOK'
<1> SUFFICES ASSUME CaptureTypeOK, [CaptureNext]_allVars PROVE CaptureTypeOK'
  OBVIOUS
<1> USE DEF CaptureTypeOK, Goto, Raise, docker, results, Note, RemoveContainer, Leaks
<1>1. ASSUME NEW r \in Runs, CaptureStep(r) PROVE CaptureTypeOK'
  <2>1. CASE CreateNetwork(r)
    BY <2>1 DEF CreateNetwork, Steps, SetUp
  <2>2. CASE StartStage(r)
    BY <2>2 DEF StartStage, Steps, SetUp
  <2>3. CASE RunDatabase(r)
    BY <2>3 DEF RunDatabase, Steps, SetUp, Containers
  <2>4. CASE JoinDatabase(r)
    BY <2>4 DEF JoinDatabase, FailDatabase, Steps, SetUp, Containers
  <2>5. CASE AwaitDatabase(r)
    BY <2>5 DEF AwaitDatabase, FailDatabase, Steps, WithDatabase, Containers
  <2>6. CASE Migrate(r)
    BY <2>6 DEF Migrate, Steps, WithDatabase
  <2>7. CASE Introspect(r)
    BY <2>7 DEF Introspect, Steps, WithDatabase
  <2>8. CASE RunTests(r)
    BY <2>8 DEF RunTests, Steps, Outcomes, Coverage
  <2>9. CASE StopDatabase(r)
    BY <2>9 DEF StopDatabase, Steps, Reporting, Containers
  <2>10. CASE FailStage(r) \/ ReportMigration(r) \/ RecordSchema(r) \/ StartQueries(r)
    BY <2>10 DEF FailStage, ReportMigration, RecordSchema, StartQueries, Steps, Reporting
  <2>11. CASE WriteEvents(r) \/ RecordWorkload(r) \/ EndQueries(r) \/ Finish(r)
    BY <2>11 DEF WriteEvents, RecordWorkload, EndQueries, Finish, Steps, Reporting
  <2>12. CASE RemoveNetwork(r)
    BY <2>12 DEF RemoveNetwork, Over
  <2>13. CASE SessionContinues(r)
    BY <2>13 DEF SessionContinues, capture
  <2>14. QED
    BY <1>1, <2>1, <2>2, <2>3, <2>4, <2>5, <2>6, <2>7, <2>8, <2>9, <2>10, <2>11, <2>12, <2>13
    DEF CaptureStep
<1>2. ASSUME NEW r \in Runs, Interrupt(r) PROVE CaptureTypeOK'
  <2>1. Unwound(pc[r]) \in Steps \cup Over
    BY DEF Unwound, Steps, Over
  <2>2. PICK effect \in IF InDockerCall(r) THEN PartialEffect(r) ELSE {<<network[r], db[r]>>} :
          /\ network' = [network EXCEPT ![r] = effect[1]]
          /\ db' = [db EXCEPT ![r] = effect[2]]
    BY <1>2 DEF Interrupt
  <2>3. effect[1] \in {"none", "up", "removed"} /\ effect[2] \in Containers
    BY <2>2, PartialEffects
  <2>4. leaks' \in [Runs -> SUBSET Leaks]
    <3>1. LeakAt(pc[r]) \in Leaks
      BY DEF LeakAt, Leaks
    <3>2. QED
      BY <1>2, <3>1 DEF Interrupt, Note
  <2>5. QED
    BY <1>2, <2>1, <2>2, <2>3, <2>4 DEF Interrupt
<1>3. ASSUME NEW r \in Runs, FailToFinish(r) \/ Kill(r) PROVE CaptureTypeOK'
  BY <1>3 DEF FailToFinish, Kill, Steps, Over
<1>4. CASE ListContainers \/ RemoveListed
  BY <1>4 DEF ListContainers, RemoveListed, Containers
<1>5. CASE UNCHANGED allVars
  BY <1>5 DEF allVars, capture
<1>6. QED
  BY <1>1, <1>2, <1>3, <1>4, <1>5 DEF CaptureNext

(***************************************************************************)
(* The facts of one capture are kept by its own steps and by those of the  *)
(* others                                                                  *)
(***************************************************************************)

\* Nothing of a run that its facts are about changes.
Untouched(q) ==
  /\ pc'[q] = pc[q] /\ network'[q] = network[q] /\ db'[q] = db[q] /\ leaks'[q] = leaks[q]
  /\ migration'[q] = migration[q] /\ tests'[q] = tests[q] /\ rawEvents'[q] = rawEvents[q]
  /\ phase'[q] = phase[q] /\ stages'[q] = stages[q] /\ unlogged'[q] = unlogged[q]
  /\ unlisted'[q] = unlisted[q] /\ entries'[q] = entries[q] /\ (q \in late' <=> q \in late)

LEMMA FactsStay ==
  ASSUME NEW q \in Runs, CaptureFacts(q), Untouched(q)
  PROVE  CaptureFacts(q)'
<1>1. Idle(q)' = Idle(q) /\ Settled(q)' = Settled(q)
  BY DEF Untouched, Idle, Settled
<1>2. Recorded(q)' = Recorded(q)
  BY DEF Untouched, Recorded
<1>3. \A p : Has(q, p)' = Has(q, p)
  BY <1>2 DEF Has, Recorded
<1>4. PlaceFacts(q)'
  BY <1>1 DEF Untouched, CaptureFacts, PlaceFacts, DatabaseAccounted, NetworkAccounted
<1>5. StageFacts(q)'
  BY <1>1 DEF Untouched, CaptureFacts, StageFacts
<1>6. ListFacts(q)'
  BY <1>3 DEF Untouched, CaptureFacts, ListFacts
<1>7. QED
  BY <1>4, <1>5, <1>6 DEF CaptureFacts

\* A step of one run touches no other.
LEMMA OthersUntouched ==
  ASSUME TypeOK, CaptureTypeOK, NEW r \in Runs,
         CaptureStep(r) \/ Interrupt(r) \/ FailToFinish(r) \/ Kill(r)
  PROVE  \A q \in Runs \ {r} : Untouched(q)
<1> USE DEF TypeOK, CaptureTypeOK, Goto, Raise, Die, docker, results, vars, Untouched, Note,
  NoteLate, RemoveContainer
<1>1. CASE CreateNetwork(r) \/ StopDatabase(r) \/ WriteEvents(r) \/ RemoveNetwork(r)
  BY <1>1 DEF CreateNetwork, StopDatabase, WriteEvents, RemoveNetwork
<1>2. CASE StartStage(r) \/ FailStage(r) \/ ReportMigration(r) \/ StartQueries(r) \/ EndQueries(r)
  <2>1. PICK step, s, status : pc' = [pc EXCEPT ![r] = step] /\ Transition(r, s, status)
    BY <1>2 DEF StartStage, FailStage, ReportMigration, StartQueries, EndQueries
  <2>2. UNCHANGED <<network, db, leaks, migration, tests, rawEvents>>
    BY <1>2 DEF StartStage, FailStage, ReportMigration, StartQueries, EndQueries
  <2>3. QED
    BY <2>1, <2>2 DEF Transition
<1>3. CASE RecordSchema(r) \/ RecordWorkload(r) \/ Finish(r)
  BY <1>3 DEF RecordSchema, RecordWorkload, Finish, WriteArtifact, WriteResult
<1>4. CASE RunDatabase(r)
  BY <1>4 DEF RunDatabase
<1>5. CASE JoinDatabase(r) \/ AwaitDatabase(r)
  BY <1>5 DEF JoinDatabase, AwaitDatabase, FailDatabase
<1>6. CASE Migrate(r)
  BY <1>6 DEF Migrate
<1>7. CASE Introspect(r) \/ RunTests(r)
  BY <1>7 DEF Introspect, RunTests
<1>8. CASE SessionContinues(r)
  BY <1>8 DEF SessionContinues, capture, Continue, LogEvent, ListArtifact, WriteManifest,
    RejectManifest
<1>9. CASE Interrupt(r)
  <2>1. PICK effect : /\ network' = [network EXCEPT ![r] = effect[1]]
                      /\ db' = [db EXCEPT ![r] = effect[2]]
    BY <1>9 DEF Interrupt
  <2>2. \A q \in Runs \ {r} : network'[q] = network[q] /\ db'[q] = db[q]
    BY <2>1
  <2>3. QED
    BY <1>9, <2>2 DEF Interrupt
<1>10. CASE FailToFinish(r) \/ Kill(r)
  BY <1>10 DEF FailToFinish, Kill
<1>11. QED
  BY <1>1, <1>2, <1>3, <1>4, <1>5, <1>6, <1>7, <1>8, <1>9, <1>10 DEF CaptureStep

\* What has been recorded only depends on the session's lists.
LEMMA SameRecords ==
  ASSUME NEW q, entries'[q] = entries[q], unlisted'[q] = unlisted[q]
  PROVE  \A p : Has(q, p)' = Has(q, p)
<1>1. Recorded(q)' = Recorded(q)
  BY DEF Recorded
<1>2. QED
  BY <1>1 DEF Has, Recorded

\* A session that was abandoned, or was over, and goes on to the clean-up, leaves
\* every fact but those about the clean-up as it was.
LEMMA AbandonedFacts ==
  ASSUME NEW r \in Runs, CaptureFacts(r),
         \/ phase'[r] = "dead"
         \/ phase[r] = "finished" /\ phase'[r] = "finished" /\ tests'[r] = tests[r],
         pc'[r] = "stop_db" => phase'[r] = "dead",
         stages'[r] = stages[r], rawEvents'[r] = rawEvents[r],
         entries'[r] = entries[r], unlisted'[r] = unlisted[r],
         pc'[r] \in {"stop_db", "remove_network", "end", "killed"},
         pc'[r] = "stop_db" => pc[r] \notin PastSchema,
         r \in late' <=> r \in late,
         pc'[r] \in {"remove_network", "end"} => DatabaseAccounted(r)',
         pc'[r] = "end" => NetworkAccounted(r)'
  PROVE  CaptureFacts(r)'
<1>1. PlaceFacts(r)'
  BY DEF CaptureFacts, PlaceFacts, Steps, Reporting, WithDatabase, SetUp
<1>2. StageFacts(r)'
  BY DEF CaptureFacts, StageFacts, Settled
<1>3. ListFacts(r)'
  BY SameRecords DEF CaptureFacts, ListFacts, PastSchema, PastWorkload, HasSchema, Over
<1>4. QED
  BY <1>1, <1>2, <1>3 DEF CaptureFacts

\* The session goes no further in a step that leaves its variables alone.
SessionKept(r) ==
  /\ phase'[r] = phase[r] /\ stages'[r] = stages[r] /\ unlogged'[r] = unlogged[r]
  /\ unlisted'[r] = unlisted[r] /\ entries'[r] = entries[r] /\ late' = late

LEMMA UnchangedSession ==
  ASSUME NEW r, UNCHANGED vars
  PROVE  SessionKept(r)
BY DEF vars, SessionKept

\* An exception before the database was made or after it was removed.
LEMMA RaisedFacts ==
  ASSUME TypeOK, CaptureTypeOK, NEW r \in Runs, CaptureFacts(r), NEW step, Raise(r, step),
         rawEvents' = rawEvents,
         \/ step = "stop_db" /\ pc[r] \notin PastSchema
         \/ step = "remove_network" /\ DatabaseAccounted(r)'
  PROVE  CaptureFacts(r)'
<1>1. /\ phase'[r] = "dead" /\ pc'[r] = step /\ late' = late
      /\ stages'[r] = stages[r] /\ rawEvents'[r] = rawEvents[r]
      /\ entries'[r] = entries[r] /\ unlisted'[r] = unlisted[r]
  BY DEF Raise, Die, Goto, TypeOK, CaptureTypeOK
<1>2. QED
  BY <1>1, AbandonedFacts

\* docker rm -f removes the container, or its failure is among the leaks.
LEMMA RemovalAccounted ==
  ASSUME CaptureTypeOK, NEW r \in Runs, RemoveContainer(r)
  PROVE  DatabaseAccounted(r)'
<1>1. CASE db' = [db EXCEPT ![r] = "removed"]
  BY <1>1 DEF CaptureTypeOK, DatabaseAccounted, Removable
<1>2. CASE Note(r, "rm")
  BY <1>2 DEF CaptureTypeOK, Note, DatabaseAccounted
<1>3. QED
  BY <1>1, <1>2 DEF RemoveContainer

\* Up to its report a capture moves on, or raises.
LEMMA DatabaseFacts ==
  ASSUME TypeOK, CaptureTypeOK, NEW r \in Runs, CaptureFacts(r),
         \/ CreateNetwork(r) \/ RunDatabase(r) \/ JoinDatabase(r) \/ AwaitDatabase(r)
         \/ Migrate(r) \/ Introspect(r) \/ RunTests(r) \/ StopDatabase(r)
  PROVE  CaptureFacts(r)'
<1> USE DEF Goto, docker, results, CaptureTypeOK
<1>0. UNCHANGED vars => SessionKept(r) /\ \A p : Has(r, p)' = Has(r, p)
  BY UnchangedSession, SameRecords DEF SessionKept
<1>1. CASE CreateNetwork(r)
  <2>1. pc[r] = "create_network" /\ UNCHANGED vars
    BY <1>1 DEF CreateNetwork, At
  <2>2. /\ pc'[r] = "start_stage" /\ db'[r] = db[r] /\ leaks'[r] = leaks[r]
        /\ migration'[r] = migration[r] /\ tests'[r] = tests[r] /\ rawEvents'[r] = rawEvents[r]
    BY <1>1 DEF CreateNetwork
  <2>3. QED
    <3>1. PlaceFacts(r)'
      BY <1>0, <2>1, <2>2 DEF CaptureFacts, PlaceFacts, SessionKept, Idle,
        Steps, SetUp, WithDatabase, Reporting, Over, Quiescent
    <3>2. StageFacts(r)'
      BY <1>0, <2>1, <2>2 DEF CaptureFacts, PlaceFacts, StageFacts, SessionKept,
        Settled, Steps, SetUp, WithDatabase, Reporting, Over, HasSchema
    <3>3. ListFacts(r)'
      BY <1>0, <2>1, <2>2 DEF CaptureFacts, ListFacts, SessionKept, HasSchema, WithDatabase, PastSchema,
        PastWorkload, Over
    <3>4. QED
      BY <3>1, <3>2, <3>3 DEF CaptureFacts
<1>2. CASE RunDatabase(r)
  <2>0. pc[r] = "run_db" /\ (phase[r] = "open" => Idle(r))
    BY <1>2 DEF RunDatabase, At
  <2>1. CASE UNCHANGED vars /\ Goto(r, "join_db") /\ UNCHANGED leaks
    <3>1. /\ pc'[r] = "join_db" /\ leaks'[r] = leaks[r]
          /\ migration'[r] = migration[r] /\ tests'[r] = tests[r] /\ rawEvents'[r] = rawEvents[r]
      BY <1>2, <2>1 DEF RunDatabase
    <3>2. QED
      <4>1. PlaceFacts(r)'
        BY <1>0, <2>0, <2>1, <3>1 DEF CaptureFacts, PlaceFacts, SessionKept, Idle,
          Steps, SetUp, WithDatabase, Reporting, Over, Quiescent
      <4>2. StageFacts(r)'
        BY <1>0, <2>0, <2>1, <3>1 DEF CaptureFacts, PlaceFacts, StageFacts, SessionKept,
          Settled, Steps, SetUp, WithDatabase, Reporting, Over, HasSchema
      <4>3. ListFacts(r)'
        BY <1>0, <2>0, <2>1, <3>1 DEF CaptureFacts, ListFacts, SessionKept, HasSchema, WithDatabase, PastSchema,
        PastWorkload, Over
      <4>4. QED
        BY <4>1, <4>2, <4>3 DEF CaptureFacts
  <2>2. CASE Raise(r, "remove_network")
    <3>1. db[r] = "none"
      BY <2>0 DEF CaptureFacts, PlaceFacts
    <3>2. DatabaseAccounted(r)'
      <4>1. \/ db'[r] = "none"
            \/ db'[r] = "created" /\ leaks'[r] = leaks[r] \cup {"run"}
        BY <1>2, <2>2, <3>1, <2>0 DEF RunDatabase, Raise, Note, At
      <4>2. QED
        BY <4>1 DEF DatabaseAccounted, Removable
    <3>3. QED
      BY <1>2, <2>2, <3>2, RaisedFacts DEF RunDatabase
  <2>3. QED
    BY <1>2, <2>1, <2>2 DEF RunDatabase
<1>3. CASE FailDatabase(r)
  <2>1. rawEvents' = rawEvents
    BY <1>3 DEF FailDatabase
  <2>2. DatabaseAccounted(r)'
    BY <1>3, RemovalAccounted DEF FailDatabase
  <2>3. QED
    BY <1>3, <2>1, <2>2, RaisedFacts DEF FailDatabase
<1>4. CASE JoinDatabase(r) \/ AwaitDatabase(r)
  <2>0. pc[r] \in {"join_db", "await_db"} /\ (phase[r] = "open" => Idle(r))
    BY <1>4 DEF JoinDatabase, AwaitDatabase, At
  <2>1. CASE UNCHANGED vars /\ ~FailDatabase(r)
    <3>1. /\ pc'[r] \in {"await_db", "migrate"} /\ leaks'[r] = leaks[r]
          /\ migration'[r] = migration[r] /\ tests'[r] = tests[r] /\ rawEvents'[r] = rawEvents[r]
      BY <1>4, <2>1 DEF JoinDatabase, AwaitDatabase
    <3>2. QED
      <4>1. PlaceFacts(r)'
        BY <1>0, <2>0, <2>1, <3>1 DEF CaptureFacts, PlaceFacts, SessionKept, Idle,
          Steps, SetUp, WithDatabase, Reporting, Over, Quiescent
      <4>2. StageFacts(r)'
        BY <1>0, <2>0, <2>1, <3>1 DEF CaptureFacts, PlaceFacts, StageFacts, SessionKept,
          Settled, Steps, SetUp, WithDatabase, Reporting, Over, HasSchema
      <4>3. ListFacts(r)'
        BY <1>0, <2>0, <2>1, <3>1 DEF CaptureFacts, ListFacts, SessionKept, HasSchema, WithDatabase, PastSchema,
        PastWorkload, Over
      <4>4. QED
        BY <4>1, <4>2, <4>3 DEF CaptureFacts
  <2>2. QED
    BY <1>3, <1>4, <2>1 DEF JoinDatabase, AwaitDatabase
<1>5. CASE Migrate(r) \/ Introspect(r) \/ RunTests(r)
  <2>0. pc[r] \in WithDatabase /\ (phase[r] = "open" => Idle(r))
    BY <1>5 DEF Migrate, Introspect, RunTests, At, WithDatabase
  <2>1. CASE Raise(r, "stop_db")
    <3>1. pc[r] \notin PastSchema
      BY <2>0 DEF WithDatabase, PastSchema, HasSchema, Over
    <3>2. QED
      BY <1>5, <2>1, <3>1, RaisedFacts DEF Migrate, Introspect, RunTests
  <2>2. CASE Migrate(r) /\ ~Raise(r, "stop_db")
    <3>0. UNCHANGED vars
      BY <2>2 DEF Migrate
    <3>1. /\ pc'[r] = (IF migration'[r] = "succeeded" THEN "introspect" ELSE "stop_db")
          /\ leaks'[r] = leaks[r] /\ tests'[r] = tests[r] /\ rawEvents'[r] = rawEvents[r]
      BY <2>2 DEF Migrate
    <3>2. QED
      <4>1. PlaceFacts(r)'
        BY <1>0, <2>0, <2>2, <3>0, <3>1 DEF CaptureFacts, PlaceFacts, SessionKept, Idle,
          Steps, SetUp, WithDatabase, Reporting, Over, Quiescent
      <4>2. StageFacts(r)'
        BY <1>0, <2>0, <2>2, <3>0, <3>1 DEF CaptureFacts, PlaceFacts, StageFacts, SessionKept,
          Settled, Steps, SetUp, WithDatabase, Reporting, Over, HasSchema
      <4>3. ListFacts(r)'
        BY <1>0, <2>0, <2>2, <3>0, <3>1 DEF CaptureFacts, ListFacts, SessionKept, HasSchema, WithDatabase, PastSchema,
        PastWorkload, Over
      <4>4. QED
        BY <4>1, <4>2, <4>3 DEF CaptureFacts
  <2>3. CASE Introspect(r) /\ ~Raise(r, "stop_db")
    <3>0. UNCHANGED vars
      BY <2>3 DEF Introspect
    <3>1. /\ pc'[r] = "test" /\ leaks'[r] = leaks[r]
          /\ migration'[r] = migration[r] /\ tests'[r] = tests[r] /\ rawEvents'[r] = rawEvents[r]
      BY <2>3 DEF Introspect
    <3>2. QED
      <4>1. PlaceFacts(r)'
        BY <1>0, <2>0, <2>3, <3>0, <3>1 DEF CaptureFacts, PlaceFacts, SessionKept, Idle,
          Steps, SetUp, WithDatabase, Reporting, Over, Quiescent
      <4>2. StageFacts(r)'
        BY <1>0, <2>0, <2>3, <3>0, <3>1 DEF CaptureFacts, PlaceFacts, StageFacts, SessionKept,
          Settled, Steps, SetUp, WithDatabase, Reporting, Over, HasSchema
      <4>3. ListFacts(r)'
        BY <1>0, <2>0, <2>3, <3>0, <3>1 DEF CaptureFacts, ListFacts, SessionKept, HasSchema, WithDatabase, PastSchema,
        PastWorkload, Over
      <4>4. QED
        BY <4>1, <4>2, <4>3 DEF CaptureFacts
  <2>4. CASE RunTests(r) /\ ~Raise(r, "stop_db")
    <3>0. UNCHANGED vars
      BY <2>4 DEF RunTests
    <3>1. /\ pc'[r] = "stop_db" /\ leaks'[r] = leaks[r] /\ rawEvents'[r] = rawEvents[r]
          /\ tests'[r] \in Tested \/ migration'[r] = "unavailable"
      BY <2>4 DEF RunTests, Tested, Coverage
    <3>2. QED
      <4>1. PlaceFacts(r)'
        BY <1>0, <2>0, <2>4, <3>0, <3>1 DEF CaptureFacts, PlaceFacts, SessionKept, Idle,
          Steps, SetUp, WithDatabase, Reporting, Over, Quiescent
      <4>2. StageFacts(r)'
        BY <1>0, <2>0, <2>4, <3>0, <3>1 DEF CaptureFacts, PlaceFacts, StageFacts, SessionKept,
          Settled, Steps, SetUp, WithDatabase, Reporting, Over, HasSchema
      <4>3. ListFacts(r)'
        BY <1>0, <2>0, <2>4, <3>0, <3>1 DEF CaptureFacts, ListFacts, SessionKept, HasSchema, WithDatabase, PastSchema,
        PastWorkload, Over
      <4>4. QED
        BY <4>1, <4>2, <4>3 DEF CaptureFacts
  <2>5. QED
    BY <1>5, <2>1, <2>2, <2>3, <2>4 DEF Migrate, Introspect, RunTests
<1>6. CASE StopDatabase(r)
  <2>0. pc[r] = "stop_db" /\ UNCHANGED vars
    BY <1>6 DEF StopDatabase, At
  <2>1. /\ DatabaseAccounted(r)'
        /\ migration'[r] = migration[r] /\ tests'[r] = tests[r] /\ rawEvents'[r] = rawEvents[r]
    BY <1>6, RemovalAccounted DEF StopDatabase
  <2>2. /\ phase[r] = "dead" => pc'[r] = "remove_network"
        /\ phase[r] # "dead" => pc'[r] \in {"fail_stage", "report_migration"}
    <3>1. CASE phase[r] = "dead"
      BY <1>6, <3>1 DEF StopDatabase
    <3>2. CASE phase[r] # "dead" /\ migration[r] = "unavailable"
      BY <1>6, <3>2 DEF StopDatabase
    <3>3. CASE phase[r] # "dead" /\ migration[r] # "unavailable"
      BY <1>6, <3>3 DEF StopDatabase
    <3>4. QED
      BY <3>1, <3>2, <3>3
  <2>3. QED
    <3>1. PlaceFacts(r)'
      BY <1>0, <2>0, <2>1, <2>2 DEF CaptureFacts, PlaceFacts, SessionKept, Idle,
        Steps, SetUp, WithDatabase, Reporting, Over, Quiescent
    <3>2. StageFacts(r)'
      BY <1>0, <2>0, <2>1, <2>2 DEF CaptureFacts, PlaceFacts, StageFacts, SessionKept,
        Settled, Steps, SetUp, WithDatabase, Reporting, Over, HasSchema
    <3>3. ListFacts(r)'
      BY <1>0, <2>0, <2>1, <2>2 DEF CaptureFacts, ListFacts, SessionKept, HasSchema, WithDatabase, PastSchema,
        PastWorkload, Over
    <3>4. QED
      BY <3>1, <3>2, <3>3 DEF CaptureFacts
<1>7. QED
  BY <1>1, <1>2, <1>4, <1>5, <1>6

\* What a stage transition of a capture does to the session.
LEMMA TransitionValues ==
  ASSUME TypeOK, NEW r \in Runs, NEW s \in Stages, NEW status, Transition(r, s, status),
         phase[r] = "open"
  PROVE  /\ phase'[r] = phase[r] /\ late' = late
         /\ stages'[r][s] = status /\ \A t \in Stages \ {s} : stages'[r][t] = stages[r][t]
         /\ \A p : Has(r, p)' = Has(r, p)
<1>1. /\ stages' = [stages EXCEPT ![r][s] = status] /\ UNCHANGED <<phase, entries, unlisted>>
      /\ late' = late
  BY DEF Transition, NoteLate
<1>2. stages[r] \in StageMaps /\ stages'[r] = [stages[r] EXCEPT ![s] = status]
  BY <1>1 DEF TypeOK
<1>3. QED
  BY <1>1, <1>2, SameRecords DEF StageMaps

\* The steps of the report that move a stage.
LEMMA StageReportFacts ==
  ASSUME TypeOK, CaptureTypeOK, NEW r \in Runs, CaptureFacts(r),
         StartStage(r) \/ FailStage(r) \/ ReportMigration(r) \/ StartQueries(r) \/ EndQueries(r)
  PROVE  CaptureFacts(r)'
<1> USE StagesAssumption DEF Goto, docker, results, CaptureTypeOK
<1>a. /\ MigrationSandbox \in Stages /\ QueryCapture \in Stages
      /\ phase[r] = "open"
  BY DEF CaptureFacts, PlaceFacts, StartStage, FailStage, ReportMigration, StartQueries,
    EndQueries, At, Steps, SetUp, Reporting
<1>0. /\ network'[r] = network[r] /\ db'[r] = db[r] /\ leaks'[r] = leaks[r]
      /\ migration'[r] = migration[r] /\ tests'[r] = tests[r] /\ rawEvents'[r] = rawEvents[r]
  BY DEF StartStage, FailStage, ReportMigration, StartQueries, EndQueries
<1>1. CASE StartStage(r)
  <2>0. Transition(r, MigrationSandbox, "running")
    BY <1>1 DEF StartStage
  <2>1. pc[r] = "start_stage" /\ pc'[r] = "run_db"
    BY <1>1 DEF StartStage, At
  <2>2. /\ phase'[r] = phase[r] /\ phase[r] = "open" /\ late' = late /\ stages'[r][MigrationSandbox] = "running"
        /\ \A t \in Stages \ {MigrationSandbox} : stages'[r][t] = stages[r][t]
        /\ \A p : Has(r, p)' = Has(r, p)
    BY <1>a, <2>0, TransitionValues
  <2>3. PlaceFacts(r)'
    BY <1>0, <2>1, <2>2 DEF CaptureFacts, PlaceFacts, Steps, SetUp, WithDatabase, Reporting,
      Over, Quiescent, DatabaseAccounted, NetworkAccounted
  <2>4. StageFacts(r)'
    BY <1>0, <2>1, <2>2 DEF CaptureFacts, StageFacts, Steps, SetUp, WithDatabase, Reporting,
      Over, HasSchema
  <2>5. ListFacts(r)'
    BY <1>0, <2>1, <2>2 DEF CaptureFacts, StageFacts, ListFacts, HasSchema, PastSchema, PastWorkload, Over
  <2>6. QED
    BY <2>3, <2>4, <2>5 DEF CaptureFacts
<1>2. CASE FailStage(r)
  <2>0. Transition(r, MigrationSandbox, "failed")
    BY <1>2 DEF FailStage
  <2>1. pc[r] = "fail_stage" /\ pc'[r] = "finish"
    BY <1>2 DEF FailStage, At
  <2>2. /\ phase'[r] = phase[r] /\ phase[r] = "open" /\ late' = late /\ stages'[r][MigrationSandbox] = "failed"
        /\ \A t \in Stages \ {MigrationSandbox} : stages'[r][t] = stages[r][t]
        /\ \A p : Has(r, p)' = Has(r, p)
    BY <1>a, <2>0, TransitionValues
  <2>3. PlaceFacts(r)'
    BY <1>0, <2>1, <2>2 DEF CaptureFacts, PlaceFacts, Steps, SetUp, WithDatabase, Reporting,
      Over, Quiescent, DatabaseAccounted, NetworkAccounted
  <2>4. StageFacts(r)'
    BY <1>0, <2>1, <2>2 DEF CaptureFacts, StageFacts, Settled, Steps, SetUp, WithDatabase,
      Reporting, Over, HasSchema
  <2>5. ListFacts(r)'
    BY <1>0, <2>1, <2>2 DEF CaptureFacts, StageFacts, ListFacts, HasSchema, PastSchema, PastWorkload, Over
  <2>6. QED
    BY <2>3, <2>4, <2>5 DEF CaptureFacts
<1>3. CASE ReportMigration(r)
  <2> DEFINE status == IF migration[r] = "succeeded" THEN "complete" ELSE "failed"
  <2>0. Transition(r, MigrationSandbox, status)
    BY <1>3 DEF ReportMigration
  <2>1. /\ pc[r] = "report_migration"
        /\ pc'[r] = IF migration[r] = "succeeded" THEN "record_schema" ELSE "finish"
    BY <1>3 DEF ReportMigration, At
  <2>2. /\ phase'[r] = phase[r] /\ phase[r] = "open" /\ late' = late /\ stages'[r][MigrationSandbox] = status
        /\ \A t \in Stages \ {MigrationSandbox} : stages'[r][t] = stages[r][t]
        /\ \A p : Has(r, p)' = Has(r, p)
    BY <1>a, <2>0, TransitionValues
  <2>3. PlaceFacts(r)'
    BY <1>0, <2>1, <2>2 DEF CaptureFacts, PlaceFacts, Steps, SetUp, WithDatabase, Reporting,
      Over, Quiescent, DatabaseAccounted, NetworkAccounted
  <2>4. StageFacts(r)'
    BY <1>0, <2>1, <2>2 DEF CaptureFacts, StageFacts, Settled, Steps, SetUp, WithDatabase,
      Reporting, Over, HasSchema
  <2>5. ListFacts(r)'
    BY <1>0, <2>1, <2>2 DEF CaptureFacts, StageFacts, ListFacts, HasSchema, PastSchema, PastWorkload, Over
  <2>6. QED
    BY <2>3, <2>4, <2>5 DEF CaptureFacts
<1>4. CASE StartQueries(r)
  <2>0. Transition(r, QueryCapture, "running")
    BY <1>4 DEF StartQueries
  <2>1. pc[r] = "start_queries" /\ pc'[r] = "write_events"
    BY <1>4 DEF StartQueries, At
  <2>2. /\ phase'[r] = phase[r] /\ phase[r] = "open" /\ late' = late /\ stages'[r][QueryCapture] = "running"
        /\ \A t \in Stages \ {QueryCapture} : stages'[r][t] = stages[r][t]
        /\ \A p : Has(r, p)' = Has(r, p)
    BY <1>a, <2>0, TransitionValues
  <2>3. PlaceFacts(r)'
    BY <1>0, <2>1, <2>2 DEF CaptureFacts, PlaceFacts, Steps, SetUp, WithDatabase, Reporting,
      Over, Quiescent, DatabaseAccounted, NetworkAccounted
  <2>4. StageFacts(r)'
    BY <1>0, <2>1, <2>2 DEF CaptureFacts, StageFacts, Steps, SetUp, WithDatabase, Reporting,
      Over, HasSchema
  <2>5. ListFacts(r)'
    BY <1>0, <2>1, <2>2 DEF CaptureFacts, StageFacts, ListFacts, HasSchema, PastSchema, PastWorkload, Over
  <2>6. QED
    BY <2>3, <2>4, <2>5 DEF CaptureFacts
<1>5. CASE EndQueries(r)
  <2>0. Transition(r, QueryCapture, tests[r])
    BY <1>5 DEF EndQueries
  <2>1. pc[r] = "end_queries" /\ pc'[r] = "finish"
    BY <1>5 DEF EndQueries, At
  <2>2. /\ phase'[r] = phase[r] /\ phase[r] = "open" /\ late' = late /\ stages'[r][QueryCapture] = tests[r]
        /\ \A t \in Stages \ {QueryCapture} : stages'[r][t] = stages[r][t]
        /\ \A p : Has(r, p)' = Has(r, p)
    BY <1>a, <2>0, TransitionValues
  <2>3. PlaceFacts(r)'
    BY <1>0, <2>1, <2>2 DEF CaptureFacts, PlaceFacts, Steps, SetUp, WithDatabase, Reporting,
      Over, Quiescent, DatabaseAccounted, NetworkAccounted
  <2>4. StageFacts(r)'
    BY <1>0, <2>1, <2>2 DEF CaptureFacts, StageFacts, Settled, Steps, SetUp, WithDatabase,
      Reporting, Over, HasSchema
  <2>5. ListFacts(r)'
    BY <1>0, <2>1, <2>2 DEF CaptureFacts, ListFacts, HasSchema, PastSchema, PastWorkload, Over
  <2>6. QED
    BY <2>3, <2>4, <2>5 DEF CaptureFacts
<1>6. QED
  BY <1>1, <1>2, <1>3, <1>4, <1>5

\* A file that was written is recorded, next to those that were.
LEMMA RecordedOneMore ==
  ASSUME TypeOK, NEW r \in Runs, NEW p \in Paths, Idle(r),
         Len(entries[r]) <= MaxWrites, entries'[r] = entries[r],
         unlisted'[r] = <<[path |-> p, hash |-> NextDocument(r)]>>
  PROVE  \A x : Has(r, x)' <=> Has(r, x) \/ x = p
<1> DEFINE e == [path |-> p, hash |-> NextDocument(r)]
<1>1. /\ entries[r] \in Seq(Entries) /\ Recorded(r) = entries[r]
      /\ Len(entries[r]) \in Nat /\ Len(entries[r]) <= MaxWrites
  <2>1. unlisted[r] = <<>>
    BY DEF Idle
  <2>2. Len(entries[r]) \in Nat
    BY ManifestTypes, LenProperties
  <2>3. QED
    BY <2>1, <2>2, ManifestTypes, MaxWritesAssumption
<1>2. e \in Entries /\ e.path = p
  BY <1>1, MaxWritesAssumption DEF Entries, Documents, NextDocument
<1> HIDE DEF e
<1>3. Recorded(r)' = entries[r] \o <<e>>
  BY DEF Recorded, e
<1>4. /\ DOMAIN (entries[r] \o <<e>>) = DOMAIN entries[r] \cup {Len(entries[r]) + 1}
      /\ \A k \in DOMAIN entries[r] : (entries[r] \o <<e>>)[k] = entries[r][k]
      /\ (entries[r] \o <<e>>)[Len(entries[r]) + 1] = e
  BY <1>1, <1>2, ExtendedSeq
<1>5. QED
  BY <1>1, <1>2, <1>3, <1>4 DEF Has, Recorded

\* The other steps of the report: files, the result, and the clean-up.
LEMMA FileReportFacts ==
  ASSUME TypeOK, CaptureTypeOK, NEW r \in Runs, CaptureFacts(r),
         \/ RecordSchema(r) \/ WriteEvents(r) \/ RecordWorkload(r)
         \/ Finish(r) \/ RemoveNetwork(r)
  PROVE  CaptureFacts(r)'
<1> USE DEF Goto, docker, results, CaptureTypeOK
<1>0. /\ SchemaPath \in Shared /\ WorkloadPath \in Shared /\ SchemaPath # WorkloadPath
      /\ ResultPath(r) \notin Shared /\ ResultPath(r) \in Paths /\ Shared \subseteq Paths
  BY PathsAssumption, ResultPathAssumption DEF Paths
<1>1. ASSUME NEW p \in Shared, WriteArtifact(r, p), phase[r] = "open"
      PROVE  /\ phase'[r] = phase[r] /\ late' = late /\ stages'[r] = stages[r]
             /\ \A x : Has(r, x)' <=> Has(r, x) \/ x = p
  <2>1. /\ UNCHANGED <<phase, stages, entries, late>> /\ Idle(r) /\ Len(entries[r]) <= MaxWrites
        /\ unlisted' = [unlisted EXCEPT ![r] = <<[path |-> p, hash |-> NextDocument(r)]>>]
    <3>1. Len(entries[r]) \in Nat /\ Len(entries[r]) < MaxWrites
      BY <1>1, ManifestTypes, LenProperties DEF WriteArtifact
    <3>2. QED
      BY <1>1, <3>1, MaxWritesAssumption DEF WriteArtifact, NoteLate
  <2>2. unlisted'[r] = <<[path |-> p, hash |-> NextDocument(r)]>>
    BY <2>1 DEF TypeOK
  <2>3. \A x : Has(r, x)' <=> Has(r, x) \/ x = p
    BY <1>0, <2>1, <2>2, RecordedOneMore
  <2>4. QED
    BY <2>1, <2>3
<1>2. CASE RecordSchema(r)
  <2>0. WriteArtifact(r, SchemaPath)
    BY <1>2 DEF RecordSchema
  <2>1. /\ pc[r] = "record_schema" /\ pc'[r] = "start_queries"
        /\ network'[r] = network[r] /\ db'[r] = db[r] /\ leaks'[r] = leaks[r]
        /\ migration'[r] = migration[r] /\ tests'[r] = tests[r] /\ rawEvents'[r] = rawEvents[r]
    BY <1>2 DEF RecordSchema, At
  <2>a. phase[r] = "open"
    BY <2>1 DEF CaptureFacts, PlaceFacts, Steps, Reporting
  <2>2. /\ phase'[r] = phase[r] /\ phase[r] = "open" /\ stages'[r] = stages[r] /\ late' = late
        /\ \A x : Has(r, x)' <=> Has(r, x) \/ x = SchemaPath
    BY <1>0, <1>1, <2>0, <2>a
  <2>3. PlaceFacts(r)'
    BY <2>1, <2>2 DEF CaptureFacts, PlaceFacts, Steps, SetUp, WithDatabase, Reporting,
      Over, Quiescent, DatabaseAccounted, NetworkAccounted
  <2>4. StageFacts(r)'
    BY <2>1, <2>2 DEF CaptureFacts, StageFacts, Steps, SetUp, WithDatabase, Reporting, HasSchema
  <2>5. ListFacts(r)'
    BY <1>0, <2>1, <2>2 DEF CaptureFacts, StageFacts, ListFacts, HasSchema, PastSchema, PastWorkload, Over
  <2>6. QED
    BY <2>3, <2>4, <2>5 DEF CaptureFacts
<1>3. CASE RecordWorkload(r)
  <2>0. WriteArtifact(r, WorkloadPath)
    BY <1>3 DEF RecordWorkload
  <2>1. /\ pc[r] = "record_workload" /\ pc'[r] = "end_queries"
        /\ network'[r] = network[r] /\ db'[r] = db[r] /\ leaks'[r] = leaks[r]
        /\ migration'[r] = migration[r] /\ tests'[r] = tests[r] /\ rawEvents'[r] = rawEvents[r]
    BY <1>3 DEF RecordWorkload, At
  <2>a. phase[r] = "open"
    BY <2>1 DEF CaptureFacts, PlaceFacts, Steps, Reporting
  <2>2. /\ phase'[r] = phase[r] /\ phase[r] = "open" /\ stages'[r] = stages[r] /\ late' = late
        /\ \A x : Has(r, x)' <=> Has(r, x) \/ x = WorkloadPath
    BY <1>0, <1>1, <2>0, <2>a
  <2>3. PlaceFacts(r)'
    BY <2>1, <2>2 DEF CaptureFacts, PlaceFacts, Steps, SetUp, WithDatabase, Reporting,
      Over, Quiescent, DatabaseAccounted, NetworkAccounted
  <2>4. StageFacts(r)'
    BY <2>1, <2>2 DEF CaptureFacts, StageFacts, Steps, SetUp, WithDatabase, Reporting, HasSchema
  <2>5. ListFacts(r)'
    BY <1>0, <2>1, <2>2 DEF CaptureFacts, ListFacts, HasSchema, PastSchema, PastWorkload, Over
  <2>6. QED
    BY <2>3, <2>4, <2>5 DEF CaptureFacts
<1>4. CASE Finish(r)
  <2>a. phase[r] = "open"
    BY <1>4 DEF Finish, At, CaptureFacts, PlaceFacts, Steps, Reporting
  <2>0. /\ UNCHANGED <<stages, entries, late>> /\ Idle(r) /\ Len(entries[r]) <= MaxWrites
        /\ phase' = [phase EXCEPT ![r] = "finishing"]
        /\ unlisted' = [unlisted EXCEPT ![r] =
                          <<[path |-> ResultPath(r), hash |-> NextDocument(r)]>>]
    BY <1>4, <2>a DEF Finish, WriteResult, NoteLate
  <2>1. /\ pc[r] = "finish" /\ pc'[r] = "remove_network"
        /\ network'[r] = network[r] /\ db'[r] = db[r] /\ leaks'[r] = leaks[r]
        /\ migration'[r] = migration[r] /\ tests'[r] = tests[r] /\ rawEvents'[r] = rawEvents[r]
    BY <1>4 DEF Finish, At
  <2>2. /\ phase[r] = "open" /\ phase'[r] = "finishing" /\ stages'[r] = stages[r]
        /\ unlisted'[r] = <<[path |-> ResultPath(r), hash |-> NextDocument(r)]>>
    BY <2>0, <2>a DEF TypeOK
  <2>3. \A x : Has(r, x)' <=> Has(r, x) \/ x = ResultPath(r)
    BY <1>0, <2>0, <2>2, RecordedOneMore
  <2>4. PlaceFacts(r)'
    BY <2>0, <2>1, <2>2 DEF CaptureFacts, PlaceFacts, Steps, SetUp, WithDatabase, Reporting,
      Over, Quiescent, DatabaseAccounted, NetworkAccounted
  <2>5. StageFacts(r)'
    BY <2>1, <2>2 DEF CaptureFacts, StageFacts, Settled
  <2>6. ListFacts(r)'
    BY <1>0, <2>1, <2>2, <2>3 DEF CaptureFacts, ListFacts, PastSchema, PastWorkload, HasSchema
  <2>7. QED
    BY <2>4, <2>5, <2>6 DEF CaptureFacts
<1>5. CASE WriteEvents(r)
  <2>1. /\ pc[r] = "write_events" /\ pc'[r] = "record_workload" /\ UNCHANGED vars
        /\ network'[r] = network[r] /\ db'[r] = db[r] /\ leaks'[r] = leaks[r]
        /\ migration'[r] = migration[r] /\ tests'[r] = tests[r] /\ rawEvents'[r] = TRUE
    BY <1>5 DEF WriteEvents, At
  <2>2. /\ phase'[r] = phase[r] /\ phase[r] = "open" /\ stages'[r] = stages[r] /\ late' = late
        /\ \A p : Has(r, p)' = Has(r, p)
    <3>1. SessionKept(r) /\ phase[r] = "open"
      BY <2>1, UnchangedSession DEF CaptureFacts, PlaceFacts, Steps, Reporting
    <3>2. QED
      BY <3>1, SameRecords DEF SessionKept
  <2>3. PlaceFacts(r)'
    BY <2>1, <2>2 DEF CaptureFacts, PlaceFacts, Steps, SetUp, WithDatabase, Reporting,
      Over, Quiescent, DatabaseAccounted, NetworkAccounted
  <2>4. StageFacts(r)'
    <3>1. /\ \A s \in Stages \ {MigrationSandbox, QueryCapture} : stages[r][s] = "pending"
          /\ stages[r][MigrationSandbox] = "complete" /\ tests[r] \in Tested
          /\ stages[r][QueryCapture] = "running"
      BY <2>1, <2>2 DEF CaptureFacts, StageFacts, HasSchema
    <3>2. QED
      BY <2>1, <2>2, <3>1 DEF StageFacts, WithDatabase
  <2>5. ListFacts(r)'
    BY <2>1, <2>2 DEF CaptureFacts, ListFacts, HasSchema, PastSchema, PastWorkload, Over
  <2>6. QED
    BY <2>3, <2>4, <2>5 DEF CaptureFacts
<1>6. CASE RemoveNetwork(r)
  <2>1. /\ pc[r] = "remove_network" /\ pc'[r] = "end" /\ phase[r] # "finishing" /\ UNCHANGED vars
        /\ db'[r] = db[r] /\ tests'[r] = tests[r] /\ rawEvents'[r] = rawEvents[r]
    BY <1>6 DEF RemoveNetwork, At
  <2>2. SessionKept(r) /\ phase[r] \in {"finished", "dead"}
    BY <2>1, UnchangedSession DEF CaptureFacts, PlaceFacts, TypeOK
  <2>3. DatabaseAccounted(r)
    BY <2>1 DEF CaptureFacts, PlaceFacts
  <2>4. /\ phase'[r] = phase[r] /\ stages'[r] = stages[r] /\ late' = late
        /\ entries'[r] = entries[r] /\ unlisted'[r] = unlisted[r]
    BY <2>2 DEF SessionKept
  <2>5. DatabaseAccounted(r)' /\ NetworkAccounted(r)'
    <3>1. CASE /\ network' = [network EXCEPT ![r] = IF @ = "up" /\ db[r] # "joined" THEN "removed" ELSE @]
               /\ UNCHANGED leaks
      <4>1. network'[r] = "up" => db[r] = "joined"
        BY <3>1
      <4>2. QED
        BY <2>1, <2>3, <3>1, <4>1 DEF DatabaseAccounted, NetworkAccounted
    <3>2. CASE Note(r, "network_rm")
      <4>1. leaks'[r] = leaks[r] \cup {"network_rm"}
        BY <3>2 DEF Note
      <4>2. QED
        BY <2>1, <2>3, <4>1 DEF DatabaseAccounted, NetworkAccounted
    <3>3. QED
      BY <1>6, <3>1, <3>2 DEF RemoveNetwork
  <2>6. QED
    BY <2>1, <2>2, <2>4, <2>5, AbandonedFacts
<1>7. QED
  BY <1>2, <1>3, <1>4, <1>5, <1>6

\* The second halves of the session's calls.
LEMMA ContinueFacts ==
  ASSUME TypeOK, CaptureTypeOK, NEW r \in Runs, CaptureFacts(r), SessionContinues(r)
  PROVE  CaptureFacts(r)'
<1>1. UNCHANGED <<pc, network, db, migration, tests, rawEvents, leaks>>
  BY DEF SessionContinues, capture
<1>2. UNCHANGED <<stages, late>>
  BY DEF SessionContinues, Continue, LogEvent, ListArtifact, WriteManifest, RejectManifest
<1>3. \A p : Has(r, p)' = Has(r, p)
  <2>1. CASE ListArtifact(r)
    <3>1. entries'[r] = Recorded(r) /\ unlisted'[r] = <<>>
      BY <2>1 DEF ListArtifact, TypeOK, Recorded
    <3>2. Recorded(r) \o <<>> = Recorded(r)
      BY ManifestTypes, ConcatEmptySeq
    <3>3. Recorded(r)' = Recorded(r)
      BY <3>1, <3>2 DEF Recorded
    <3>4. QED
      BY <3>3 DEF Has, Recorded
  <2>2. CASE ~ListArtifact(r)
    <3>1. UNCHANGED <<entries, unlisted>>
      BY <2>2 DEF SessionContinues, Continue, LogEvent, WriteManifest, RejectManifest
    <3>2. QED
      BY <3>1, SameRecords
  <2>3. QED
    BY <2>1, <2>2
<1>4. \/ phase'[r] = phase[r] /\ ~Idle(r) /\ phase[r] \in {"open", "finishing"}
      \/ phase[r] = "finishing" /\ phase'[r] = "finished"
      \/ phase[r] = "finished" /\ phase'[r] = "finished"
  BY DEF SessionContinues, Continue, LogEvent, ListArtifact, WriteManifest, RejectManifest,
    Idle, TypeOK
<1>5. PlaceFacts(r)'
  BY <1>1, <1>2, <1>4 DEF CaptureFacts, PlaceFacts, Over, DatabaseAccounted, NetworkAccounted
<1>6. StageFacts(r)'
  BY <1>1, <1>2, <1>4 DEF CaptureFacts, StageFacts, Settled
<1>7. ListFacts(r)'
  BY <1>1, <1>2, <1>3, <1>4 DEF CaptureFacts, ListFacts
<1>8. QED
  BY <1>5, <1>6, <1>7 DEF CaptureFacts

\* An interrupt, an exception between result.json and manifest.json, a kill.
LEMMA StopFacts ==
  ASSUME TypeOK, CaptureTypeOK, NEW r \in Runs, CaptureFacts(r),
         Interrupt(r) \/ FailToFinish(r) \/ Kill(r)
  PROVE  CaptureFacts(r)'
<1> USE DEF Goto, docker, results, CaptureTypeOK
<1>0. PlaceFacts(r) /\ phase[r] \in {"open", "finishing", "finished", "dead"}
  BY DEF CaptureFacts, TypeOK
<1>1. CASE Interrupt(r)
  <2>1. /\ pc[r] \in Steps /\ phase[r] # "finishing"
        /\ phase' = [phase EXCEPT ![r] = IF @ = "open" THEN "dead" ELSE @]
        /\ pc'[r] = Unwound(pc[r])
        /\ InDockerCall(r) => leaks'[r] = leaks[r] \cup {LeakAt(pc[r])}
        /\ ~InDockerCall(r) => leaks'[r] = leaks[r]
        /\ UNCHANGED <<stages, unlisted, entries, tests, rawEvents, late>>
    BY <1>1 DEF Interrupt, Note
  <2>2. /\ phase[r] = "open" => phase'[r] = "dead"
        /\ phase[r] # "open" => phase'[r] = phase[r] /\ phase[r] \in {"finished", "dead"}
    BY <1>0, <2>1 DEF TypeOK
  <2>3. pc[r] \in {"create_network", "remove_network"} => pc'[r] = "end" /\ InDockerCall(r)
    <3>1. pc[r] \in {"create_network", "remove_network"} => pc'[r] = "end"
      BY <2>1 DEF Unwound, WithDatabase
    <3>2. pc[r] \in {"create_network", "remove_network"} => InDockerCall(r)
      BY <1>0 DEF PlaceFacts, InDockerCall, Quiescent
    <3>3. QED
      BY <3>1, <3>2
  <2>4. pc[r] \in WithDatabase => pc'[r] = "stop_db" /\ phase[r] = "open"
    BY <1>0, <2>1 DEF Unwound, PlaceFacts, WithDatabase, Steps
  <2>5. pc[r] \notin WithDatabase \cup {"create_network", "remove_network"} => pc'[r] = "remove_network"
    BY <2>1 DEF Unwound
  <2>6. pc[r] \in {"join_db", "await_db", "stop_db"} => InDockerCall(r)
    BY <1>0 DEF PlaceFacts, InDockerCall, Quiescent, SetUp
  <2>7. ~InDockerCall(r) => db'[r] = db[r]
    <3>1. ASSUME ~InDockerCall(r) PROVE db'[r] = db[r]
      <4>1. PICK effect \in {<<network[r], db[r]>>} : db' = [db EXCEPT ![r] = effect[2]]
        BY <1>1, <3>1 DEF Interrupt
      <4>2. QED
        BY <4>1
    <3>2. QED
      BY <3>1
  <2>a. pc[r] = "remove_network" => db'[r] = db[r]
    <3>1. ASSUME pc[r] = "remove_network" PROVE PartialEffect(r) \subseteq {<<n, db[r]>> : n \in {network[r], "up", "removed"}}
      BY <3>1 DEF PartialEffect
    <3>2. ASSUME pc[r] = "remove_network" PROVE db'[r] = db[r]
      <4>1. PICK effect \in {<<n, db[r]>> : n \in {network[r], "up", "removed"}} : db' = [db EXCEPT ![r] = effect[2]]
        BY <1>1, <3>1, <3>2 DEF Interrupt
      <4>2. QED
        BY <4>1
    <3>3. QED
      BY <3>2
  <2>b. pc[r] = "create_network" => db'[r] = "none"
    <3>1. ASSUME pc[r] = "create_network" PROVE PartialEffect(r) \subseteq {<<n, "none">> : n \in {network[r], "up"}}
      BY <1>0, <3>1 DEF PartialEffect, PlaceFacts
    <3>2. ASSUME pc[r] = "create_network" PROVE db'[r] = "none"
      <4>1. PICK effect \in {<<n, "none">> : n \in {network[r], "up"}} : db' = [db EXCEPT ![r] = effect[2]]
        BY <1>1, <2>3, <3>1, <3>2 DEF Interrupt
      <4>2. QED
        BY <4>1
    <3>3. QED
      BY <3>2
  <2>8. pc'[r] \in {"remove_network", "end"} => DatabaseAccounted(r)'
    <3>1. CASE pc[r] \in {"run_db", "join_db", "await_db", "stop_db"}
      <4>1. CASE InDockerCall(r)
        <5>1. leaks'[r] = leaks[r] \cup {LeakAt(pc[r])} /\ LeakAt(pc[r]) \in {"start", "rm"}
          BY <2>1, <3>1, <4>1 DEF LeakAt
        <5>2. QED
          BY <5>1 DEF DatabaseAccounted
      <4>2. CASE ~InDockerCall(r)
        <5>1. pc[r] = "run_db" /\ db'[r] = "none"
          BY <1>0, <2>6, <2>7, <3>1, <4>2 DEF PlaceFacts
        <5>2. QED
          BY <5>1 DEF DatabaseAccounted, Removable
      <4>3. QED
        BY <4>1, <4>2
    <3>2. CASE pc[r] = "remove_network"
      BY <1>0, <2>1, <2>3, <2>a, <3>2 DEF PlaceFacts, DatabaseAccounted
    <3>3. CASE pc[r] = "create_network"
      BY <2>b, <3>3 DEF DatabaseAccounted, Removable
    <3>4. CASE pc[r] = "start_stage"
      <4>1. ~InDockerCall(r) /\ db'[r] = "none"
        BY <1>0, <2>7, <3>4 DEF PlaceFacts, InDockerCall, SetUp
      <4>2. QED
        BY <4>1 DEF DatabaseAccounted, Removable
    <3>5. CASE pc[r] \in Reporting
      <4>1. ~InDockerCall(r) /\ db'[r] = db[r] /\ leaks'[r] = leaks[r]
        BY <2>1, <2>7, <3>5 DEF InDockerCall, SetUp, Reporting
      <4>2. QED
        BY <1>0, <3>5, <4>1 DEF PlaceFacts, DatabaseAccounted
    <3>6. QED
      BY <2>1, <2>4, <3>1, <3>2, <3>3, <3>4, <3>5 DEF Steps, SetUp
  <2>9. pc'[r] = "end" => NetworkAccounted(r)'
    <3>1. pc'[r] = "end" => pc[r] \in {"create_network", "remove_network"}
      BY <2>4, <2>5
    <3>2. ASSUME pc'[r] = "end" PROVE NetworkAccounted(r)'
      <4>1. leaks'[r] = leaks[r] \cup {LeakAt(pc[r])} /\ LeakAt(pc[r]) \in {"create", "network_rm"}
        BY <2>1, <2>3, <3>1, <3>2 DEF LeakAt
      <4>2. QED
        BY <4>1 DEF NetworkAccounted
    <3>3. QED
      BY <3>2
  <2>10. /\ pc'[r] = "stop_db" => phase'[r] = "dead"
         /\ pc'[r] \in {"stop_db", "remove_network", "end", "killed"}
    BY <2>2, <2>3, <2>4, <2>5
  <2>11. \/ phase'[r] = "dead"
         \/ phase[r] = "finished" /\ phase'[r] = "finished" /\ tests'[r] = tests[r]
    BY <2>1, <2>2
  <2>12. /\ stages'[r] = stages[r] /\ rawEvents'[r] = rawEvents[r]
         /\ entries'[r] = entries[r] /\ unlisted'[r] = unlisted[r]
    BY <2>1
  <2>13. QED
    <3>1. pc'[r] = "stop_db" => pc[r] \notin PastSchema
      BY <2>3, <2>5 DEF WithDatabase, PastSchema, HasSchema, Over
    <3>2. QED
      BY <2>1, <2>8, <2>9, <2>10, <2>11, <2>12, <3>1, AbandonedFacts
<1>2. CASE FailToFinish(r)
  <2>1. /\ phase[r] = "finishing" /\ Raise(r, "remove_network") /\ rawEvents' = rawEvents
        /\ db'[r] = db[r] /\ leaks'[r] = leaks[r]
    BY <1>2 DEF FailToFinish
  <2>2. DatabaseAccounted(r)'
    BY <1>0, <2>1 DEF PlaceFacts, DatabaseAccounted
  <2>3. QED
    BY <2>1, <2>2, RaisedFacts
<1>3. CASE Kill(r)
  <2>1. /\ phase'[r] = (IF phase[r] = "finished" THEN "finished" ELSE "dead")
        /\ pc'[r] = "killed" /\ tests'[r] = tests[r] /\ late' = late
        /\ stages'[r] = stages[r] /\ rawEvents'[r] = rawEvents[r]
        /\ entries'[r] = entries[r] /\ unlisted'[r] = unlisted[r]
    BY <1>3 DEF Kill, TypeOK
  <2>2. QED
    BY <2>1, AbandonedFacts
<1>4. QED
  BY <1>1, <1>2, <1>3

\* `pgproof clean --containers` only ever removes containers.
LEMMA CleanFacts ==
  ASSUME CaptureTypeOK, NEW q \in Runs, CaptureFacts(q), ListContainers \/ RemoveListed
  PROVE  CaptureFacts(q)'
<1>1. /\ UNCHANGED <<vars, pc, network, results, leaks>>
      /\ \/ db'[q] = db[q]
         \/ db[q] \in Removable /\ db'[q] = "removed"
  BY DEF ListContainers, RemoveListed
<1>2. /\ phase' = phase /\ stages' = stages /\ tests' = tests /\ migration' = migration
      /\ rawEvents' = rawEvents /\ unlogged' = unlogged /\ unlisted' = unlisted
      /\ entries' = entries /\ late' = late
  BY <1>1 DEF vars, results
<1>3. PlaceFacts(q)'
  BY <1>1, <1>2 DEF CaptureFacts, PlaceFacts, Idle, Removable, DatabaseAccounted, NetworkAccounted
<1>4. StageFacts(q)'
  BY <1>1, <1>2 DEF CaptureFacts, StageFacts, Settled
<1>5. \A p : Has(q, p)' = Has(q, p)
  BY <1>2, SameRecords
<1>6. ListFacts(q)'
  BY <1>1, <1>2, <1>5 DEF CaptureFacts, ListFacts
<1>7. QED
  BY <1>3, <1>4, <1>6 DEF CaptureFacts

\* Every step keeps the facts of every capture.
LEMMA FactsStep ==
  ASSUME TypeOK, CaptureTypeOK, \A q \in Runs : CaptureFacts(q), [CaptureNext]_allVars
  PROVE  \A q \in Runs : CaptureFacts(q)'
<1>1. ASSUME NEW r \in Runs, CaptureStep(r) \/ Interrupt(r) \/ FailToFinish(r) \/ Kill(r)
      PROVE  \A q \in Runs : CaptureFacts(q)'
  <2>1. CaptureFacts(r)'
    BY <1>1, DatabaseFacts, StageReportFacts, FileReportFacts, ContinueFacts, StopFacts
    DEF CaptureStep
  <2>2. \A q \in Runs \ {r} : CaptureFacts(q)'
    BY <1>1, OthersUntouched, FactsStay
  <2>3. QED
    BY <2>1, <2>2
<1>2. CASE UNCHANGED allVars
  <2>1. \A q \in Runs : Untouched(q)
    BY <1>2 DEF allVars, vars, capture, Untouched
  <2>2. QED
    BY <2>1, FactsStay
<1>3. QED
  BY <1>1, <1>2, CleanFacts DEF CaptureNext

(***************************************************************************)
(* The schema                                                              *)
(***************************************************************************)

\* A capture past its migration stays there, and what it knows of the migration
\* does not change.
LEMMA PastSchemaStays ==
  ASSUME CaptureTypeOK, NEW w \in Runs, pc[w] \in PastSchema, [CaptureNext]_allVars
  PROVE  pc'[w] \in PastSchema /\ migration'[w] = migration[w]
<1> USE DEF CaptureTypeOK, Goto, docker, results, PastSchema, HasSchema, Over
<1>1. ASSUME NEW r \in Runs, CaptureStep(r)
      PROVE  pc'[w] \in PastSchema /\ migration'[w] = migration[w]
  <2>1. CASE StartQueries(r) \/ WriteEvents(r) \/ RecordWorkload(r) \/ EndQueries(r)
    BY <2>1 DEF StartQueries, WriteEvents, RecordWorkload, EndQueries
  <2>2. CASE Finish(r) \/ RemoveNetwork(r) \/ SessionContinues(r)
    BY <2>2 DEF Finish, RemoveNetwork, SessionContinues, capture
  <2>3. CASE CreateNetwork(r) \/ StartStage(r) \/ StopDatabase(r) \/ FailStage(r)
               \/ ReportMigration(r) \/ RecordSchema(r)
    <3>1. pc[r] \notin PastSchema /\ UNCHANGED migration
      BY <2>3 DEF CreateNetwork, StartStage, StopDatabase, FailStage, ReportMigration,
        RecordSchema, At
    <3>2. PICK step : Goto(r, step)
      BY <2>3 DEF CreateNetwork, StartStage, StopDatabase, FailStage, ReportMigration, RecordSchema
    <3>3. QED
      BY <3>1, <3>2
  <2>4. CASE RunDatabase(r) \/ JoinDatabase(r) \/ AwaitDatabase(r) \/ Migrate(r)
               \/ Introspect(r) \/ RunTests(r)
    <3>1. pc[r] \notin PastSchema
      BY <2>4 DEF RunDatabase, JoinDatabase, AwaitDatabase, Migrate, Introspect, RunTests, At
    <3>2. \A q \in Runs \ {r} : pc'[q] = pc[q] /\ migration'[q] = migration[q]
      <4>1. CASE RunDatabase(r)
        BY <4>1 DEF RunDatabase, Raise
      <4>2. CASE JoinDatabase(r) \/ AwaitDatabase(r)
        BY <4>2 DEF JoinDatabase, AwaitDatabase, FailDatabase, Raise
      <4>3. CASE Migrate(r)
        BY <4>3 DEF Migrate, Raise
      <4>4. CASE Introspect(r) \/ RunTests(r)
        BY <4>4 DEF Introspect, RunTests, Raise
      <4>5. QED
        BY <2>4, <4>1, <4>2, <4>3, <4>4
    <3>3. QED
      BY <3>1, <3>2
  <2>5. QED
    BY <1>1, <2>1, <2>2, <2>3, <2>4 DEF CaptureStep
<1>2. ASSUME NEW r \in Runs, Interrupt(r) \/ FailToFinish(r) \/ Kill(r)
      PROVE  pc'[w] \in PastSchema /\ migration'[w] = migration[w]
  <2>1. CASE Interrupt(r)
    <3>1. pc' = [pc EXCEPT ![r] = Unwound(pc[r])] /\ UNCHANGED migration
      BY <2>1 DEF Interrupt
    <3>2. pc[w] \notin WithDatabase /\ Unwound(pc[w]) \in {"end", "remove_network"}
      BY DEF WithDatabase, Unwound
    <3>3. QED
      BY <3>1, <3>2
  <2>2. CASE FailToFinish(r) \/ Kill(r)
    BY <2>2 DEF FailToFinish, Kill, Raise
  <2>3. QED
    BY <1>2, <2>1, <2>2
<1>3. CASE ListContainers \/ RemoveListed
  BY <1>3 DEF ListContainers, RemoveListed
<1>4. CASE UNCHANGED allVars
  BY <1>4 DEF allVars, capture
<1>5. QED
  BY <1>1, <1>2, <1>3, <1>4 DEF CaptureNext

\* Only one step writes schema.json.
LEMMA WhoWritesTheSchema ==
  ASSUME TypeOK, [CaptureNext]_allVars
  PROVE  files'[SchemaPath] = files[SchemaPath] \/ \E r \in Runs : RecordSchema(r)
<1>0. SchemaPath \in Shared /\ SchemaPath # WorkloadPath /\ SchemaPath \in Paths
  BY PathsAssumption DEF Paths
<1>1. ASSUME NEW r \in Runs, CaptureStep(r), ~RecordSchema(r)
      PROVE  files'[SchemaPath] = files[SchemaPath]
  <2>1. CASE RecordWorkload(r)
    BY <1>0, <2>1 DEF RecordWorkload, WriteArtifact, TypeOK
  <2>2. CASE Finish(r)
    BY <1>0, <2>2, ResultPathAssumption DEF Finish, WriteResult, TypeOK
  <2>3. CASE StartStage(r) \/ FailStage(r) \/ ReportMigration(r) \/ StartQueries(r) \/ EndQueries(r)
    BY <2>3 DEF StartStage, FailStage, ReportMigration, StartQueries, EndQueries, Transition
  <2>4. CASE SessionContinues(r)
    BY <2>4 DEF SessionContinues, Continue, LogEvent, ListArtifact, WriteManifest, RejectManifest
  <2>5. CASE RunDatabase(r) \/ JoinDatabase(r) \/ AwaitDatabase(r)
    BY <2>5 DEF RunDatabase, JoinDatabase, AwaitDatabase, FailDatabase, Raise, Die, vars
  <2>6. CASE Migrate(r) \/ Introspect(r) \/ RunTests(r)
    BY <2>6 DEF Migrate, Introspect, RunTests, Raise, Die, vars
  <2>7. CASE CreateNetwork(r) \/ StopDatabase(r) \/ WriteEvents(r) \/ RemoveNetwork(r)
    BY <2>7 DEF CreateNetwork, StopDatabase, WriteEvents, RemoveNetwork, vars
  <2>8. QED
    BY <1>1, <2>1, <2>2, <2>3, <2>4, <2>5, <2>6, <2>7 DEF CaptureStep
<1>2. ASSUME NEW r \in Runs, Interrupt(r) \/ FailToFinish(r) \/ Kill(r)
      PROVE  files'[SchemaPath] = files[SchemaPath]
  BY <1>2 DEF Interrupt, FailToFinish, Kill, Raise, Die
<1>3. CASE ListContainers \/ RemoveListed \/ UNCHANGED allVars
  BY <1>3 DEF ListContainers, RemoveListed, allVars, vars
<1>4. QED
  BY <1>1, <1>2, <1>3 DEF CaptureNext

LEMMA SchemaStep ==
  ASSUME TypeOK, CaptureTypeOK, CaptureInv, [CaptureNext]_allVars
  PROVE  SchemaFacts'
<1>1. CASE files'[SchemaPath] = files[SchemaPath]
  <2> SUFFICES ASSUME files'[SchemaPath] # <<>>
               PROVE  LET w == files'[SchemaPath][1][1] IN
                      w \in Runs /\ migration'[w] = "succeeded" /\ pc'[w] \in PastSchema
    BY DEF SchemaFacts
  <2> DEFINE w == files[SchemaPath][1][1]
  <2>1. w \in Runs /\ migration[w] = "succeeded" /\ pc[w] \in PastSchema
    BY <1>1 DEF CaptureInv, SchemaFacts
  <2> HIDE DEF w
  <2>2. migration'[w] = "succeeded" /\ pc'[w] \in PastSchema
    BY <2>1, PastSchemaStays
  <2>3. QED
    BY <1>1, <2>1, <2>2 DEF w
<1>2. ASSUME NEW r \in Runs, RecordSchema(r) PROVE SchemaFacts'
  <2>1. /\ files' = [files EXCEPT ![SchemaPath] = <<NextDocument(r)>>]
        /\ pc' = [pc EXCEPT ![r] = "start_queries"]
        /\ UNCHANGED migration /\ pc[r] = "record_schema"
    BY <1>2 DEF RecordSchema, WriteArtifact, Goto, At, results
  <2>2. migration[r] = "succeeded"
    BY <2>1 DEF CaptureInv, CaptureFacts, PlaceFacts, StageFacts, Steps, Reporting
  <2>3. SchemaPath \in Paths
    BY PathsAssumption DEF Paths
  <2>4. files'[SchemaPath] = <<NextDocument(r)>>
    BY <2>1, <2>3 DEF TypeOK
  <2>5. pc'[r] \in PastSchema
    BY <2>1 DEF CaptureTypeOK, PastSchema, HasSchema
  <2>6. files'[SchemaPath][1][1] = r
    BY <2>4 DEF NextDocument
  <2>7. QED
    BY <2>1, <2>2, <2>5, <2>6 DEF SchemaFacts
<1>3. QED
  BY <1>1, <1>2, WhoWritesTheSchema

(***************************************************************************)
(* The theorems                                                            *)
(***************************************************************************)

LEMMA CaptureTypeOfSession == CaptureSpec => []TypeOK
<1>1. CaptureSpec => Spec
  BY CapturesAreSessions
<1>2. QED
  BY <1>1, TypeCorrect, PTL

\* The variables of a capture keep their types, whatever fails.
THEOREM CaptureTypeCorrect == CaptureSpec => []CaptureTypeOK
<1>1. CaptureInit => CaptureTypeOK
  BY DEF CaptureInit, CaptureTypeOK, Steps, Containers, Outcomes, Coverage
<1>2. QED
  BY <1>1, CaptureTypes, PTL DEF CaptureSpec

LEMMA CaptureInvCorrect == CaptureSpec => []CaptureInv
<1>1. CaptureInit => CaptureInv
  <2> SUFFICES ASSUME CaptureInit PROVE CaptureInv
    OBVIOUS
  <2>0. /\ MigrationSandbox \in Stages /\ QueryCapture \in Stages
        /\ SchemaPath \in Paths
    BY StagesAssumption, PathsAssumption DEF Paths
  <2>1. SchemaFacts
    BY <2>0 DEF CaptureInit, Init, SchemaFacts
  <2>2. ASSUME NEW r \in Runs PROVE CaptureFacts(r)
    <3>1. /\ pc[r] = "create_network" /\ phase[r] = "open" /\ db[r] = "none"
          /\ \A s \in Stages : stages[r][s] = "pending"
          /\ unlogged[r] = <<>> /\ unlisted[r] = <<>> /\ late = {}
      BY DEF CaptureInit, Init
    <3>2. \A p : ~Has(r, p)
      <4>1. Recorded(r) = <<>>
        BY ConcatEmptySeq, EmptySeq DEF CaptureInit, Init, Recorded
      <4>2. QED
        BY <4>1, EmptySeq DEF Has, Recorded
    <3>3. PlaceFacts(r)
      BY <3>1 DEF PlaceFacts, Idle, Steps, SetUp, WithDatabase, Reporting, Over, Quiescent
    <3>4. StageFacts(r)
      BY <2>0, <3>1 DEF StageFacts, WithDatabase, HasSchema
    <3>5. ListFacts(r)
      BY <3>1, <3>2 DEF ListFacts, HasSchema
    <3>6. QED
      BY <3>3, <3>4, <3>5 DEF CaptureFacts
  <2>3. QED
    BY <2>1, <2>2 DEF CaptureInv
<1>2. TypeOK /\ CaptureTypeOK /\ CaptureInv /\ [CaptureNext]_allVars => CaptureInv'
  <2> SUFFICES ASSUME TypeOK, CaptureTypeOK, CaptureInv, [CaptureNext]_allVars PROVE CaptureInv'
    OBVIOUS
  <2>1. SchemaFacts'
    BY SchemaStep
  <2>2. \A q \in Runs : CaptureFacts(q)'
    BY FactsStep DEF CaptureInv
  <2>3. QED
    BY <2>1, <2>2 DEF CaptureInv
<1>3. QED
  BY <1>1, <1>2, CaptureTypeOfSession, CaptureTypeCorrect, PTL DEF CaptureSpec

\* Whatever fails, is interrupted or is cleaned meanwhile: what a capture leaves
\* of docker at its end, one of the named failures left.
THEOREM EndsReleased == CaptureSpec => []ReleasedAtEnd
<1>1. CaptureInv => ReleasedAtEnd
  BY DEF CaptureInv, CaptureFacts, PlaceFacts, DatabaseAccounted, NetworkAccounted, ReleasedAtEnd
<1>2. QED
  BY <1>1, CaptureInvCorrect, PTL

\* No failure, interrupt or concurrent clean leads a capture to ask its session
\* for a transition, a path or a finish that it refuses or should not be asked.
THEOREM UsesSessions == CaptureSpec => []SessionUsedAsMeant
<1>1. CaptureInv => SessionUsedAsMeant
  <2> SUFFICES ASSUME CaptureInv, NEW r \in Runs
               PROVE  /\ r \notin late
                      /\ phase[r] = "open" =>
                           /\ pc[r] = "start_stage" => "running" \in AllowedTransitions(stages[r][MigrationSandbox])
                           /\ pc[r] \in {"fail_stage", "report_migration"} =>
                                {"failed", "complete"} \subseteq AllowedTransitions(stages[r][MigrationSandbox])
                           /\ pc[r] = "record_schema" => ~Has(r, SchemaPath)
                           /\ pc[r] = "start_queries" => "running" \in AllowedTransitions(stages[r][QueryCapture])
                           /\ pc[r] = "record_workload" => ~Has(r, WorkloadPath)
                           /\ pc[r] = "end_queries" => tests[r] \in AllowedTransitions(stages[r][QueryCapture])
                           /\ pc[r] = "finish" => \A s \in Stages : stages[r][s] # "running"
    BY DEF SessionUsedAsMeant
  <2>1. PlaceFacts(r) /\ StageFacts(r) /\ ListFacts(r)
    BY DEF CaptureInv, CaptureFacts
  <2>2. "running" \in AllowedTransitions("pending") /\ AllowedTransitions("running") = Terminal
    BY DEF AllowedTransitions
  <2>3. ASSUME phase[r] = "open", pc[r] = "finish", NEW s \in Stages
        PROVE  stages[r][s] # "running"
    BY <2>1, <2>3 DEF StageFacts, Settled, Tested
  <2>4. pc[r] = "record_schema" => ~Has(r, SchemaPath)
    BY <2>1 DEF ListFacts, PastSchema, HasSchema, Over
  <2>5. pc[r] = "record_workload" => ~Has(r, WorkloadPath)
    BY <2>1 DEF ListFacts, PastWorkload, Over
  <2>6. phase[r] = "open" =>
          /\ pc[r] = "start_stage" => stages[r][MigrationSandbox] = "pending"
          /\ pc[r] \in {"fail_stage", "report_migration"} => stages[r][MigrationSandbox] = "running"
          /\ pc[r] = "start_queries" => stages[r][QueryCapture] = "pending"
          /\ pc[r] = "end_queries" => stages[r][QueryCapture] = "running" /\ tests[r] \in Tested
    BY <2>1 DEF StageFacts, HasSchema, Steps, Reporting
  <2>7. Tested \subseteq Terminal /\ {"failed", "complete"} \subseteq Terminal
    BY DEF Tested, Terminal
  <2>8. r \notin late
    BY <2>1 DEF PlaceFacts
  <2>9. QED
    BY <2>2, <2>3, <2>4, <2>5, <2>6, <2>7, <2>8
<1>2. QED
  BY <1>1, CaptureInvCorrect, PTL

\* What the files of a capture report of its stages, its schema and its workload
\* is so: of any number of captures on one project, stopped anywhere.
THEOREM ReportsAreTrue == CaptureSpec => []ReportIsTrue
<1>1. TypeOK /\ LogInv /\ ManifestInv /\ CaptureInv => ReportIsTrue
  <2> SUFFICES ASSUME TypeOK, LogInv, ManifestInv, CaptureInv PROVE ReportIsTrue
    OBVIOUS
  <2>1. ASSUME NEW r \in Runs, manifest[r] # <<>>
        PROVE  /\ phase[r] = "finished" /\ result[r] = <<stages[r]>> /\ Settled(r)
               /\ \A p : Lists(r, p) <=> Has(r, p)
               /\ StageFacts(r) /\ ListFacts(r)
    <3>0. r \notin late
      BY DEF CaptureInv, CaptureFacts, PlaceFacts
    <3>1. /\ phase[r] = "finished" /\ unlisted[r] = <<>> /\ manifest[r] = entries[r]
          /\ result[r] # <<>>
      BY <2>1, <3>0 DEF ManifestInv, Sealed
    <3>2. result[r] = <<stages[r]>>
      BY <3>0, <3>1 DEF LogInv
    <3>3. StageFacts(r) /\ ListFacts(r)
      BY DEF CaptureInv, CaptureFacts
    <3>4. Settled(r)
      BY <3>1, <3>3 DEF StageFacts
    <3>5. Recorded(r) = manifest[r]
      BY <3>1, ManifestTypes
    <3>6. \A p : Lists(r, p) <=> Has(r, p)
      BY <3>5 DEF Lists, Has, Recorded
    <3>7. QED
      BY <3>1, <3>2, <3>3, <3>4, <3>6
  <2>2. ManifestedStagesEnded
    <3> SUFFICES ASSUME NEW r \in Runs, manifest[r] # <<>>
                 PROVE  /\ \A s \in Stages : result[r][1][s] # "running"
                        /\ Lists(r, SchemaPath) => result[r][1][MigrationSandbox] = "complete"
      BY DEF ManifestedStagesEnded
    <3>1. result[r][1] = stages[r] /\ Settled(r) /\ StageFacts(r) /\ ListFacts(r)
      BY <2>1
    <3>2. /\ stages[r][MigrationSandbox] # "running" /\ stages[r][QueryCapture] # "running"
          /\ \A s \in Stages \ {MigrationSandbox, QueryCapture} : stages[r][s] = "pending"
      BY <3>1 DEF Settled, StageFacts, Tested
    <3>3. Lists(r, SchemaPath) => stages[r][MigrationSandbox] = "complete"
      BY <2>1, <3>1 DEF ListFacts
    <3>4. QED
      BY <3>1, <3>2, <3>3
  <2>3. SchemaIsMigrated
    BY DEF CaptureInv, SchemaFacts, SchemaIsMigrated
  <2>4. WorkloadIsAccountedFor
    <3> SUFFICES ASSUME NEW r \in Runs, Lists(r, WorkloadPath)
                 PROVE  /\ Lists(r, SchemaPath) /\ rawEvents[r]
                        /\ result[r][1][QueryCapture] = tests[r]
      BY DEF WorkloadIsAccountedFor
    <3>1. manifest[r] # <<>>
      BY EmptySeq DEF Lists
    <3>2. result[r][1] = stages[r] /\ Settled(r) /\ ListFacts(r)
      BY <2>1, <3>1
    <3>3. Has(r, WorkloadPath)
      BY <2>1, <3>1
    <3>4. Has(r, SchemaPath) /\ rawEvents[r] /\ stages[r][MigrationSandbox] = "complete"
      BY <3>2, <3>3 DEF ListFacts
    <3>5. Lists(r, SchemaPath)
      BY <2>1, <3>1, <3>4
    <3>6. QED
      BY <3>2, <3>4, <3>5 DEF Settled
  <2>5. QED
    BY <2>2, <2>3, <2>4 DEF ReportIsTrue
<1>2. CaptureSpec => [](LogInv /\ ManifestInv)
  <2>1. CaptureSpec => Spec
    BY CapturesAreSessions
  <2>2. QED
    BY <2>1, LogInvCorrect, ManifestInvCorrect, PTL
<1>3. QED
  BY <1>1, <1>2, CaptureTypeOfSession, CaptureInvCorrect, PTL

=============================================================================
