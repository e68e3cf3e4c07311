---------------------------- MODULE AtomicWrite ----------------------------
(***************************************************************************)
(* write_bytes_atomic (store/atomic.py): the system calls it makes, for    *)
(* any number of concurrent writers of one path (the threads of the local  *)
(* API, several CLI runs), with exceptions, killed processes and power     *)
(* losses between any two of them.  A file is named by the order in which  *)
(* mkstemp created it; file 0 is what the path held before.                *)
(***************************************************************************)
EXTENDS Naturals, Sequences, FiniteSets

CONSTANTS
  Writers,     \* concurrent callers of write_bytes_atomic
  MaxFiles     \* bound: temporary files created in a behaviour

ASSUME MaxFilesAssumption == MaxFiles \in Nat

VARIABLES
  progress,    \* what each writer has done of its current write
  temp,        \* the file a writer is preparing
  created,     \* files created so far
  content,     \* what a read of the file returns
  synced,      \* files whose data an fsync has reached
  tempNames,   \* files that a temporary name points to
  renames,     \* files renamed onto the path, in order
  onDisk,      \* renames[1..onDisk] are in the directory on disk
  returned,    \* files whose writer returned without an exception
  orphaned     \* files whose writer died while preparing them

writeVars ==
  <<progress, temp, created, content, synced, tempNames, renames, onDisk, returned, orphaned>>

Files == 1..MaxFiles
Preparing == {"created", "written", "flushed", "moded"}

WriteTypeOK ==
  /\ progress \in [Writers -> Preparing \cup {"idle", "renamed"}]
  /\ temp \in [Writers -> 0..MaxFiles]
  /\ created \in 0..MaxFiles
  /\ content \in [Files -> {"torn", "whole"}]
  /\ synced \subseteq Files
  /\ tempNames \subseteq Files
  /\ renames \in Seq(Files)
  /\ onDisk \in 0..Len(renames)
  /\ returned \subseteq Files
  /\ orphaned \subseteq Files

WriteInit ==
  /\ progress = [w \in Writers |-> "idle"]
  /\ temp = [w \in Writers |-> 0]
  /\ created = 0
  /\ content = [f \in Files |-> "torn"]
  /\ synced = {}
  /\ tempNames = {}
  /\ renames = <<>>
  /\ onDisk = 0
  /\ returned = {}
  /\ orphaned = {}

(***************************************************************************)
(* The steps of one write                                                  *)
(***************************************************************************)

\* (fault) a fixed temporary name: every writer opens, and truncates, the same file.
MakeTemp_FixedName(w) ==
  /\ progress[w] = "idle"
  /\ created < MaxFiles
  /\ created' = created + 1
  /\ temp' = [temp EXCEPT ![w] = 1]
  /\ tempNames' = tempNames \cup {1}
  /\ content' = [content EXCEPT ![1] = "torn"]
  /\ progress' = [progress EXCEPT ![w] = "created"]
  /\ UNCHANGED <<synced, renames, onDisk, returned, orphaned>>

\* mkstemp: a fresh, empty file in the directory of the path.
MakeTemp(w) ==
  /\ progress[w] = "idle"
  /\ created < MaxFiles
  /\ created' = created + 1
  /\ temp' = [temp EXCEPT ![w] = created + 1]
  /\ tempNames' = tempNames \cup {created + 1}
  /\ progress' = [progress EXCEPT ![w] = "created"]
  /\ UNCHANGED <<content, synced, renames, onDisk, returned, orphaned>>

\* handle.write and flush: until they return the file holds a part of the data.
WriteData(w) ==
  /\ progress[w] = "created"
  /\ content' = [content EXCEPT ![temp[w]] = "whole"]
  /\ progress' = [progress EXCEPT ![w] = "written"]
  /\ UNCHANGED <<temp, created, synced, tempNames, renames, onDisk, returned, orphaned>>

\* (fault) the file is renamed without its fsync.
FsyncFile_Skipped(w) ==
  /\ progress[w] = "written"
  /\ progress' = [progress EXCEPT ![w] = "flushed"]
  /\ UNCHANGED <<temp, created, content, synced, tempNames, renames, onDisk, returned, orphaned>>

FsyncFile(w) ==
  /\ progress[w] = "written"
  /\ synced' = synced \cup {temp[w]}
  /\ progress' = [progress EXCEPT ![w] = "flushed"]
  /\ UNCHANGED <<temp, created, content, tempNames, renames, onDisk, returned, orphaned>>

Chmod(w) ==
  /\ progress[w] = "flushed"
  /\ progress' = [progress EXCEPT ![w] = "moded"]
  /\ UNCHANGED <<temp, created, content, synced, tempNames, renames, onDisk, returned, orphaned>>

\* os.replace: the path names the new file; the temporary name is gone.
Replace(w) ==
  /\ progress[w] = "moded"
  /\ renames' = Append(renames, temp[w])
  /\ tempNames' = tempNames \ {temp[w]}
  /\ progress' = [progress EXCEPT ![w] = "renamed"]
  /\ UNCHANGED <<temp, created, content, synced, onDisk, returned, orphaned>>

\* (fault) the directory is never fsynced.
FsyncDirectory_Skipped(w) ==
  /\ progress[w] = "renamed"
  /\ returned' = returned \cup {temp[w]}
  /\ progress' = [progress EXCEPT ![w] = "idle"]
  /\ temp' = [temp EXCEPT ![w] = 0]
  /\ UNCHANGED <<created, content, synced, tempNames, renames, onDisk, orphaned>>

\* _fsync_directory makes every rename so far durable, and the call returns.
FsyncDirectory(w) ==
  /\ progress[w] = "renamed"
  /\ onDisk' = Len(renames)
  /\ returned' = returned \cup {temp[w]}
  /\ progress' = [progress EXCEPT ![w] = "idle"]
  /\ temp' = [temp EXCEPT ![w] = 0]
  /\ UNCHANGED <<created, content, synced, tempNames, renames, orphaned>>

(***************************************************************************)
(* Failures                                                                *)
(***************************************************************************)

\* (fault) no except clause: the exception passes and the file stays.
RaiseWrite_NoUnlink(w) ==
  /\ progress[w] \in Preparing
  /\ progress' = [progress EXCEPT ![w] = "idle"]
  /\ temp' = [temp EXCEPT ![w] = 0]
  /\ UNCHANGED <<created, content, synced, tempNames, renames, onDisk, returned, orphaned>>

\* Any exception up to the rename, a KeyboardInterrupt too: the temporary
\* file is unlinked and the exception goes on to the caller.
RaiseWrite(w) ==
  /\ progress[w] \in Preparing
  /\ tempNames' = tempNames \ {temp[w]}
  /\ progress' = [progress EXCEPT ![w] = "idle"]
  /\ temp' = [temp EXCEPT ![w] = 0]
  /\ UNCHANGED <<created, content, synced, renames, onDisk, returned, orphaned>>

\* The process is killed, or _fsync_directory itself raises.
Abandon(w) ==
  /\ progress[w] # "idle"
  /\ progress' = [progress EXCEPT ![w] = "idle"]
  /\ temp' = [temp EXCEPT ![w] = 0]
  /\ orphaned' = orphaned \cup ({temp[w]} \cap tempNames)
  /\ UNCHANGED <<created, content, synced, tempNames, renames, onDisk, returned>>

\* Renames that had not reached the disk are undone from the latest back, and
\* data that no fsync reached may be torn.
PowerLoss ==
  /\ progress' = [w \in Writers |-> "idle"]
  /\ temp' = [w \in Writers |-> 0]
  /\ \E k \in onDisk..Len(renames) :
       /\ renames' = SubSeq(renames, 1, k)
       /\ onDisk' = k
       /\ tempNames' = tempNames \cup {renames[j] : j \in (k + 1)..Len(renames)}
  /\ \E lost \in SUBSET (Files \ synced) :
       content' = [f \in Files |-> IF f \in lost THEN "torn" ELSE content[f]]
  /\ orphaned' = orphaned \cup tempNames'
  /\ UNCHANGED <<created, synced, returned>>

WriteNext ==
  \/ \E w \in Writers :
       \/ MakeTemp(w) \/ WriteData(w) \/ FsyncFile(w) \/ Chmod(w)
       \/ Replace(w) \/ FsyncDirectory(w) \/ RaiseWrite(w) \/ Abandon(w)
  \/ PowerLoss

WriteSpec == WriteInit /\ [][WriteNext]_writeVars

(***************************************************************************)
(* Properties                                                              *)
(***************************************************************************)

\* Any file a reader can find at the path, now or after a power loss, is a
\* whole document whose bytes are on disk ("never a torn mix", atomic.py:3-6).
PathHoldsWholeFiles ==
  \A k \in DOMAIN renames : content[renames[k]] = "whole" /\ renames[k] \in synced

\* A write that returned is in the part of the directory's history that no
\* power loss takes back (the directory fsync of atomic.py:40).
ReturnedWritesSurvive ==
  \A f \in returned : \E k \in 1..onDisk : renames[k] = f

\* An exception leaves nothing behind: a temporary file that no writer is
\* preparing had a writer that died (the except clause of atomic.py:37-39).
OnlyDeathLeavesTemps ==
  tempNames \subseteq {temp[w] : w \in Writers} \cup orphaned

\* The path of a reader is what DurableFile says of it.
AtPath(f) == IF content[f] = "whole" /\ f \in synced THEN f ELSE 0
File == INSTANCE DurableFile WITH
          Documents <- Files,
          history <- [k \in 1..Len(renames) |-> AtPath(renames[k])],
          durable <- onDisk,
          promised <- returned
ImplementsDurableFile == File!Spec
=============================================================================
