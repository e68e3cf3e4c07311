----------------------------- MODULE CleanRuns -----------------------------
(***************************************************************************)
(* clean --runs (cli/commands/clean.py) beside the runs of RunSession: it  *)
(* lists every directory under runs/, those of runs that are under way     *)
(* included, asks, and removes them file by file.  A run does not notice:  *)
(* each of its writes makes the directory again, and none of them depends  *)
(* on what is there.  So the variables of RunSession keep what a run has   *)
(* written, and "lost" says what of it a clean has removed since.          *)
(***************************************************************************)
EXTENDS RunSession

CONSTANT MaxCleans    \* bound: calls of clean

ASSUME MaxCleansAssumption == MaxCleans \in Nat

VARIABLES
  cleans,    \* calls of clean so far
  stale,     \* the directories the clean under way has listed and not yet removed
  lost,      \* lost[r]: events of the log, and files, that are not on disk any more
  underway,  \* history: the runs a clean has removed something of while they went on
  removed    \* history: the runs whose directory a clean has removed

cleaner == <<cleans, stale, lost, underway, removed>>
cleanVars == <<vars, cleaner>>

NothingLost == [events |-> 0, result |-> FALSE, manifest |-> FALSE]

(***************************************************************************)
(* What is on disk                                                         *)
(***************************************************************************)

Log(r) == SubSeq(events[r], lost[r].events + 1, Len(events[r]))
HasResult(r) == result[r] # <<>> /\ ~lost[r].result
HasManifest(r) == manifest[r] # <<>> /\ ~lost[r].manifest

\* A directory is there from the first write on until it is removed.
HasFiles(r) == Log(r) # <<>> \/ HasResult(r) \/ HasManifest(r)

UnderWay(r) == phase[r] \in {"open", "finishing"}

InitClean ==
  /\ Init
  /\ cleans = 0 /\ stale = {} /\ underway = {} /\ removed = {}
  /\ lost = [r \in Runs |-> NothingLost]

CleanTypeOK ==
  /\ TypeOK
  /\ cleans \in 0..MaxCleans
  /\ stale \cup underway \cup removed \subseteq Runs
  /\ lost \in [Runs -> [events : Nat, result : BOOLEAN, manifest : BOOLEAN]]

(***************************************************************************)
(* clean --runs                                                            *)
(***************************************************************************)

\* _stale_run_dirs: whatever is under runs/.
ListRuns ==
  /\ stale = {} /\ cleans < MaxCleans
  /\ cleans' = cleans + 1
  /\ stale' = {r \in Runs : HasFiles(r)}
  /\ UNCHANGED <<vars, lost, underway, removed>>

\* The user declines, or the process ends before or in a removal: an OSError
\* when a run puts a file into the directory that is being removed.
StopClean ==
  /\ stale # {}
  /\ stale' = {}
  /\ UNCHANGED <<vars, cleans, lost, underway, removed>>

Lose(r, files_) ==
  /\ r \in stale
  /\ lost' = [lost EXCEPT ![r] = files_]
  /\ underway' = IF UnderWay(r) THEN underway \cup {r} ELSE underway
  /\ UNCHANGED <<vars, cleans, stale, removed>>

\* rmtree removes the files one by one, in no order to rely on.
RemoveLog(r) == Log(r) # <<>> /\ Lose(r, [lost[r] EXCEPT !.events = Len(events[r])])
RemoveResult(r) == HasResult(r) /\ Lose(r, [lost[r] EXCEPT !.result = TRUE])
RemoveManifest(r) == HasManifest(r) /\ Lose(r, [lost[r] EXCEPT !.manifest = TRUE])

\* (fault) a directory counts as removed with a file in it.
RemoveDirectory_Any(r) ==
  /\ r \in stale
  /\ stale' = stale \ {r} /\ removed' = removed \cup {r}
  /\ UNCHANGED <<vars, cleans, lost, underway>>

\* ... and then the directory, which must be empty.
RemoveDirectory(r) ==
  /\ r \in stale /\ ~HasFiles(r)
  /\ stale' = stale \ {r} /\ removed' = removed \cup {r}
  /\ UNCHANGED <<vars, cleans, lost, underway>>

Clean ==
  \/ ListRuns \/ StopClean
  \/ \E r \in Runs : RemoveLog(r) \/ RemoveResult(r) \/ RemoveManifest(r) \/ RemoveDirectory(r)

\* A step of a run: a result that is written again is there again.
RunStep ==
  /\ Next
  /\ lost' = [r \in Runs |->
                IF files'[ResultPath(r)] # files[ResultPath(r)]
                  THEN [lost[r] EXCEPT !.result = FALSE] ELSE lost[r]]
  /\ UNCHANGED <<cleans, stale, underway, removed>>

NextClean == RunStep \/ Clean

SpecClean == InitClean /\ [][NextClean]_cleanVars

(***************************************************************************)
(* Property                                                                *)
(***************************************************************************)

\* The log that is left never contradicts the result that is left: it ends, for
\* every stage it still knows, with the status in the result, and knows every
\* stage unless a clean removed events of it.
NeverContradicts(r) ==
  HasResult(r) => \A s \in Stages :
    LET last == {k \in DOMAIN Log(r) : /\ Log(r)[k].stage = s
                                       /\ \A j \in DOMAIN Log(r) : j > k => Log(r)[j].stage # s}
    IN  /\ \A k \in last : Log(r)[k].kind = result[r][1][s]
        /\ last = {} => result[r][1][s] = "pending" \/ lost[r].events > 0

\* Whatever a clean removes, and under whichever run, what remains is no lie; and
\* nothing remains, or comes again, of a run that had ended when its directory
\* was removed (clean.py:27-30, 82-93).  A run that is under way does come again,
\* to a directory that lacks what it had written before, and so does one that
\* goes on after its finish.
CleanedRunsAreConsistent ==
  /\ \A r \in Runs \ late : NeverContradicts(r)
  /\ \A r \in removed \ (underway \cup late) : ~HasFiles(r)
=============================================================================
