---------------------------- MODULE Reproduction ----------------------------
(***************************************************************************)
(* reproduce_bundle (adapters/proof/reproduce.py): the bundle that is read *)
(* while others write and edit it (ProofBundle), its schema and dataset    *)
(* applied to a database that nothing ever empties, its query measured     *)
(* again, and the new measurement compared with the recorded one.          *)
(***************************************************************************)
EXTENDS ProofBundle

CONSTANTS
  ParametersFile, DatasetFile, EvidenceFile,   \* files by their role: schema.sql goes
                                               \* with the dataset, the plans with the evidence
  Traits    \* what may be so of the bundles: version (this tool reads its
            \* schema_version), bindable (each parameter has a value to bind), faster
            \* (the recorded treatment was faster than the control)

\* parameters.json and dataset.yaml are written, and read again, of every bundle.
ASSUME RolesAssumption ==
  /\ EvidenceFile \in Files
  /\ {ParametersFile, DatasetFile} \subseteq Fixed
ASSUME TraitsAssumption ==
  Traits \subseteq [Bundles -> [version : BOOLEAN, bindable : BOOLEAN, faster : BOOLEAN]]

VARIABLES
  traits,    \* of each bundle; they never change
  step,      \* "idle", "read", "schema", "dataset", "measure"
  database,  \* what was applied to it, in order
  verdict,   \* its ReproductionResult; <<>> without one
  intact     \* history: nothing changed the directory during the last read

reproduction == <<traits, step, database, verdict, intact>>
allVars == <<vars, reproduction>>

Unknown == "none"
Known == {"yes", "no"}
Fact(holds) == IF holds THEN "yes" ELSE "no"

\* matches and plan may be None.
Result(tampered, version, parameters, matches, plan, stable, reproduced) ==
  <<[tampered |-> tampered, version |-> version, parameters |-> parameters,
     matches |-> matches, plan |-> plan, stable |-> stable, reproduced |-> reproduced]>>

ReproductionTypeOK ==
  /\ TypeOK
  /\ traits \in Traits
  /\ step \in {"idle", "read", "schema", "dataset", "measure"}
  /\ database \in Seq([content : Contents, complete : BOOLEAN])
  /\ intact \in BOOLEAN

InitReproduction ==
  /\ Init
  /\ traits \in Traits
  /\ step = "idle" /\ database = <<>> /\ verdict = <<>> /\ intact = FALSE

\* Everything is read before anything else happens.
StartReproduction ==
  /\ step = "idle"
  /\ StartRead
  /\ step' = "read" /\ verdict' = <<>>
  /\ UNCHANGED <<traits, database, intact>>

\* The parameters that were loaded; those of an edited file can be anything.
Bindable ==
  LET content == reader.loaded[ParametersFile] IN
  IF content \in Bundles THEN {traits[content].bindable} ELSE BOOLEAN

\* (fault) a bundle of another version is measured like any other.
JudgeBundle_AnyVersion ==
  /\ step = "read" /\ ~Reading
  /\ intact' = ~disturbed
  /\ \/ reader.state = "raised" /\ step' = "idle" /\ UNCHANGED verdict
     \/ /\ reader.state = "refused" /\ step' = "idle"
        /\ verdict' = Result(TRUE, FALSE, FALSE, Unknown, Unknown, Unknown, FALSE)
     \/ /\ reader.state = "trusted"
        /\ \E bindable \in Bindable :
             IF bindable THEN step' = "schema" /\ UNCHANGED verdict
             ELSE /\ step' = "idle"
                  /\ verdict' = Result(FALSE, TRUE, FALSE, Unknown, Unknown, Unknown, FALSE)
  /\ UNCHANGED <<vars, traits, database>>

\* What read_proof_bundle returned decides whether there is anything to run.
JudgeBundle ==
  /\ step = "read" /\ ~Reading
  /\ intact' = ~disturbed
  /\ \/ reader.state = "raised" /\ step' = "idle" /\ UNCHANGED verdict
     \/ /\ reader.state = "refused" /\ step' = "idle"
        /\ verdict' = Result(TRUE, FALSE, FALSE, Unknown, Unknown, Unknown, FALSE)
     \/ /\ reader.state = "trusted" /\ ~traits[reader.manifest].version
        /\ step' = "idle"
        /\ verdict' = Result(FALSE, FALSE, FALSE, Unknown, Unknown, Unknown, FALSE)
     \/ /\ reader.state = "trusted" /\ traits[reader.manifest].version
        /\ \E bindable \in Bindable :
             IF bindable THEN step' = "schema" /\ UNCHANGED verdict
             ELSE /\ step' = "idle"
                  /\ verdict' = Result(FALSE, TRUE, FALSE, Unknown, Unknown, Unknown, FALSE)
  /\ UNCHANGED <<vars, traits, database>>

Dataset == reader.loaded[DatasetFile]

\* _apply_dataset, first half: the schema is committed. It fails when its
\* tables are there already.
ApplySchema ==
  /\ step = "schema"
  /\ \/ /\ \A k \in DOMAIN database : database[k].content # Dataset
        /\ database' = Append(database, [content |-> Dataset, complete |-> FALSE])
        /\ step' = "dataset"
     \/ /\ Dataset \notin Bundles \/ \E k \in DOMAIN database : database[k].content = Dataset
        /\ step' = "idle" /\ UNCHANGED database
  /\ UNCHANGED <<vars, traits, verdict, intact>>

\* Second half: a dataset.yaml that is no mapping, or a row the database
\* refuses, ends the reproduction and leaves the schema.
LoadDataset ==
  /\ step = "dataset"
  /\ \/ /\ Dataset # Empty
        /\ database' = [database EXCEPT ![Len(database)].complete = TRUE]
        /\ step' = "measure"
     \/ step' = "idle" /\ UNCHANGED database
  /\ UNCHANGED <<vars, traits, verdict, intact>>

\* _original_direction: nothing is known without both arms.
OriginalDirection ==
  LET content == reader.loaded[EvidenceFile] IN
  CASE content \in Bundles -> {Fact(traits[content].faster)}
    [] content = Missing -> {Unknown}
    [] OTHER -> Known \cup {Unknown}

\* (fault) a direction that is not known does not speak against the bundle.
Evaluate_UnknownMatches(faster, stable, plan) ==
  \E original \in OriginalDirection :
    LET matches == IF original = Unknown THEN Unknown ELSE Fact(original = Fact(faster)) IN
    verdict' = Result(FALSE, TRUE, TRUE, matches, plan, Fact(stable),
                      matches # "no" /\ stable /\ plan # "no")

\* _evaluate
Evaluate(faster, stable, plan) ==
  \E original \in OriginalDirection :
    LET matches == IF original = Unknown THEN Unknown ELSE Fact(original = Fact(faster)) IN
    verdict' = Result(FALSE, TRUE, TRUE, matches, plan, Fact(stable),
                      matches = "yes" /\ stable /\ plan # "no")

\* How the new plan compares with the recorded one, if there is one.
Plans == IF reader.loaded[EvidenceFile] = Missing THEN {Unknown} ELSE Known \cup {Unknown}

\* run_experiment raises, or has a result with or without a conclusion; the
\* ratio of one without all three arms is None, which counts as not faster.
Measure ==
  /\ step = "measure"
  /\ step' = "idle"
  /\ \/ \E faster, stable \in BOOLEAN :
          \E plan \in Plans : Evaluate(faster, stable, plan)
     \/ UNCHANGED verdict
  /\ UNCHANGED <<vars, traits, database, intact>>

\* Writers, editors and the read itself.
Directory ==
  /\ \/ \E b \in Bundles : StartWrite(b)
     \/ OpenFile \/ FillFile \/ WriterDies
     \/ EditManifest \/ \E n \in Files : Edit(n) \/ Hash(n) \/ Load(n)
     \/ Judge \/ Return
  /\ UNCHANGED reproduction

NextReproduction ==
  \/ Directory
  \/ StartReproduction \/ JudgeBundle \/ ApplySchema \/ LoadDataset \/ Measure

SpecReproduction == InitReproduction /\ [][NextReproduction]_allVars

(***************************************************************************)
(* Property                                                                *)
(***************************************************************************)

\* A bundle that nobody touched during the read, with proof.yaml as its writer
\* left it, is only called reproduced when it is of a version this tool reads, has
\* the values of its parameters, has recorded a direction, and was measured on its
\* own dataset, complete and loaded once, into a database that held no other
\* attempt at it; whatever an earlier reproduction left there.
ReproducedIsEarned ==
  verdict # <<>> /\ verdict[1].reproduced /\ intact /\ reader.hashes = HashesOf(reader.manifest) =>
    LET b == reader.manifest IN
    /\ traits[b].version /\ traits[b].bindable /\ EvidenceFile \in Declared[b]
    /\ {k \in DOMAIN database : database[k].content = b} = {Len(database)}
    /\ database[Len(database)].complete
=============================================================================
