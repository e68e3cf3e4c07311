---------------------------- MODULE ProofBundle ----------------------------
(***************************************************************************)
(* A proof bundle directory (adapters/proof/bundle.py): write_proof_bundle *)
(* file by file, proof.yaml last; read_proof_bundle, which hashes every    *)
(* declared file and then reads it again; and the user's own edits.  Each  *)
(* write_text truncates its file and then fills it.  A file's content is   *)
(* the bundle that wrote it, and stands for its hash.                      *)
(***************************************************************************)
EXTENDS Naturals, Sequences

CONSTANTS
  Bundles,       \* the bundles a writer may write to the directory
  Names,         \* every file but the manifest, in the order they are written, and
                 \* but README.md, which is hashed and not read again
  Declared,      \* Declared[b]: the files of bundle b
  Fixed,         \* those that are read again whatever proof.yaml declares
  MaxWrites,     \* bound: calls of write_proof_bundle
  MaxReads,      \* bound: calls of read_proof_bundle
  MaxEdits       \* bound: files the user edits or deletes

Files == {Names[k] : k \in DOMAIN Names}
Missing == "missing"
Empty == "empty"
Foreign == "foreign"    \* a content that no bundle wrote; of proof.yaml, one that is
                        \* no YAML or lacks a field
Undecodable == "undecodable"    \* one that is not UTF-8

ASSUME NamesAssumption ==
  Names \in Seq(Files) /\ \A j, k \in DOMAIN Names : Names[j] = Names[k] => j = k
ASSUME BundlesAssumption == {Missing, Empty, Foreign, Undecodable} \cap Bundles = {}
ASSUME DeclaredAssumption ==
  Declared \in [Bundles -> SUBSET Files] /\ \A b \in Bundles : Fixed \subseteq Declared[b]
ASSUME FixedAssumption == Fixed \subseteq Files
ASSUME BoundsAssumption == MaxWrites \in Nat /\ MaxReads \in Nat /\ MaxEdits \in Nat

VARIABLES
  file,       \* what each file of the directory holds
  manifest,   \* the bundle that proof.yaml names; Empty: it is no mapping
  hashes,     \* the hash it declares of each file; Missing: none
  writes,     \* writes begun
  writer,     \* the write that is under way
  reads,      \* reads begun
  reader,     \* the read that is under way, or its result
  edits,      \* edits so far
  edited,     \* history: files edited since they were last written
  disturbed   \* history: no read was begun since the directory changed

vars == <<file, manifest, hashes, writes, writer, reads, reader, edits, edited, disturbed>>

Contents == Bundles \cup {Missing, Empty, Foreign, Undecodable}
Hashes == Bundles \cup {Missing, Foreign}

\* The writer is about to write Names[at], or the manifest when at is past the
\* end; "open" once write_text has truncated that file.
Idle == [bundle |-> Missing, at |-> 0, open |-> FALSE]
Manifest == Len(Names) + 1

\* loaded[n]: what the second read of n returned; Missing before.
Unread == [n \in Files |-> Missing]

NoHashes == [n \in Files |-> Missing]
HashesOf(b) == [n \in Files |-> IF n \in Declared[b] THEN b ELSE Missing]
HashedBy(h) == {n \in Files : h[n] # Missing}

\* What is read again, once every file has the hash that h declares of it.
ReadAgain(h) == Fixed \cup HashedBy(h)

Writers == [bundle : Bundles, at : 1..Manifest, open : BOOLEAN]
Readers == [state : {"none", "hashing", "loading", "trusted", "refused", "raised"},
            manifest : Bundles \cup {Missing}, hashes : [Files -> Hashes], left : SUBSET Files,
            problem : BOOLEAN, loaded : [Files -> Contents]]

TypeOK ==
  /\ file \in [Files -> Contents]
  /\ manifest \in Contents /\ hashes \in [Files -> Hashes]
  /\ writes \in 0..MaxWrites /\ reads \in 0..MaxReads /\ edits \in 0..MaxEdits
  /\ writer \in {Idle} \cup Writers
  /\ reader \in Readers
  /\ reader.state \in {"hashing", "loading", "trusted"} => reader.manifest \in Bundles
  /\ edited \subseteq Files
  /\ disturbed \in BOOLEAN

Init ==
  /\ file = [n \in Files |-> Missing]
  /\ manifest = Missing /\ hashes = NoHashes
  /\ writes = 0 /\ writer = Idle
  /\ reads = 0
  /\ reader = [state |-> "none", manifest |-> Missing, hashes |-> NoHashes, left |-> {},
               problem |-> FALSE, loaded |-> Unread]
  /\ edits = 0 /\ edited = {}
  /\ disturbed = TRUE

Reading == reader.state \in {"hashing", "loading"}
Disturb == disturbed' = TRUE

(***************************************************************************)
(* write_proof_bundle                                                      *)
(***************************************************************************)

\* j is the first file of b from position k on, or the manifest after the last one.
NextFile(b, k, j) ==
  /\ j # Manifest => Names[j] \in Declared[b]
  /\ \A i \in k..(j - 1) : Names[i] \notin Declared[b]

\* (fault) the manifest goes first.
StartWrite_ManifestFirst(b) ==
  /\ writer = Idle /\ writes < MaxWrites
  /\ writes' = writes + 1
  /\ manifest' = b /\ hashes' = HashesOf(b)
  /\ \E j \in 1..Manifest :
       NextFile(b, 1, j) /\ writer' = [bundle |-> b, at |-> j, open |-> FALSE]
  /\ Disturb
  /\ UNCHANGED <<file, reads, reader, edits, edited>>

\* The directories exist already when the bundle is written again; nothing is
\* removed from them.
StartWrite(b) ==
  /\ writer = Idle /\ writes < MaxWrites
  /\ writes' = writes + 1
  /\ \E j \in 1..Manifest :
       NextFile(b, 1, j) /\ writer' = [bundle |-> b, at |-> j, open |-> FALSE]
  /\ UNCHANGED <<file, manifest, hashes, reads, reader, edits, edited, disturbed>>

\* write_text opens the file, which truncates it.
OpenFile ==
  /\ writer # Idle /\ ~writer.open
  /\ writer' = [writer EXCEPT !.open = TRUE]
  /\ IF writer.at = Manifest
     THEN manifest' = Empty /\ hashes' = NoHashes /\ UNCHANGED <<file, edited>>
     ELSE /\ file' = [file EXCEPT ![Names[writer.at]] = Empty]
          /\ edited' = edited \ {Names[writer.at]}
          /\ UNCHANGED <<manifest, hashes>>
  /\ Disturb
  /\ UNCHANGED <<writes, reads, reader, edits>>

\* ... and fills it.
FillFile ==
  /\ writer # Idle /\ writer.open
  /\ IF writer.at = Manifest
     THEN /\ manifest' = writer.bundle /\ hashes' = HashesOf(writer.bundle)
          /\ writer' = Idle /\ UNCHANGED file
     ELSE /\ file' = [file EXCEPT ![Names[writer.at]] = writer.bundle]
          /\ \E j \in (writer.at + 1)..Manifest :
               /\ NextFile(writer.bundle, writer.at + 1, j)
               /\ writer' = [writer EXCEPT !.at = j, !.open = FALSE]
          /\ UNCHANGED <<manifest, hashes>>
  /\ Disturb
  /\ UNCHANGED <<writes, reads, reader, edits, edited>>

\* The writer's process dies, or a write raises.
WriterDies ==
  /\ writer # Idle
  /\ writer' = Idle
  /\ UNCHANGED <<file, manifest, hashes, writes, reads, reader, edits, edited, disturbed>>

\* The user edits a file, in whatever encoding, or deletes it.
Edit(n) ==
  /\ edits < MaxEdits
  /\ file[n] # Missing
  /\ edits' = edits + 1
  /\ \E c \in {Foreign, Undecodable, Missing} : file' = [file EXCEPT ![n] = c]
  /\ edited' = edited \cup {n}
  /\ Disturb
  /\ UNCHANGED <<manifest, hashes, writes, writer, reads, reader>>

\* ... or proof.yaml: the whole of it, or the entry of one file, to the hash of
\* what the file was edited to or to none. Its other fields stay.
EditManifest ==
  /\ edits < MaxEdits
  /\ manifest # Missing
  /\ edits' = edits + 1
  /\ \/ manifest' \in Contents \ Bundles /\ hashes' = NoHashes
     \/ /\ manifest \in Bundles /\ UNCHANGED manifest
        /\ \E n \in HashedBy(hashes), h \in {Foreign, Missing} : hashes' = [hashes EXCEPT ![n] = h]
  /\ Disturb
  /\ UNCHANGED <<file, writes, writer, reads, reader, edited>>

(***************************************************************************)
(* read_proof_bundle                                                       *)
(***************************************************************************)

\* proof.yaml is missing, is not what it should be, or says what to hash.
\* Neither the UnicodeDecodeError of _read_text nor the TypeError of looking for
\* a field in None or in a number is caught.
StartRead ==
  /\ ~Reading /\ reads < MaxReads
  /\ reads' = reads + 1
  /\ disturbed' = FALSE
  /\ reader' = [state |-> CASE manifest \in {Missing, Foreign} -> "refused"
                            [] manifest \in {Empty, Undecodable} -> "raised"
                            [] OTHER -> "hashing",
                manifest |-> IF manifest \in Bundles THEN manifest ELSE Missing,
                hashes |-> hashes, left |-> HashedBy(hashes),
                problem |-> FALSE, loaded |-> Unread]
  /\ UNCHANGED <<file, manifest, hashes, writes, writer, edits, edited>>

\* (fault) a missing file is not a problem.
Hash_SkipsMissing(n) ==
  /\ reader.state = "hashing" /\ n \in reader.left
  /\ \/ /\ file[n] # Undecodable
        /\ reader' = [reader EXCEPT !.left = @ \ {n},
                                    !.problem = @ \/ file[n] \notin {reader.hashes[n], Missing}]
     \/ /\ file[n] = Undecodable
        /\ reader' = [reader EXCEPT !.state = "raised"]
  /\ UNCHANGED <<file, manifest, hashes, writes, writer, reads, edits, edited, disturbed>>

\* One declared file is hashed: it is a problem when it is missing or has
\* another hash, and what cannot be decoded raises.
Hash(n) ==
  /\ reader.state = "hashing" /\ n \in reader.left
  /\ \/ /\ file[n] # Undecodable
        /\ reader' = [reader EXCEPT !.left = @ \ {n},
                                    !.problem = @ \/ file[n] # reader.hashes[n]]
     \/ /\ file[n] = Undecodable
        /\ reader' = [reader EXCEPT !.state = "raised"]
  /\ UNCHANGED <<file, manifest, hashes, writes, writer, reads, edits, edited, disturbed>>

\* Any problem at all refuses the bundle.
Judge ==
  /\ reader.state = "hashing" /\ reader.left = {}
  /\ reader' = IF reader.problem THEN [reader EXCEPT !.state = "refused"]
               ELSE [reader EXCEPT !.state = "loading", !.left = ReadAgain(reader.hashes)]
  /\ UNCHANGED <<file, manifest, hashes, writes, writer, reads, edits, edited, disturbed>>

\* The file is read again; it raises when it is gone, or when it does not
\* decode or parse.
Load(n) ==
  /\ reader.state = "loading" /\ n \in reader.left
  /\ \/ /\ file[n] \notin {Missing, Undecodable}
        /\ reader' = [reader EXCEPT !.left = @ \ {n}, !.loaded[n] = file[n]]
     \/ /\ file[n] \notin Bundles
        /\ reader' = [reader EXCEPT !.state = "raised"]
  /\ UNCHANGED <<file, manifest, hashes, writes, writer, reads, edits, edited, disturbed>>

Return ==
  /\ reader.state = "loading" /\ reader.left = {}
  /\ reader' = [reader EXCEPT !.state = "trusted"]
  /\ UNCHANGED <<file, manifest, hashes, writes, writer, reads, edits, edited, disturbed>>

Next ==
  \/ \E b \in Bundles : StartWrite(b)
  \/ OpenFile \/ FillFile \/ WriterDies
  \/ EditManifest \/ \E n \in Files : Edit(n)
  \/ StartRead \/ \E n \in Files : Hash(n) \/ Load(n)
  \/ Judge \/ Return

Spec == Init /\ [][Next]_vars

(***************************************************************************)
(* Properties                                                              *)
(***************************************************************************)

Matching == \A n \in HashedBy(hashes) : file[n] = hashes[n]

\* A read during which nothing changed the directory returns a bundle only when
\* every file proof.yaml has a hash of is what it was hashed from, and then each
\* file as it is; it refuses one only when a hash does not match; and it raises
\* only for a proof.yaml or a declared file that is not text, a proof.yaml that is
\* no mapping, or a file that is read again without the hash its writer declared.
VerdictIsHonest ==
  ~disturbed /\ ~Reading =>
    /\ reader.state = "trusted" =>
         /\ manifest \in Bundles /\ Matching
         /\ \A n \in ReadAgain(hashes) : reader.loaded[n] = file[n]
    /\ reader.state = "refused" /\ manifest \in Bundles => ~Matching
    /\ reader.state = "raised" =>
         \/ manifest \in {Empty, Undecodable}
         \/ \E n \in HashedBy(hashes) : file[n] = Undecodable
         \/ \E n \in ReadAgain(hashes) : hashes[n] # manifest /\ file[n] \notin Bundles

\* "A mismatch is reported, never raised: a tampered bundle is real, observable
\* input, not an exceptional program state" (bundle.py:22-24).
MismatchIsReported ==
  ~disturbed /\ manifest \in Bundles /\ ~Matching => reader.state # "raised"

\* Once there is a manifest its bundle is all there, but for the user's edits
\* ("the manifest's presence as the write finished", bundle.py:87-90).  A
\* second write leaves the first one's manifest in place until its own end, so
\* that this is only so of a directory that was written once.
ManifestMeansFinished ==
  writes <= 1 /\ manifest \in Bundles =>
    \A n \in Declared[manifest] \ edited : file[n] = manifest
=============================================================================
