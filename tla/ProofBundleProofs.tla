------------------------- MODULE ProofBundleProofs -------------------------
(***************************************************************************)
(* Proofs about ProofBundle and Reproduction, for every set of bundles and *)
(* files: what a read of a bundle returns, what a manifest means, and what *)
(* it takes to be called reproduced.                                       *)
(***************************************************************************)
EXTENDS Reproduction, SequenceTheorems, TLAPS

(***************************************************************************)
(* The inductive invariants                                                *)
(***************************************************************************)

\* A read that goes on, or returned, is about the files of one bundle.
ReadFacts ==
  reader.state \in {"hashing", "loading", "trusted"} =>
    /\ reader.manifest \in Bundles
    /\ reader.left \subseteq IF reader.state = "hashing" THEN HashedBy(reader.hashes)
                             ELSE ReadAgain(reader.hashes)
    /\ \A n \in Files \ ReadAgain(reader.hashes) : reader.loaded[n] = Missing

\* Why a read of the directory as it is may raise.
Unreadable ==
  \/ manifest \in {Empty, Undecodable}
  \/ \E n \in HashedBy(hashes) : file[n] = Undecodable
  \/ \E n \in ReadAgain(hashes) : hashes[n] # manifest /\ file[n] \notin Bundles

\* What a read knows of a directory that nothing has changed since it began.
CalmFacts ==
  ~disturbed =>
    /\ reader.state # "none"
    /\ reader.state \in {"hashing", "loading", "trusted"} =>
         manifest = reader.manifest /\ hashes = reader.hashes
    /\ reader.state = "hashing" =>
         (reader.problem <=> \E n \in HashedBy(hashes) \ reader.left : file[n] # hashes[n])
    /\ reader.state \in {"loading", "trusted"} =>
         /\ Matching
         /\ \A n \in ReadAgain(hashes) \ reader.left : reader.loaded[n] = file[n]
    /\ reader.state = "trusted" => reader.left = {}
    /\ reader.state = "refused" => manifest \in {Missing, Foreign} \cup Bundles
    /\ reader.state = "refused" /\ manifest \in Bundles => ~Matching
    /\ reader.state = "raised" => Unreadable

\* The first write has filled every file before the one it is about to write,
\* and the manifest is the last of them.
WriteFacts ==
  /\ writes = 0 => manifest = Missing /\ writer = Idle
  /\ writes <= 1 /\ writer # Idle =>
       /\ manifest \notin Bundles
       /\ \A k \in 1..(writer.at - 1) :
            Names[k] \in Declared[writer.bundle] \ edited => file[Names[k]] = writer.bundle
  /\ writes <= 1 /\ manifest \in Bundles =>
       writer = Idle /\ \A n \in Declared[manifest] \ edited : file[n] = manifest

BundleInv == ReadFacts /\ CalmFacts /\ WriteFacts

\* The reproduction acts on the bundle it read, and on nothing that was there.
ActOnBundle == step \in {"schema", "dataset", "measure"}
OnlyAttempt(b) == {k \in DOMAIN database : database[k].content = b} = {Len(database)}

AsWritten == reader.hashes = HashesOf(reader.manifest)

ReproductionFacts ==
  /\ Reading => step = "read"
  /\ step # "idle" => verdict = <<>>
  /\ ActOnBundle => reader.state = "trusted"
  /\ step \in {"dataset", "measure"} => Len(database) > 0
  /\ ActOnBundle /\ intact /\ AsWritten =>
       LET b == reader.manifest IN
       /\ traits[b].version /\ traits[b].bindable
       /\ \A n \in Declared[b] : reader.loaded[n] = b
       /\ step \in {"dataset", "measure"} => OnlyAttempt(b)
       /\ step = "measure" => database[Len(database)].complete
  /\ ReproducedIsEarned

(***************************************************************************)
(* The directory of a bundle                                               *)
(***************************************************************************)

\* The positions of the files, and that of the manifest after them.
LEMMA Positions ==
  /\ Len(Names) \in Nat /\ DOMAIN Names = 1..Len(Names) /\ Manifest = Len(Names) + 1
  /\ \A k \in 1..Len(Names) : Names[k] \in Files
  /\ \A b \in Bundles : Declared[b] \subseteq Files
  /\ Fixed \subseteq Files /\ \A h : HashedBy(h) \subseteq Files /\ ReadAgain(h) \subseteq Files
<1>1. Len(Names) \in Nat /\ DOMAIN Names = 1..Len(Names)
  BY NamesAssumption, LenProperties
<1>2. QED
  BY <1>1, DeclaredAssumption, FixedAssumption DEF Files, Manifest, HashedBy, ReadAgain

\* What a writer declares are hashes, and those of its bundle.
LEMMA DeclaredHashes ==
  /\ NoHashes \in [Files -> Hashes]
  /\ \A b \in Bundles : HashesOf(b) \in [Files -> Hashes] /\ HashedBy(HashesOf(b)) = Declared[b]
BY Positions, BundlesAssumption DEF NoHashes, HashesOf, Hashes, HashedBy

\* The variables of the directory, its writer and its reader keep their types.
THEOREM BundleTypeCorrect == Spec => []TypeOK
<1> USE DEF TypeOK
<1>1. Init => TypeOK
  BY BoundsAssumption, DeclaredHashes DEF Init, Unread, Contents, Readers
<1>2. TypeOK /\ [Next]_vars => TypeOK'
  <2> SUFFICES ASSUME TypeOK, [Next]_vars PROVE TypeOK'
    OBVIOUS
  <2>0. /\ Len(Names) \in Nat /\ Manifest = Len(Names) + 1
        /\ \A k \in 1..Len(Names) : Names[k] \in Files
        /\ \A b \in Bundles : Declared[b] \subseteq Files
        /\ \A h : HashedBy(h) \subseteq Files /\ ReadAgain(h) \subseteq Files
    BY Positions
  <2>1. ASSUME NEW b \in Bundles, StartWrite(b) PROVE TypeOK'
    <3>1. writer' \in Writers
      BY <2>1 DEF StartWrite, Writers
    <3>2. writes' \in 0..MaxWrites
      BY <2>1, BoundsAssumption DEF StartWrite
    <3>3. QED
      BY <2>1, <3>1, <3>2 DEF StartWrite
  <2>2. ASSUME writer # Idle
        PROVE  /\ writer \in Writers
               /\ writer.at # Manifest => Names[writer.at] \in Files
    BY <2>0, <2>2 DEF Writers
  <2>3. CASE OpenFile
    <3>1. writer' \in Writers
      BY <2>2, <2>3 DEF OpenFile, Writers
    <3>2. /\ manifest' \in Contents /\ file' \in [Files -> Contents] /\ edited' \subseteq Files
          /\ hashes' \in [Files -> Hashes]
      BY <2>2, <2>3, DeclaredHashes DEF OpenFile, Contents, Writers
    <3>3. QED
      BY <2>3, <3>1, <3>2 DEF OpenFile, Disturb
  <2>4. CASE FillFile
    <3>1. CASE writer.at = Manifest
      BY <2>2, <2>4, <3>1, DeclaredHashes DEF FillFile, Disturb, Writers, Contents
    <3>2. CASE writer.at # Manifest
      <4>1. PICK j \in (writer.at + 1)..Manifest :
                   writer' = [writer EXCEPT !.at = j, !.open = FALSE]
        BY <2>4, <3>2 DEF FillFile
      <4>2. j \in 1..Manifest
        <5>1. writer.at \in 1..Manifest
          BY <2>2, <2>4 DEF FillFile, Writers
        <5>2. QED
          BY <2>0, <5>1
      <4>3. writer' \in Writers
        BY <2>2, <2>4, <4>1, <4>2 DEF FillFile, Writers
      <4>4. file' \in [Files -> Contents]
        BY <2>2, <2>4, <3>2 DEF FillFile, Contents, Writers
      <4>5. QED
        BY <2>4, <3>2, <4>3, <4>4 DEF FillFile, Disturb
    <3>3. QED
      BY <3>1, <3>2
  <2>5. CASE WriterDies
    BY <2>5 DEF WriterDies
  <2>6. ASSUME NEW n \in Files, Edit(n) PROVE TypeOK'
    <3>1. file' \in [Files -> Contents] /\ edited' \subseteq Files
      BY <2>6 DEF Edit, Contents
    <3>2. edits' \in 0..MaxEdits
      BY <2>6, BoundsAssumption DEF Edit
    <3>3. QED
      BY <2>6, <3>1, <3>2 DEF Edit, Disturb
  <2>14. CASE EditManifest
    <3>1. manifest' \in Contents /\ hashes' \in [Files -> Hashes]
      BY <2>14, DeclaredHashes DEF EditManifest, Hashes
    <3>2. edits' \in 0..MaxEdits
      BY <2>14, BoundsAssumption DEF EditManifest
    <3>3. QED
      BY <2>14, <3>1, <3>2 DEF EditManifest, Disturb
  <2>7. CASE StartRead
    <3>1. reads' \in 0..MaxReads
      BY <2>7, BoundsAssumption DEF StartRead
    <3>2. Unread \in [Files -> Contents]
      BY DEF Unread, Contents
    <3>3. HashedBy(hashes) \subseteq Files
      BY <2>0
    <3>4. (CASE manifest \in {Missing, Foreign} -> "refused"
             [] manifest \in {Empty, Undecodable} -> "raised"
             [] OTHER -> "hashing")
            \in {"none", "hashing", "loading", "trusted", "refused", "raised"}
      BY DEF Missing, Foreign, Empty, Undecodable
    <3>5. reader' \in Readers
      BY <2>7, <3>2, <3>3, <3>4 DEF StartRead, Readers
    <3>6. reader'.state = "hashing" => reader'.manifest \in Bundles
      BY <2>7 DEF StartRead, Contents
    <3>7. reader'.state \in {"hashing", "refused", "raised"}
      BY <2>7 DEF StartRead
    <3>8. QED
      BY <2>7, <3>1, <3>5, <3>6, <3>7 DEF StartRead
  <2>8. ASSUME NEW n \in Files, Hash(n) PROVE TypeOK'
    BY <2>8 DEF Hash, Readers
  <2>9. ASSUME NEW n \in Files, Load(n) PROVE TypeOK'
    <3>1. [reader.loaded EXCEPT ![n] = file[n]] \in [Files -> Contents]
      BY DEF Readers
    <3>2. \/ reader' = [reader EXCEPT !.left = reader.left \ {n},
                                     !.loaded = [reader.loaded EXCEPT ![n] = file[n]]]
          \/ reader' = [reader EXCEPT !.state = "raised"]
      BY <2>9 DEF Load, Readers
    <3>3. reader' \in Readers /\ reader'.manifest = reader.manifest
      BY <3>1, <3>2 DEF Readers
    <3>4. reader.manifest \in Bundles
      BY <2>9 DEF Load
    <3>5. QED
      BY <2>9, <3>3, <3>4 DEF Load
  <2>10. CASE Judge
    <3>1. ReadAgain(reader.hashes) \subseteq Files
      BY <2>0
    <3>2. QED
      BY <2>10, <3>1 DEF Judge, Readers
  <2>11. CASE Return
    BY <2>11 DEF Return, Readers
  <2>12. CASE UNCHANGED vars
    BY <2>12 DEF vars
  <2>13. QED
    BY <2>1, <2>3, <2>4, <2>5, <2>6, <2>7, <2>8, <2>9, <2>10, <2>11, <2>12,
       <2>14 DEF Next
<1>3. QED
  BY <1>1, <1>2, PTL DEF Spec

\* What a write or an edit leaves alone, and what a read does.
LEMMA WhoActs ==
  ASSUME [Next]_vars
  PROVE  \/ /\ UNCHANGED <<file, manifest, hashes, writes, writer, edited>>
            /\ StartRead \/ Judge \/ Return \/ \E n \in Files : Hash(n) \/ Load(n)
         \/ UNCHANGED reader /\ disturbed' = TRUE
         \/ UNCHANGED <<file, manifest, hashes, reader, disturbed>>
BY DEF Next, vars, StartWrite, OpenFile, FillFile, WriterDies, Edit, EditManifest, Disturb, StartRead, Judge,
       Return, Hash, Load

LEMMA ReadFactsStep == TypeOK /\ ReadFacts /\ [Next]_vars => ReadFacts'
<1> SUFFICES ASSUME TypeOK, ReadFacts, [Next]_vars PROVE ReadFacts'
  OBVIOUS
<1> USE DEF ReadFacts
<1>1. CASE UNCHANGED reader
  BY <1>1
<1>2. CASE StartRead
  <2>1. reader'.state = "hashing" => manifest \in Bundles
    BY <1>2 DEF StartRead, TypeOK, Contents
  <2>2. reader'.state \in {"hashing", "refused", "raised"}
    BY <1>2 DEF StartRead
  <2>3. manifest \in Bundles =>
          /\ reader'.manifest = manifest /\ reader'.left = HashedBy(reader'.hashes)
          /\ reader'.loaded = Unread
    BY <1>2 DEF StartRead
  <2>4. QED
    BY <2>1, <2>2, <2>3 DEF Unread
<1>3. ASSUME NEW n \in Files, Hash(n) PROVE ReadFacts'
  BY <1>3 DEF Hash, TypeOK, Readers
<1>4. ASSUME NEW n \in Files, Load(n) PROVE ReadFacts'
  <2>1. CASE reader' = [reader EXCEPT !.state = "raised"]
    BY <2>1 DEF TypeOK, Readers
  <2>2. CASE reader' = [reader EXCEPT !.left = @ \ {n}, !.loaded[n] = file[n]]
    <3>1. /\ reader'.manifest = reader.manifest /\ reader'.left = reader.left \ {n}
          /\ reader'.loaded = [reader.loaded EXCEPT ![n] = file[n]]
      BY <2>2 DEF TypeOK, Readers
    <3>2. /\ reader.state = "loading" /\ n \in reader.left
          /\ reader'.state = "loading" /\ reader'.hashes = reader.hashes
      BY <1>4, <2>2 DEF Load, TypeOK, Readers
    <3>3. \A m \in Files : m # n => reader'.loaded[m] = reader.loaded[m]
      BY <3>1 DEF TypeOK, Readers
    <3>4. QED
      BY <3>1, <3>2, <3>3
  <2>3. QED
    BY <1>4, <2>1, <2>2 DEF Load
<1>5. CASE Judge \/ Return
  BY <1>5 DEF Judge, Return, TypeOK, Readers
<1>6. QED
  BY <1>1, <1>2, <1>3, <1>4, <1>5, WhoActs

LEMMA CalmFactsStep == TypeOK /\ ReadFacts /\ CalmFacts /\ [Next]_vars => CalmFacts'
<1> SUFFICES ASSUME TypeOK, ReadFacts, CalmFacts, [Next]_vars, ~disturbed' PROVE CalmFacts'
  BY DEF CalmFacts
<1> USE BundlesAssumption DEF CalmFacts
<1>1. CASE UNCHANGED <<file, manifest, hashes, reader, disturbed>>
  BY <1>1 DEF Matching, Unreadable
<1>2. ASSUME UNCHANGED <<file, manifest, hashes>>
      PROVE  Matching' = Matching /\ Unreadable' = Unreadable
  BY <1>2 DEF Matching, Unreadable
<1>3. CASE StartRead
  <2>1. /\ UNCHANGED <<file, manifest, hashes>>
        /\ manifest \in {Missing, Foreign} => reader'.state = "refused"
        /\ manifest \in {Empty, Undecodable} => reader'.state = "raised"
        /\ manifest \in Bundles => /\ reader'.state = "hashing" /\ ~reader'.problem
                                   /\ reader'.manifest = manifest /\ reader'.hashes = hashes
                                   /\ reader'.left = HashedBy(hashes)
    <3>1. CASE manifest \in {Missing, Foreign}
      BY <1>3, <3>1 DEF StartRead, Missing, Foreign, Empty, Undecodable
    <3>2. CASE manifest \in {Empty, Undecodable}
      BY <1>3, <3>2 DEF StartRead, Missing, Foreign, Empty, Undecodable
    <3>3. CASE manifest \in Bundles
      BY <1>3, <3>3 DEF StartRead
    <3>4. QED
      BY <1>3, <3>1, <3>2, <3>3 DEF StartRead, TypeOK, Contents
  <2>2. manifest \in Bundles \cup {Missing, Empty, Foreign, Undecodable}
    BY DEF TypeOK, Contents
  <2>3. manifest \in {Empty, Undecodable} => Unreadable'
    BY <2>1 DEF Unreadable
  <2>4. QED
    BY <2>1, <2>2, <2>3
<1>4. ASSUME NEW n \in Files, Hash(n) PROVE CalmFacts'
  <2>1. /\ UNCHANGED <<file, manifest, hashes, disturbed>>
        /\ reader.state = "hashing" /\ n \in reader.left
    BY <1>4 DEF Hash
  <2>2. /\ manifest = reader.manifest /\ hashes = reader.hashes /\ n \in HashedBy(hashes)
        /\ reader.problem <=> \E m \in HashedBy(hashes) \ reader.left : file[m] # hashes[m]
    BY <2>1 DEF ReadFacts
  <2>3. CASE file[n] # Undecodable
    <3>1. /\ reader'.state = "hashing" /\ reader'.manifest = reader.manifest
          /\ reader'.hashes = reader.hashes /\ reader'.left = reader.left \ {n}
          /\ reader'.problem = (reader.problem \/ file[n] # reader.hashes[n])
      BY <1>4, <2>1, <2>3 DEF Hash, TypeOK, Readers
    <3>2. reader'.problem <=> \E m \in HashedBy(hashes) \ reader'.left : file[m] # hashes[m]
      BY <2>1, <2>2, <3>1
    <3>3. QED
      BY <2>1, <2>2, <3>1, <3>2
  <2>4. CASE file[n] = Undecodable
    <3>1. reader'.state = "raised"
      BY <1>4, <2>4 DEF Hash, TypeOK, Readers
    <3>2. Unreadable
      BY <2>2, <2>4 DEF Unreadable
    <3>3. QED
      BY <1>2, <2>1, <3>1, <3>2
  <2>5. QED
    BY <2>3, <2>4
<1>5. ASSUME NEW n \in Files, Load(n) PROVE CalmFacts'
  <2>1. /\ UNCHANGED <<file, manifest, hashes, disturbed>>
        /\ reader.state = "loading" /\ n \in reader.left
    BY <1>5 DEF Load
  <2>2. /\ manifest = reader.manifest /\ hashes = reader.hashes /\ n \in ReadAgain(hashes)
        /\ manifest \in Bundles /\ Matching /\ Matching'
        /\ \A m \in ReadAgain(hashes) \ reader.left : reader.loaded[m] = file[m]
    BY <1>2, <2>1 DEF ReadFacts
  <2>3. CASE reader' = [reader EXCEPT !.left = @ \ {n}, !.loaded[n] = file[n]]
    <3>1. /\ reader'.state = "loading" /\ reader'.manifest = reader.manifest
          /\ reader'.hashes = reader.hashes /\ reader'.left = reader.left \ {n}
          /\ reader'.loaded = [reader.loaded EXCEPT ![n] = file[n]]
      BY <2>1, <2>3 DEF TypeOK, Readers
    <3>2. \A m \in Files : reader'.loaded[m] = IF m = n THEN file[m] ELSE reader.loaded[m]
      BY <3>1 DEF TypeOK, Readers
    <3>3. \A m \in ReadAgain(hashes) \ reader'.left : reader'.loaded[m] = file[m]
      BY <2>2, <3>1, <3>2, Positions
    <3>4. QED
      BY <2>1, <2>2, <3>1, <3>3
  <2>4. CASE file[n] \notin Bundles /\ reader' = [reader EXCEPT !.state = "raised"]
    <3>1. reader'.state = "raised"
      BY <2>4 DEF TypeOK, Readers
    <3>2. hashes[n] # manifest
      BY <2>2, <2>4 DEF Matching, HashedBy
    <3>3. Unreadable
      BY <2>2, <2>4, <3>2 DEF Unreadable
    <3>4. QED
      BY <1>2, <2>1, <3>1, <3>3
  <2>5. QED
    BY <1>5, <2>3, <2>4 DEF Load
<1>6. CASE Judge
  <2>1. /\ UNCHANGED <<file, manifest, hashes, disturbed>>
        /\ reader.state = "hashing" /\ reader.left = {}
    BY <1>6 DEF Judge
  <2>2. /\ manifest = reader.manifest /\ hashes = reader.hashes /\ manifest \in Bundles
        /\ reader.problem <=> ~Matching
    BY <2>1 DEF ReadFacts, Matching
  <2>3. CASE reader.problem
    <3>1. reader'.state = "refused"
      BY <1>6, <2>3 DEF Judge, TypeOK, Readers
    <3>2. QED
      BY <1>2, <2>1, <2>2, <2>3, <3>1
  <2>4. CASE ~reader.problem
    <3>1. /\ reader'.state = "loading" /\ reader'.manifest = manifest /\ reader'.hashes = hashes
          /\ reader'.left = ReadAgain(hashes)
      BY <1>6, <2>2, <2>4 DEF Judge, TypeOK, Readers
    <3>2. QED
      BY <1>2, <2>1, <2>2, <2>4, <3>1
  <2>5. QED
    BY <2>3, <2>4
<1>7. CASE Return
  <2>1. /\ UNCHANGED <<file, manifest, hashes, disturbed>>
        /\ reader.state = "loading" /\ reader.left = {}
        /\ reader'.state = "trusted" /\ reader'.manifest = reader.manifest
        /\ reader'.hashes = reader.hashes
        /\ reader'.left = {} /\ reader'.loaded = reader.loaded
    BY <1>7 DEF Return, TypeOK, Readers
  <2>2. QED
    BY <1>2, <2>1
<1>8. QED
  BY <1>1, <1>3, <1>4, <1>5, <1>6, <1>7, WhoActs

LEMMA WriteFactsStep == TypeOK /\ WriteFacts /\ [Next]_vars => WriteFacts'
<1> SUFFICES ASSUME TypeOK, WriteFacts, [Next]_vars PROVE WriteFacts'
  OBVIOUS
<1> USE BundlesAssumption DEF WriteFacts
<1>0. /\ Len(Names) \in Nat /\ Manifest = Len(Names) + 1 /\ DOMAIN Names = 1..Len(Names)
      /\ \A k \in 1..Len(Names) : Names[k] \in Files
      /\ \A b \in Bundles : Declared[b] \subseteq Files
      /\ \A j, k \in 1..Len(Names) : Names[j] = Names[k] => j = k
  BY Positions, NamesAssumption
<1>1. writer # Idle => /\ writer.bundle \in Bundles /\ writer.at \in 1..Manifest
                       /\ writer \in Writers
  BY DEF TypeOK, Writers
<1>2. CASE UNCHANGED <<file, manifest, writes, writer, edited>>
  BY <1>2
<1>3. ASSUME NEW b \in Bundles, StartWrite(b) PROVE WriteFacts'
  <2>1. /\ writes' = writes + 1 /\ writes \in Nat /\ UNCHANGED <<file, manifest, edited>>
    BY <1>3 DEF StartWrite, TypeOK
  <2>2. PICK j \in 1..Manifest : NextFile(b, 1, j) /\ writer' = [bundle |-> b, at |-> j, open |-> FALSE]
    BY <1>3 DEF StartWrite
  <2>3. CASE writes = 0
    <3>1. manifest' = Missing
      BY <2>1, <2>3
    <3>2. \A k \in 1..(j - 1) : Names[k] \notin Declared[b]
      BY <2>2 DEF NextFile
    <3>3. QED
      BY <2>1, <2>2, <2>3, <3>1, <3>2
  <2>4. CASE writes # 0
    BY <2>1, <2>4
  <2>5. QED
    BY <2>3, <2>4
<1>4. CASE OpenFile
  <2>1. /\ writer # Idle /\ UNCHANGED writes
        /\ writer' = [writer EXCEPT !.open = TRUE]
    BY <1>4 DEF OpenFile
  <2>2. writer'.at = writer.at /\ writer'.bundle = writer.bundle
    BY <1>1, <2>1 DEF Writers
  <2>3. CASE writer.at = Manifest
    <3>1. manifest' = Empty /\ UNCHANGED <<file, edited>>
      BY <1>4, <2>3 DEF OpenFile
    <3>2. QED
      BY <2>1, <2>2, <3>1
  <2>4. CASE writer.at # Manifest
    <3>1. /\ file' = [file EXCEPT ![Names[writer.at]] = Empty] /\ UNCHANGED manifest
          /\ edited' = edited \ {Names[writer.at]}
      BY <1>4, <2>4 DEF OpenFile
    <3>2. writer.at \in 1..Len(Names)
      BY <1>0, <1>1, <2>1, <2>4
    <3>3. \A k \in 1..(writer.at - 1) : /\ Names[k] # Names[writer.at] /\ Names[k] \in Files
                                        /\ file'[Names[k]] = file[Names[k]]
      <4>1. \A k \in 1..(writer.at - 1) : k \in 1..Len(Names) /\ k # writer.at
        BY <1>0, <3>2
      <4>2. QED
        BY <1>0, <3>1, <3>2, <4>1 DEF TypeOK
    <3>4. QED
      BY <2>1, <2>2, <3>1, <3>3
  <2>5. QED
    BY <2>3, <2>4
<1>5. CASE FillFile
  <2>1. writer # Idle /\ UNCHANGED <<writes, edited>>
    BY <1>5 DEF FillFile
  <2>2. CASE writer.at = Manifest
    <3>1. manifest' = writer.bundle /\ writer' = Idle /\ UNCHANGED file
      BY <1>5, <2>2 DEF FillFile
    <3>2. writes <= 1 => \A n \in Declared[writer.bundle] \ edited : file[n] = writer.bundle
      <4>1. \A n \in Declared[writer.bundle] : \E k \in 1..Len(Names) : n = Names[k]
        BY <1>0, <1>1, <2>1 DEF Files
      <4>2. QED
        BY <1>0, <2>1, <2>2, <4>1
    <3>3. writes # 0
      BY <2>1
    <3>4. QED
      BY <2>1, <3>1, <3>2, <3>3
  <2>3. CASE writer.at # Manifest
    <3>1. file' = [file EXCEPT ![Names[writer.at]] = writer.bundle] /\ UNCHANGED manifest
      BY <1>5, <2>3 DEF FillFile
    <3>2. PICK j \in (writer.at + 1)..Manifest :
            /\ NextFile(writer.bundle, writer.at + 1, j)
            /\ writer' = [writer EXCEPT !.at = j, !.open = FALSE]
      BY <1>5, <2>3 DEF FillFile
    <3>3. writer'.at = j /\ writer'.bundle = writer.bundle
      BY <1>1, <2>1, <3>2 DEF Writers
    <3>4. writer.at \in 1..Len(Names) /\ j \in 1..Manifest
      BY <1>0, <1>1, <2>1, <2>3, <3>2
    <3>5. ASSUME writes <= 1, NEW k \in 1..(j - 1), Names[k] \in Declared[writer.bundle] \ edited
          PROVE  file'[Names[k]] = writer.bundle
      <4>1. k \in 1..Len(Names)
        BY <1>0, <3>4
      <4>2. CASE k < writer.at
        <5>1. Names[k] # Names[writer.at] /\ Names[k] \in Files
          BY <1>0, <3>4, <4>1, <4>2
        <5>2. file[Names[k]] = writer.bundle
          BY <2>1, <3>4, <3>5, <4>1, <4>2
        <5>3. QED
          BY <3>1, <5>1, <5>2 DEF TypeOK
      <4>3. CASE k = writer.at
        BY <1>0, <3>1, <4>1, <4>3 DEF TypeOK
      <4>4. CASE k > writer.at
        <5>1. k \in (writer.at + 1)..(j - 1)
          BY <3>4, <4>1, <4>4
        <5>2. QED
          BY <3>2, <3>5, <5>1 DEF NextFile
      <4>5. QED
        BY <3>4, <4>1, <4>2, <4>3, <4>4
    <3>6. writes <= 1 => manifest \notin Bundles
      BY <2>1
    <3>7. writes # 0
      BY <2>1
    <3>8. QED
      BY <2>1, <3>1, <3>3, <3>5, <3>6, <3>7
  <2>4. QED
    BY <2>2, <2>3
<1>6. CASE WriterDies
  BY <1>6 DEF WriterDies
<1>7. ASSUME NEW n \in Files, Edit(n) PROVE WriteFacts'
  <2>1. /\ UNCHANGED <<manifest, writes, writer>> /\ edited' = edited \cup {n}
        /\ \A m \in Files : m # n => file'[m] = file[m]
    BY <1>7 DEF Edit, TypeOK
  <2>2. \A b \in Bundles : \A m \in Declared[b] \ edited' : file'[m] = file[m] /\ m \notin edited
    BY <1>0, <2>1
  <2>3. QED
    BY <1>1, <2>1, <2>2
<1>8. CASE EditManifest
  <2>1. /\ manifest # Missing /\ UNCHANGED <<file, writes, writer, edited>>
        /\ manifest' \in Bundles => manifest' = manifest
    BY <1>8 DEF EditManifest
  <2>2. QED
    BY <2>1
<1>9. QED
  BY <1>2, <1>3, <1>4, <1>5, <1>6, <1>7, <1>8
  DEF Next, vars, StartRead, Hash, Load, Judge, Return

LEMMA BundleInvCorrect == Spec => []BundleInv
<1>1. Init => BundleInv
  BY BundlesAssumption DEF Init, BundleInv, ReadFacts, CalmFacts, WriteFacts
<1>2. TypeOK /\ BundleInv /\ [Next]_vars => BundleInv'
  BY ReadFactsStep, CalmFactsStep, WriteFactsStep DEF BundleInv
<1>3. QED
  BY <1>1, <1>2, BundleTypeCorrect, PTL DEF Spec

(***************************************************************************)
(* The reproduction                                                        *)
(***************************************************************************)

\* A reproduction reads, and otherwise leaves the directory alone.
LEMMA ReproductionMaps == [NextReproduction]_allVars => [Next]_vars
<1> SUFFICES ASSUME [NextReproduction]_allVars PROVE [Next]_vars
  OBVIOUS
<1>1. CASE Directory
  BY <1>1 DEF Directory, Next
<1>2. CASE StartReproduction
  BY <1>2 DEF StartReproduction, Next
<1>3. CASE JudgeBundle \/ ApplySchema \/ LoadDataset \/ Measure
  BY <1>3 DEF JudgeBundle, ApplySchema, LoadDataset, Measure
<1>4. CASE UNCHANGED allVars
  BY <1>4 DEF allVars
<1>5. QED
  BY <1>1, <1>2, <1>3, <1>4 DEF NextReproduction

\* Reproductions are reads of the directory, whatever they do to a database.
THEOREM ReproductionsAreReads == SpecReproduction => Spec
<1>1. InitReproduction => Init
  BY DEF InitReproduction
<1>2. QED
  BY <1>1, ReproductionMaps, PTL DEF SpecReproduction, Spec

\* A read of a directory that nothing touched meanwhile returns a bundle only when
\* every file is as proof.yaml says, and refuses and raises only with a reason.
THEOREM ReadsAreHonest == SpecReproduction => []VerdictIsHonest
<1>1. TypeOK /\ ReadFacts /\ CalmFacts => VerdictIsHonest
  <2> SUFFICES ASSUME TypeOK, ReadFacts, CalmFacts, ~disturbed, ~Reading
               PROVE  /\ reader.state = "trusted" =>
                           /\ manifest \in Bundles /\ Matching
                           /\ \A n \in ReadAgain(hashes) : reader.loaded[n] = file[n]
                      /\ reader.state = "refused" /\ manifest \in Bundles => ~Matching
                      /\ reader.state = "raised" => Unreadable
    BY DEF VerdictIsHonest, Unreadable
  <2>1. CASE reader.state = "trusted"
    BY <2>1 DEF ReadFacts, CalmFacts
  <2>2. CASE reader.state # "trusted"
    BY <2>2 DEF CalmFacts
  <2>3. QED
    BY <2>1, <2>2
<1>2. Spec => []VerdictIsHonest
  BY <1>1, BundleTypeCorrect, BundleInvCorrect, PTL DEF BundleInv
<1>3. QED
  BY <1>2, ReproductionsAreReads, PTL

\* In a directory that was written at most once, a manifest means that every file
\* it declares is there, but for what the user changed.
THEOREM ManifestIsLast == SpecReproduction => []ManifestMeansFinished
<1>1. WriteFacts => ManifestMeansFinished
  BY DEF WriteFacts, ManifestMeansFinished
<1>2. Spec => []ManifestMeansFinished
  BY <1>1, BundleInvCorrect, PTL DEF BundleInv
<1>3. QED
  BY <1>2, ReproductionsAreReads, PTL

\* A read under way is the reproduction's, and nothing is acted on meanwhile.
LEMMA DirectoryKeepsFacts ==
  ASSUME TypeOK, ReproductionFacts, Directory
  PROVE  ReproductionFacts'
<1>1. UNCHANGED <<traits, step, database, verdict, intact>>
  BY DEF Directory, reproduction
<1>2. CASE UNCHANGED reader
  BY <1>1, <1>2 DEF ReproductionFacts, Reading, ActOnBundle, AsWritten, OnlyAttempt, ReproducedIsEarned
<1>3. CASE Judge \/ Return \/ \E n \in Files : Hash(n) \/ Load(n)
  <2>1. Reading
    BY <1>3 DEF Judge, Return, Hash, Load, Reading
  <2>2. step = "read" /\ verdict = <<>>
    BY <2>1 DEF ReproductionFacts
  <2>3. QED
    BY <1>1, <2>2 DEF ReproductionFacts, ActOnBundle, ReproducedIsEarned
<1>4. QED
  BY <1>2, <1>3 DEF Directory, StartWrite, OpenFile, FillFile, WriterDies, Edit, EditManifest

\* What is acted on was read whole, and bound.
LEMMA JudgeFacts ==
  ASSUME TypeOK, BundleInv, ReproductionFacts, JudgeBundle
  PROVE  ReproductionFacts'
<1>1. /\ UNCHANGED <<reader, traits, database>> /\ ~Reading /\ step = "read" /\ verdict = <<>>
      /\ intact' = ~disturbed
  BY DEF JudgeBundle, ReproductionFacts, vars
<1>2. ~Reading'
  BY <1>1 DEF Reading
<1>3. CASE step' = "idle"
  <2>1. verdict' = <<>> \/ \E v, p \in BOOLEAN :
          \E t \in BOOLEAN : verdict' = Result(t, v, p, Unknown, Unknown, Unknown, FALSE)
    BY <1>1, <1>3 DEF JudgeBundle
  <2>2. verdict' # <<>> => ~verdict'[1].reproduced
    BY <2>1 DEF Result
  <2>3. ReproducedIsEarned'
    BY <2>2 DEF ReproducedIsEarned
  <2>4. QED
    BY <1>2, <1>3, <2>3 DEF ReproductionFacts, ActOnBundle
<1>4. CASE step' # "idle"
  <2>1. /\ reader.state = "trusted" /\ traits[reader.manifest].version
        /\ step' = "schema" /\ UNCHANGED verdict /\ TRUE \in Bindable
    BY <1>4 DEF JudgeBundle
  <2> DEFINE b == reader.manifest
  <2>2. ASSUME ~disturbed, AsWritten
        PROVE  /\ \A n \in Declared[b] : reader.loaded[n] = b
               /\ traits[b].bindable
    <3>1. b \in Bundles /\ \A n \in Declared[b] : reader.loaded[n] = b
      <4>1. /\ b \in Bundles /\ Matching /\ hashes = HashesOf(b) /\ reader.left = {}
            /\ \A n \in ReadAgain(hashes) \ reader.left : reader.loaded[n] = file[n]
        BY <2>1, <2>2 DEF BundleInv, ReadFacts, CalmFacts, AsWritten
      <4>2. HashedBy(hashes) = Declared[b] /\ Declared[b] \subseteq Files
        BY <4>1, DeclaredHashes, Positions
      <4>3. \A n \in Declared[b] : file[n] = b /\ n \in ReadAgain(hashes)
        BY <4>1, <4>2 DEF Matching, HashesOf, ReadAgain
      <4>4. QED
        BY <4>1, <4>3
    <3>2. reader.loaded[ParametersFile] = b
      BY <3>1, RolesAssumption, DeclaredAssumption
    <3>3. Bindable = {traits[b].bindable}
      BY <3>1, <3>2 DEF Bindable
    <3>4. QED
      BY <2>1, <3>1, <3>3
  <2> HIDE DEF b
  <2>3. verdict' = <<>> /\ reader' = reader /\ traits' = traits /\ b' = b
    BY <1>1, <2>1 DEF b
  <2>4. ~disturbed /\ AsWritten => \A n \in Declared[b] : reader'.loaded[n] = b
    BY <2>2, <2>3
  <2>5. ~disturbed /\ AsWritten => traits'[b].version /\ traits'[b].bindable
    BY <2>1, <2>2, <2>3 DEF b
  <2>6. QED
    BY <1>1, <1>2, <2>1, <2>3, <2>4, <2>5
    DEF ReproductionFacts, ActOnBundle, AsWritten, ReproducedIsEarned, b
<1>5. QED
  BY <1>3, <1>4

Tables == [content : Contents, complete : BOOLEAN]

\* The dataset that a step acts on is one of the contents, and that of an intact
\* bundle is its own.
LEMMA DatasetOfBundle ==
  ASSUME TypeOK, BundleInv, ReproductionFacts, ActOnBundle
  PROVE  /\ reader.manifest \in Bundles /\ Dataset \in Contents
         /\ intact /\ AsWritten => Dataset = reader.manifest
<1>1. reader.state = "trusted"
  BY DEF ReproductionFacts
<1>2. reader.manifest \in Bundles
  BY <1>1 DEF BundleInv, ReadFacts
<1>3. DatasetFile \in Declared[reader.manifest] /\ DatasetFile \in Files
  BY <1>2, RolesAssumption, DeclaredAssumption, FixedAssumption
<1>4. Dataset \in Contents
  BY <1>3 DEF Dataset, TypeOK, Readers
<1>5. intact /\ AsWritten => Dataset = reader.manifest
  BY <1>3 DEF Dataset, ReproductionFacts
<1>6. QED
  BY <1>2, <1>4, <1>5

LEMMA ApplySchemaFacts ==
  ASSUME TypeOK, BundleInv, ReproductionFacts, database \in Seq(Tables), ApplySchema
  PROVE  ReproductionFacts' /\ database' \in Seq(Tables)
<1>1. /\ UNCHANGED <<reader, traits, verdict, intact>> /\ step = "schema" /\ verdict = <<>>
      /\ reader.state = "trusted"
  BY DEF ApplySchema, ReproductionFacts, ActOnBundle, vars
<1>2. CASE step' = "idle"
  <2>1. UNCHANGED database
    BY <1>2 DEF ApplySchema
  <2>2. QED
    BY <1>1, <1>2, <2>1 DEF ReproductionFacts, Reading, ActOnBundle, AsWritten, ReproducedIsEarned
<1>3. CASE step' # "idle"
  <2> DEFINE b == reader.manifest
             new == [content |-> Dataset, complete |-> FALSE]
  <2>1. /\ \A k \in DOMAIN database : database[k].content # Dataset
        /\ database' = Append(database, new) /\ step' = "dataset"
    BY <1>3 DEF ApplySchema
  <2>2. /\ new \in Tables /\ new.content = Dataset /\ (intact /\ AsWritten => Dataset = b)
    BY <1>1, DatasetOfBundle DEF Tables, ActOnBundle
  <2> HIDE DEF new
  <2>3. /\ database' \in Seq(Tables) /\ Len(database') = Len(database) + 1
        /\ \A k \in 1..Len(database) : database'[k] = database[k]
        /\ database'[Len(database) + 1] = new
    BY <2>1, <2>2, AppendProperties
  <2>4. /\ DOMAIN database = 1..Len(database) /\ Len(database) \in Nat
        /\ DOMAIN database' = 1..Len(database')
    BY <2>3, LenProperties
  <2>5. intact /\ AsWritten => OnlyAttempt(b)'
    <3> SUFFICES ASSUME intact, AsWritten
                 PROVE  {k \in DOMAIN database' : database'[k].content = reader'.manifest}
                          = {Len(database')}
      BY DEF OnlyAttempt
    <3>1. reader'.manifest = Dataset
      BY <1>1, <2>2
    <3>2. \A k \in DOMAIN database' : database'[k].content = Dataset <=> k = Len(database')
      BY <2>1, <2>2, <2>3, <2>4
    <3>3. Len(database') \in DOMAIN database'
      BY <2>3, <2>4
    <3>4. QED
      BY <3>1, <3>2, <3>3
  <2>6. Len(database') > 0
    BY <2>3, <2>4
  <2>7. ReproductionFacts'
    BY <1>1, <2>1, <2>5, <2>6
    DEF ReproductionFacts, Reading, ActOnBundle, AsWritten, OnlyAttempt, ReproducedIsEarned
  <2>8. QED
    BY <2>3, <2>7
<1>4. QED
  BY <1>2, <1>3

LEMMA LoadDatasetFacts ==
  ASSUME TypeOK, BundleInv, ReproductionFacts, database \in Seq(Tables), LoadDataset
  PROVE  ReproductionFacts' /\ database' \in Seq(Tables)
<1>1. /\ UNCHANGED <<reader, traits, verdict, intact>> /\ step = "dataset" /\ verdict = <<>>
      /\ reader.state = "trusted" /\ Len(database) > 0
  BY DEF LoadDataset, ReproductionFacts, ActOnBundle, vars
<1>2. CASE step' = "idle"
  <2>1. UNCHANGED database
    BY <1>2 DEF LoadDataset
  <2>2. QED
    BY <1>1, <1>2, <2>1 DEF ReproductionFacts, Reading, ActOnBundle, AsWritten, ReproducedIsEarned
<1>3. CASE step' # "idle"
  <2> DEFINE n == Len(database)
             loaded == [database[n] EXCEPT !.complete = TRUE]
  <2>1. database' = [database EXCEPT ![n] = loaded] /\ step' = "measure"
    BY <1>3 DEF LoadDataset
  <2>2. n \in 1..Len(database) /\ DOMAIN database = 1..Len(database) /\ database[n] \in Tables
    BY <1>1, LenProperties, ElementOfSeq
  <2>3. loaded \in Tables /\ loaded.content = database[n].content /\ loaded.complete
    BY <2>2 DEF Tables
  <2> HIDE DEF loaded
  <2>4. /\ database' \in Seq(Tables) /\ Len(database') = n
        /\ \A k \in 1..n : database'[k] = IF k = n THEN loaded ELSE database[k]
    BY <2>1, <2>2, <2>3, ExceptSeq
  <2>5. DOMAIN database' = 1..n
    BY <2>4, LenProperties
  <2>6. \A b : {k \in DOMAIN database' : database'[k].content = b}
                = {k \in DOMAIN database : database[k].content = b}
    BY <2>2, <2>3, <2>4, <2>5
  <2>7. database'[Len(database')].complete /\ Len(database') > 0
    BY <1>1, <2>2, <2>3, <2>4
  <2>8. intact /\ AsWritten => OnlyAttempt(reader.manifest)'
    <3>1. intact /\ AsWritten => {k \in DOMAIN database : database[k].content = reader.manifest} = {n}
      BY <1>1 DEF ReproductionFacts, ActOnBundle, OnlyAttempt
    <3>2. Len(database') = n /\ reader'.manifest = reader.manifest
      BY <1>1, <2>4
    <3>3. QED
      BY <2>6, <3>1, <3>2 DEF OnlyAttempt
  <2>9. ReproductionFacts'
    BY <1>1, <2>1, <2>7, <2>8
    DEF ReproductionFacts, Reading, ActOnBundle, AsWritten, OnlyAttempt, ReproducedIsEarned
  <2>10. QED
    BY <2>4, <2>9
<1>4. QED
  BY <1>2, <1>3

\* Without evidence in the bundle there is no direction, and nothing is reproduced.
LEMMA MeasureFacts ==
  ASSUME TypeOK, BundleInv, ReproductionFacts, Measure
  PROVE  ReproductionFacts'
<1>1. /\ UNCHANGED <<reader, traits, database, intact>> /\ step = "measure" /\ verdict = <<>>
      /\ reader.state = "trusted" /\ step' = "idle"
  BY DEF Measure, ReproductionFacts, ActOnBundle, vars
<1>2. ASSUME verdict' # <<>>, verdict'[1].reproduced, AsWritten
      PROVE  EvidenceFile \in Declared[reader.manifest]
  <2>1. PICK faster \in BOOLEAN, stable \in BOOLEAN, plan \in Plans : Evaluate(faster, stable, plan)
    BY <1>1, <1>2 DEF Measure
  <2>2. PICK original \in OriginalDirection :
          verdict' = Result(FALSE, TRUE, TRUE,
                            IF original = Unknown THEN Unknown ELSE Fact(original = Fact(faster)),
                            plan, Fact(stable),
                            (IF original = Unknown THEN Unknown ELSE Fact(original = Fact(faster)))
                              = "yes" /\ stable /\ plan # "no")
    BY <2>1 DEF Evaluate
  <2>3. (IF original = Unknown THEN Unknown ELSE Fact(original = Fact(faster))) = "yes"
    BY <1>2, <2>2 DEF Result
  <2>4. original # Unknown
    BY <2>3 DEF Unknown
  <2>5. reader.loaded[EvidenceFile] # Missing
    BY <2>4, BundlesAssumption DEF OriginalDirection
  <2>6. reader.manifest \in Bundles /\ EvidenceFile \in ReadAgain(reader.hashes)
    BY <1>1, <2>5, RolesAssumption DEF BundleInv, ReadFacts
  <2>7. QED
    BY <1>2, <2>6, DeclaredHashes, DeclaredAssumption DEF ReadAgain, AsWritten
<1>3. ReproducedIsEarned'
  <2> SUFFICES ASSUME verdict' # <<>>, verdict'[1].reproduced, intact, AsWritten
               PROVE  LET b == reader.manifest IN
                      /\ traits[b].version /\ traits[b].bindable /\ EvidenceFile \in Declared[b]
                      /\ OnlyAttempt(b) /\ database[Len(database)].complete
    BY <1>1 DEF ReproducedIsEarned, OnlyAttempt, AsWritten
  <2>1. QED
    BY <1>1, <1>2 DEF ReproductionFacts, ActOnBundle
<1>4. QED
  BY <1>1, <1>3 DEF ReproductionFacts, Reading, ActOnBundle

ReproductionInv ==
  /\ traits \in Traits /\ database \in Seq(Tables) /\ intact \in BOOLEAN
  /\ step \in {"idle", "read", "schema", "dataset", "measure"}
  /\ ReproductionFacts

LEMMA ReproductionInvCorrect == SpecReproduction => []ReproductionInv
<1>1. InitReproduction => ReproductionInv
  <2>1. InitReproduction => database \in Seq(Tables)
    BY EmptySeq DEF InitReproduction
  <2>2. InitReproduction => ReproductionFacts
    BY DEF InitReproduction, Init, ReproductionFacts, Reading, ActOnBundle, ReproducedIsEarned
  <2>3. QED
    BY <2>1, <2>2 DEF InitReproduction, ReproductionInv
<1>2. TypeOK /\ BundleInv /\ ReproductionInv /\ [NextReproduction]_allVars => ReproductionInv'
  <2> SUFFICES ASSUME TypeOK, BundleInv, ReproductionInv, [NextReproduction]_allVars
               PROVE  ReproductionInv'
    OBVIOUS
  <2> USE DEF ReproductionInv
  <2>1. CASE Directory
    BY <2>1, DirectoryKeepsFacts DEF Directory, reproduction
  <2>2. CASE StartReproduction
    <3>1. UNCHANGED <<traits, database, intact>> /\ step' = "read" /\ verdict' = <<>>
      BY <2>2 DEF StartReproduction
    <3>2. ReproductionFacts'
      BY <3>1 DEF ReproductionFacts, ActOnBundle, ReproducedIsEarned
    <3>3. QED
      BY <3>1, <3>2
  <2>3. CASE JudgeBundle
    BY <2>3, JudgeFacts DEF JudgeBundle
  <2>4. CASE ApplySchema
    <3>1. ReproductionFacts' /\ database' \in Seq(Tables)
      BY <2>4, ApplySchemaFacts
    <3>2. QED
      BY <2>4, <3>1 DEF ApplySchema
  <2>5. CASE LoadDataset
    <3>1. ReproductionFacts' /\ database' \in Seq(Tables)
      BY <2>5, LoadDatasetFacts
    <3>2. UNCHANGED <<traits, intact>> /\ step' \in {"measure", "idle"}
      BY <2>5 DEF LoadDataset
    <3>3. QED
      BY <3>1, <3>2
  <2>6. CASE Measure
    BY <2>6, MeasureFacts DEF Measure
  <2>7. CASE UNCHANGED allVars
    <3>1. UNCHANGED <<reader, traits, step, database, verdict, intact>>
      BY <2>7 DEF allVars, vars, reproduction
    <3>2. QED
      BY <3>1 DEF ReproductionFacts, Reading, ActOnBundle, AsWritten, OnlyAttempt, ReproducedIsEarned
  <2>8. QED
    BY <2>1, <2>2, <2>3, <2>4, <2>5, <2>6, <2>7 DEF NextReproduction
<1>3. SpecReproduction => [](TypeOK /\ BundleInv)
  BY ReproductionsAreReads, BundleTypeCorrect, BundleInvCorrect, PTL
<1>4. QED
  BY <1>1, <1>2, <1>3, PTL DEF SpecReproduction

\* The variables of a reproduction keep their types.
THEOREM ReproductionTypeCorrect == SpecReproduction => []ReproductionTypeOK
<1>1. TypeOK /\ ReproductionInv => ReproductionTypeOK
  BY DEF ReproductionInv, ReproductionTypeOK, Tables
<1>2. QED
  BY <1>1, ReproductionsAreReads, BundleTypeCorrect, ReproductionInvCorrect, PTL

\* A bundle nobody touched during the read, with the hashes its writer declared, is
\* only called reproduced after it was
\* measured, with a direction to compare, on its own dataset, complete and the
\* only attempt at it in the database.
THEOREM ReproductionsAreEarned == SpecReproduction => []ReproducedIsEarned
<1>1. ReproductionInv => ReproducedIsEarned
  BY DEF ReproductionInv, ReproductionFacts
<1>2. QED
  BY <1>1, ReproductionInvCorrect, PTL

=============================================================================
