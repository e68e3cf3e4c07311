--------------------------- MODULE ReviewProofs ---------------------------
(***************************************************************************)
(* What reviews leave for later commands.  The cached documents            *)
(* (ReviewCache) for any number of reviewers, files, contents and          *)
(* versions, where no file changes during a review and the inventory       *)
(* leaves out no file.  The decisions on a review's recommendations        *)
(* (DecisionLog) for any number of requests, threads and reviews: they are *)
(* grounded however the requests interleave, one is only lost to a request *)
(* that overlaps its own, and the latest one is the last that was written. *)
(***************************************************************************)
EXTENDS ReviewCache, DecisionLog, SequenceTheorems, FiniteSetTheorems,
        WellFoundedInduction, TLAPS

Quiet == ~EditsDuringReview /\ Inventoried = Files

(***************************************************************************)
(* The inductive invariant                                                 *)
(***************************************************************************)

\* A document with a key was built from what the key hashes.
BuiltFromKey(document, F) ==
  document # NoDocument /\ document[1].key # <<>> =>
    LET key == document[1].key[1] IN document[1].build = Build(key.files, F, key.tool)

Seen(r, F) == Build(seen[r], F, version[r])

\* What a reviewer has seen is what the files hold; what it has got from the
\* cache or from a parser is what it would build of that.
ReviewFacts(r) ==
  /\ pc[r] \in Steps
  /\ DOMAIN seen[r] \subseteq Files /\ \A f \in DOMAIN seen[r] : seen[r][f] = contents[f]
  /\ pc[r] = "idle" => DOMAIN seen[r] = {}
  /\ pc[r] \notin {"idle", "hash"} => DOMAIN seen[r] = Files
  /\ hit[r] => pc[r] \in {"models", "write schema", "write code"}
  /\ hit[r] \/ pc[r] \in {"code?", "write schema", "write code"}
       => physical[r] = <<Seen(r, Migrations)>>
  /\ hit[r] \/ pc[r] \in {"migrations", "write schema", "write code"}
       => model[r] = <<Seen(r, Models)>>
  /\ pc[r] \in {"migrations", "write schema", "write code"}
       => orm[r] = <<[f \in Models |-> contents[f]]>>

\* The variables are functions of the reviewers.
Functions ==
  /\ DOMAIN pc = Reviewers /\ pc = [r \in Reviewers |-> pc[r]]
  /\ DOMAIN version = Reviewers /\ version = [r \in Reviewers |-> version[r]]
  /\ DOMAIN seen = Reviewers /\ seen = [r \in Reviewers |-> seen[r]]
  /\ DOMAIN hit = Reviewers /\ hit = [r \in Reviewers |-> hit[r]]
  /\ hit \in [Reviewers -> BOOLEAN]
  /\ DOMAIN orm = Reviewers /\ orm = [r \in Reviewers |-> orm[r]]
  /\ DOMAIN physical = Reviewers /\ physical = [r \in Reviewers |-> physical[r]]
  /\ DOMAIN model = Reviewers /\ model = [r \in Reviewers |-> model[r]]

CacheInv ==
  /\ Functions
  /\ BuiltFromKey(schema, Migrations) /\ BuiltFromKey(code, Models)
  /\ \A r \in Reviewers : ReviewFacts(r)

\* A document with the key of a reviewer is what the reviewer would build.
LEMMA KeyOfSeen ==
  ASSUME Quiet, NEW r \in Reviewers, NEW F \in SUBSET Files, NEW document,
         HasKey(document, r), BuiltFromKey(document, F)
  PROVE  document[1].build = Seen(r, F)
<1> DEFINE key == document[1].key[1]
<1>1. key = CacheKey(r) /\ document[1].build = Build(key.files, F, key.tool)
  BY DEF HasKey, BuiltFromKey
<1>2. key.files = [f \in Inventoried |-> seen[r][f]] /\ key.tool = version[r]
  BY <1>1 DEF CacheKey, Key
<1>3. [f \in F |-> key.files[f]] = [f \in F |-> seen[r][f]]
  BY <1>2 DEF Quiet
<1>4. QED
  BY <1>1, <1>2, <1>3 DEF Build, Seen

\* What a reviewer writes was built from what its key hashes.
LEMMA WrittenWithKey ==
  ASSUME Quiet, NEW r \in Reviewers, NEW F \in SUBSET Files
  PROVE  BuiltFromKey(<<[key |-> <<CacheKey(r)>>, build |-> Seen(r, F)]>>, F)
<1>1. CacheKey(r).files = [f \in Inventoried |-> seen[r][f]] /\ CacheKey(r).tool = version[r]
  BY DEF CacheKey, Key
<1>2. [f \in F |-> CacheKey(r).files[f]] = [f \in F |-> seen[r][f]]
  BY <1>1 DEF Quiet
<1>3. QED
  BY <1>1, <1>2 DEF BuiltFromKey, Build, Seen

\* Nothing has been seen or written at first.
LEMMA CacheInvInit == Init => CacheInv
BY DEF Init, CacheInv, Functions, BuiltFromKey, NoDocument, ReviewFacts, Steps

\* What a reviewer holds stays true while nothing of it changes.
LEMMA SameFacts ==
  ASSUME NEW q, ReviewFacts(q), contents' = contents,
         pc'[q] = pc[q], version'[q] = version[q], seen'[q] = seen[q], hit'[q] = hit[q],
         orm'[q] = orm[q], physical'[q] = physical[q], model'[q] = model[q]
  PROVE  ReviewFacts(q)'
<1>1. Seen(q, Models)' = Seen(q, Models) /\ Seen(q, Migrations)' = Seen(q, Migrations)
  BY DEF Seen, Build
<1>2. QED
  BY <1>1 DEF ReviewFacts

\* A reviewer that is idle again has nothing.
LEMMA IdleFacts ==
  ASSUME CacheInv, NEW r \in Reviewers, Idle(r),
         UNCHANGED <<contents, version>>
  PROVE  Functions' /\ \A q \in Reviewers : ReviewFacts(q)'
<1>1. Functions'
  BY DEF Idle, CacheInv, Functions
<1>2. ReviewFacts(r)'
  BY DEF Idle, CacheInv, Functions, ReviewFacts, Steps
<1>3. ASSUME NEW q \in Reviewers \ {r} PROVE ReviewFacts(q)'
  <2>1. /\ pc'[q] = pc[q] /\ seen'[q] = seen[q] /\ hit'[q] = hit[q] /\ orm'[q] = orm[q]
        /\ physical'[q] = physical[q] /\ model'[q] = model[q]
        /\ version'[q] = version[q] /\ contents' = contents
    BY DEF Idle, CacheInv, Functions
  <2>2. QED
    BY <2>1, SameFacts DEF CacheInv
<1>4. QED
  BY <1>1, <1>2, <1>3

\* The step of one reviewer leaves the facts of the others alone.
Others(r) ==
  \A q \in Reviewers \ {r} :
    /\ pc'[q] = pc[q] /\ version'[q] = version[q] /\ seen'[q] = seen[q] /\ hit'[q] = hit[q]
    /\ orm'[q] = orm[q] /\ physical'[q] = physical[q] /\ model'[q] = model[q]

\* So it only has to keep its own.
LEMMA OnlyOwnFacts ==
  ASSUME CacheInv, NEW r \in Reviewers, Others(r), contents' = contents, ReviewFacts(r)'
  PROVE  \A q \in Reviewers : ReviewFacts(q)'
<1>1. ASSUME NEW q \in Reviewers \ {r} PROVE ReviewFacts(q)'
  BY SameFacts DEF Others, CacheInv
<1>2. QED
  BY <1>1

\* Every step of a review keeps the invariant.
LEMMA ReviewKeepsInv ==
  ASSUME Quiet, CacheInv, NEW r \in Reviewers, ReviewStep(r)
  PROVE  CacheInv'
<1>0. ReviewFacts(r) /\ Functions
  BY DEF CacheInv
<1>1. CASE Begin(r)
  <2>1. Functions' /\ Others(r) /\ contents' = contents
    BY <1>1, <1>0 DEF Begin, Goto, Functions, Others
  <2>2. ReviewFacts(r)'
    BY <1>1, <1>0 DEF Begin, Goto, Functions, ReviewFacts, Steps, Seen
  <2>3. QED
    BY <1>1, <2>1, <2>2, OnlyOwnFacts DEF Begin, CacheInv
<1>2. ASSUME NEW f \in Files, HashFile(r, f) PROVE CacheInv'
  <2>1. Functions' /\ Others(r) /\ contents' = contents
    BY <1>2, <1>0 DEF HashFile, Functions, Others
  <2>2. /\ DOMAIN seen'[r] = DOMAIN seen[r] \cup {f}
        /\ \A g \in DOMAIN seen'[r] : seen'[r][g] = contents[g]
    BY <1>2, <1>0 DEF HashFile, Functions, ReviewFacts
  <2>3. pc'[r] = (IF DOMAIN seen'[r] = Files THEN "schema?" ELSE "hash") /\ pc[r] = "hash"
    BY <1>2, <1>0 DEF HashFile, Functions
  <2>4. ReviewFacts(r)'
    <3>1. ~hit'[r]
      BY <1>2, <1>0, <2>3 DEF HashFile, ReviewFacts
    <3>2. /\ pc'[r] \in {"hash", "schema?"}
          /\ pc'[r] = "schema?" => DOMAIN seen'[r] = Files
      BY <2>3
    <3>3. DOMAIN seen'[r] \subseteq Files /\ contents' = contents
      BY <1>2, <1>0, <2>2 DEF HashFile, ReviewFacts
    <3>4. QED
      BY <3>1, <3>2, <3>3, <2>2 DEF ReviewFacts, Steps
  <2>5. QED
    BY <1>2, <2>1, <2>4, OnlyOwnFacts DEF HashFile, CacheInv
<1>3. CASE LookUpSchema(r)
  <2>1. Functions' /\ Others(r) /\ contents' = contents
    BY <1>3, <1>0 DEF LookUpSchema, Functions, Others
  <2>2. HasKey(schema, r) => schema[1].build = Seen(r, Migrations)
    BY KeyOfSeen DEF CacheInv, Files
  <2>3. ReviewFacts(r)'
    <3>1. Seen(r, Models)' = Seen(r, Models) /\ Seen(r, Migrations)' = Seen(r, Migrations)
      BY <1>3 DEF LookUpSchema, Seen, Build
    <3>2. pc[r] = "schema?" /\ ~hit'[r] /\ seen' = seen /\ contents' = contents
      BY <1>3, <1>0 DEF LookUpSchema, ReviewFacts
    <3>3. CASE HasKey(schema, r)
      <4>1. pc'[r] = "code?" /\ physical'[r] = <<Seen(r, Migrations)>>
        BY <1>3, <1>0, <2>2, <3>3 DEF LookUpSchema, Functions
      <4>2. QED
        BY <4>1, <3>1, <3>2, <1>0 DEF ReviewFacts, Steps
    <3>4. CASE ~HasKey(schema, r)
      <4>1. pc'[r] = "models"
        BY <1>3, <1>0, <3>4 DEF LookUpSchema, Functions
      <4>2. QED
        BY <4>1, <3>2, <1>0 DEF ReviewFacts, Steps
    <3>5. QED
      BY <3>3, <3>4
  <2>4. QED
    BY <1>3, <2>1, <2>3, OnlyOwnFacts DEF LookUpSchema, CacheInv
<1>4. CASE LookUpCode(r)
  <2>0. HasKey(code, r) \in BOOLEAN
    BY DEF HasKey
  <2>1. Functions' /\ Others(r) /\ contents' = contents
    BY <1>4, <1>0, <2>0 DEF LookUpCode, Goto, Functions, Others
  <2>2. HasKey(code, r) => code[1].build = Seen(r, Models)
    BY KeyOfSeen DEF CacheInv, Files
  <2>3. ReviewFacts(r)'
    BY <1>4, <1>0, <2>2 DEF LookUpCode, Goto, Functions, ReviewFacts, Steps, Seen
  <2>4. QED
    BY <1>4, <2>1, <2>3, OnlyOwnFacts DEF LookUpCode, CacheInv
<1>5. CASE ParseModels(r)
  <2>1. Functions' /\ Others(r) /\ contents' = contents
    BY <1>5, <1>0 DEF ParseModels, Goto, Functions, Others
  <2>2. Build(contents, Models, version[r]) = Seen(r, Models)
    <3>1. \A f \in Models : contents[f] = seen[r][f]
      BY <1>5, <1>0 DEF ParseModels, Goto, ReviewFacts, Files
    <3>2. QED
      BY <3>1 DEF Build, Seen
  <2>3. ReviewFacts(r)'
    BY <1>5, <1>0, <2>2 DEF ParseModels, Goto, Functions, ReviewFacts, Steps, Seen
  <2>4. QED
    BY <1>5, <2>1, <2>3, OnlyOwnFacts DEF ParseModels, CacheInv
<1>6. CASE ParseMigrations(r)
  <2>1. Functions' /\ Others(r) /\ contents' = contents
    BY <1>6, <1>0 DEF ParseMigrations, Goto, Functions, Others
  <2>2. Build(contents, Migrations, version[r]) = Seen(r, Migrations)
    <3>1. \A f \in Migrations : contents[f] = seen[r][f]
      BY <1>6, <1>0 DEF ParseMigrations, Goto, ReviewFacts, Files
    <3>2. QED
      BY <3>1 DEF Build, Seen
  <2>3. ReviewFacts(r)'
    BY <1>6, <1>0, <2>2 DEF ParseMigrations, Goto, Functions, ReviewFacts, Steps, Seen
  <2>4. QED
    BY <1>6, <2>1, <2>3, OnlyOwnFacts DEF ParseMigrations, CacheInv
<1>7. CASE WriteSchema(r)
  <2>1. Functions' /\ Others(r) /\ contents' = contents
    BY <1>7, <1>0 DEF WriteSchema, Goto, Functions, Others, review
  <2>2. physical[r] = <<Seen(r, Migrations)>>
    BY <1>7, <1>0 DEF WriteSchema, Goto, ReviewFacts
  <2>3. BuiltFromKey(schema', Migrations)
    <3>0. physical[r][1] = Seen(r, Migrations)
      BY <2>2
    <3>1. schema' = <<[key |-> <<CacheKey(r)>>, build |-> Seen(r, Migrations)]>>
      BY <1>7, <3>0 DEF WriteSchema
    <3>2. Migrations \in SUBSET Files
      BY DEF Files
    <3>3. QED
      BY <3>1, <3>2, WrittenWithKey DEF BuiltFromKey
  <2>4. ReviewFacts(r)'
    BY <1>7, <1>0 DEF WriteSchema, Goto, Functions, ReviewFacts, Steps, Seen, review
  <2>5. QED
    BY <1>7, <2>1, <2>3, <2>4, OnlyOwnFacts DEF WriteSchema, CacheInv, BuiltFromKey
<1>8. CASE WriteCode(r)
  <2>1. model[r] = <<Seen(r, Models)>>
    BY <1>8, <1>0 DEF WriteCode, ReviewFacts
  <2>2. BuiltFromKey(code', Models)
    <3>0. model[r][1] = Seen(r, Models)
      BY <2>1
    <3>1. code' = <<[key |-> <<CacheKey(r)>>, build |-> Seen(r, Models)]>>
      BY <1>8, <3>0 DEF WriteCode
    <3>2. Models \in SUBSET Files
      BY DEF Files
    <3>3. QED
      BY <3>1, <3>2, WrittenWithKey DEF BuiltFromKey
  <2>3. QED
    BY <1>8, <2>2, IdleFacts DEF WriteCode, CacheInv, BuiltFromKey
<1>9. QED
  BY <1>1, <1>2, <1>3, <1>4, <1>5, <1>6, <1>7, <1>8 DEF ReviewStep

\* Reviews, their deaths, editors between them, upgrades and captures.
LEMMA CacheInvStep == Quiet /\ CacheInv /\ [Next]_vars => CacheInv'
<1> SUFFICES ASSUME Quiet, CacheInv, [Next]_vars PROVE CacheInv'
  OBVIOUS
<1>1. ASSUME NEW r \in Reviewers, Die(r) PROVE CacheInv'
  BY <1>1, IdleFacts DEF Die, CacheInv, BuiltFromKey
<1>2. ASSUME NEW f \in Files, Edit(f) PROVE CacheInv'
  <2>1. \A r \in Reviewers : pc[r] = "idle"
    BY <1>2 DEF Edit, Quiet
  <2>2. QED
    BY <1>2, <2>1 DEF Edit, review, CacheInv, Functions, BuiltFromKey, ReviewFacts, Seen
<1>3. CASE Upgrade
  BY <1>3 DEF Upgrade, review, CacheInv, Functions, BuiltFromKey, ReviewFacts, Seen
<1>4. CASE CaptureSchema
  BY <1>4 DEF CaptureSchema, review, CacheInv, Functions, BuiltFromKey, ReviewFacts, Seen
<1>5. CASE UNCHANGED vars
  BY <1>5 DEF vars, CacheInv, Functions, BuiltFromKey, ReviewFacts, Seen
<1>6. QED
  BY <1>1, <1>2, <1>3, <1>4, <1>5, ReviewKeepsInv DEF Next

-----------------------------------------------------------------------------
(***************************************************************************)
(* The properties                                                          *)
(***************************************************************************)

\* A cache hit serves a pair built by this version from what the review has
\* seen, however reviews, deaths, captures and upgrades interleave.
THEOREM FreshHits ==
  ASSUME Quiet
  PROVE  Spec => []HitIsFresh
<1>1. CacheInv => HitIsFresh
  <2> SUFFICES ASSUME CacheInv, NEW r \in Reviewers, hit[r]
               PROVE  FreshFrom(physical[r][1], r) /\ FreshFrom(model[r][1], r)
    BY DEF HitIsFresh
  <2>1. physical[r][1] = Seen(r, Migrations) /\ model[r][1] = Seen(r, Models)
    <3>1. physical[r] = <<Seen(r, Migrations)>> /\ model[r] = <<Seen(r, Models)>>
      BY DEF CacheInv, ReviewFacts
    <3>2. QED
      BY <3>1
  <2>2. FreshFrom(Seen(r, Migrations), r) /\ FreshFrom(Seen(r, Models), r)
    BY DEF FreshFrom, Seen, Build
  <2>3. QED
    BY <2>1, <2>2
<1>2. CacheInv /\ [Next]_vars => CacheInv'
  BY CacheInvStep
<1>3. QED
  BY <1>1, <1>2, CacheInvInit, PTL DEF Spec

\* reconcile compares a schema and a code of the same models.
THEOREM ModelsMatch ==
  ASSUME Quiet
  PROVE  Spec => []CodeMatchesModels
<1>1. CacheInv => CodeMatchesModels
  <2> SUFFICES ASSUME CacheInv, NEW r \in Reviewers, pc[r] \in {"write schema", "write code"}
               PROVE  model[r][1].from = orm[r][1]
    BY DEF CodeMatchesModels
  <2>1. model[r] = <<Seen(r, Models)>> /\ orm[r] = <<[f \in Models |-> contents[f]]>>
    BY DEF CacheInv, ReviewFacts
  <2>2. \A f \in Models : seen[r][f] = contents[f]
    BY DEF CacheInv, ReviewFacts, Files
  <2>3. [f \in Models |-> seen[r][f]] = [f \in Models |-> contents[f]]
    BY <2>2
  <2>4. Seen(r, Models).from = [f \in Models |-> contents[f]]
    BY <2>3 DEF Seen, Build
  <2>5. \A t : <<t>>[1] = t
    OBVIOUS
  <2>6. model[r][1] = Seen(r, Models) /\ orm[r][1] = [f \in Models |-> contents[f]]
    BY <2>1, <2>5, Zenon
  <2>7. QED
    BY <2>4, <2>6, Zenon
<1>2. CacheInv /\ [Next]_vars => CacheInv'
  BY CacheInvStep
<1>3. QED
  BY <1>1, <1>2, CacheInvInit, PTL DEF Spec

(***************************************************************************)
(* Types of the cache                                                      *)
(***************************************************************************)

\* What a reviewer has at each step: a review that goes on has seen all files, and one
\* that writes a document has built it.
Held(r) ==
  /\ pc[r] \notin {"idle", "hash"} => DOMAIN seen[r] = Files
  /\ hit[r] => pc[r] \in {"models", "write schema", "write code"}
  /\ hit[r] \/ pc[r] \in {"code?", "write schema", "write code"} => physical[r] # <<>>
  /\ hit[r] \/ pc[r] \in {"migrations", "write schema", "write code"} => model[r] # <<>>

CacheTypeInv == TypeOK /\ \A r \in Reviewers : Held(r)

\* What was seen so far is part of a tree, and so is one file more.
LEMMA SeenIsPartial ==
  ASSUME TypeOK, NEW r \in Reviewers
  PROVE  /\ [f \in {} |-> 0] \in Partial(Files)
         /\ \A f \in Files : [g \in DOMAIN seen[r] \cup {f} |->
                                IF g = f THEN contents[f] ELSE seen[r][g]] \in Partial(Files)
         /\ DOMAIN seen[r] = Files => seen[r] \in Trees(Files)
<1>1. PICK G \in SUBSET Files : seen[r] \in [G -> Contents]
  BY DEF TypeOK, Partial, Trees
<1>2. [f \in {} |-> 0] \in Partial(Files)
  <2>1. [f \in {} |-> 0] \in [{} -> Contents]
    OBVIOUS
  <2>2. QED
    BY <2>1 DEF Partial, Trees
<1>3. ASSUME NEW f \in Files
      PROVE  [g \in DOMAIN seen[r] \cup {f} |-> IF g = f THEN contents[f] ELSE seen[r][g]]
               \in Partial(Files)
  <2>1. [g \in G \cup {f} |-> IF g = f THEN contents[f] ELSE seen[r][g]] \in [G \cup {f} -> Contents]
    BY <1>1 DEF TypeOK, Trees
  <2>2. G \cup {f} \in SUBSET Files /\ DOMAIN seen[r] = G
    BY <1>1
  <2>3. QED
    BY <2>1, <2>2 DEF Partial, Trees
<1>4. DOMAIN seen[r] = Files => seen[r] \in Trees(Files)
  BY <1>1 DEF Trees
<1>5. QED
  BY <1>2, <1>3, <1>4

\* What is built of a tree, and the key of it.
LEMMA BuildOfTree ==
  ASSUME NEW tree \in Trees(Files), NEW t \in Tools
  PROVE  /\ \A F \in SUBSET Files : Build(tree, F, t) \in Builds(F)
         /\ Key(tree, t) \in Keys
<1>1. ASSUME NEW F \in SUBSET Files PROVE [f \in F |-> tree[f]] \in [F -> Contents]
  BY DEF Trees
<1>2. \A F \in SUBSET Files : Build(tree, F, t) \in Builds(F)
  BY <1>1 DEF Build, Builds, Trees
<1>3. Key(tree, t) \in Keys
  BY <1>1, InventoriedAssumption DEF Key, Keys, Trees, Files
<1>4. QED
  BY <1>2, <1>3

\* A reviewer that is idle again has nothing, and nothing is asked of it.
LEMMA IdleTypes ==
  ASSUME CacheTypeInv, NEW r \in Reviewers, Idle(r), UNCHANGED <<contents, tool, version>>,
         schema' \in {<<>>} \cup {<<d>> : d \in Documents(Migrations)},
         code' \in {<<>>} \cup {<<d>> : d \in Documents(Models)}
  PROVE  CacheTypeInv'
<1>1. TypeOK'
  BY SeenIsPartial DEF CacheTypeInv, TypeOK, Idle, Steps
<1>2. ASSUME NEW q \in Reviewers PROVE Held(q)'
  BY DEF CacheTypeInv, TypeOK, Idle, Held
<1>3. QED
  BY <1>1, <1>2 DEF CacheTypeInv

LEMMA CacheTypeInit == Init => CacheTypeInv
<1> SUFFICES ASSUME Init PROVE CacheTypeInv
  OBVIOUS
<1>1. [f \in {} |-> 0] \in Partial(Files)
  <2>1. [f \in {} |-> 0] \in [{} -> Contents]
    OBVIOUS
  <2>2. QED
    BY <2>1 DEF Partial, Trees
<1>2. QED
  BY <1>1 DEF Init, CacheTypeInv, TypeOK, Held, NoDocument, Steps

LEMMA CacheTypeStep == CacheTypeInv /\ [Next]_vars => CacheTypeInv'
<1> SUFFICES ASSUME CacheTypeInv, [Next]_vars PROVE CacheTypeInv'
  OBVIOUS
<1>0. TypeOK /\ contents \in Trees(Files) /\ tool \in Tools
      /\ Models \in SUBSET Files /\ Migrations \in SUBSET Files
  BY DEF CacheTypeInv, TypeOK, Files
<1>1. ASSUME NEW r \in Reviewers, Begin(r) PROVE CacheTypeInv'
  BY <1>1 DEF CacheTypeInv, TypeOK, Begin, Goto, Held, Steps
<1>2. ASSUME NEW r \in Reviewers, NEW f \in Files, HashFile(r, f) PROVE CacheTypeInv'
  <2>1. seen' \in [Reviewers -> Partial(Files)]
    <3> DEFINE tree == [g \in DOMAIN seen[r] \cup {f} |-> IF g = f THEN contents[f] ELSE seen[r][g]]
    <3>1. tree \in Partial(Files) /\ seen' = [seen EXCEPT ![r] = tree]
      BY <1>0, <1>2, SeenIsPartial DEF HashFile
    <3> HIDE DEF tree
    <3>2. QED
      BY <1>0, <3>1 DEF TypeOK
  <2>2. TypeOK'
    BY <1>2, <2>1 DEF CacheTypeInv, TypeOK, HashFile, Steps
  <2>3. ASSUME NEW q \in Reviewers PROVE Held(q)'
    BY <1>2 DEF CacheTypeInv, TypeOK, HashFile, Held
  <2>4. QED
    BY <2>2, <2>3 DEF CacheTypeInv
<1>3. ASSUME NEW r \in Reviewers, LookUpSchema(r) PROVE CacheTypeInv'
  <2>1. ASSUME HasKey(schema, r) PROVE schema[1].build \in Builds(Migrations)
    BY <1>0, <2>1 DEF HasKey, NoDocument, TypeOK, Documents
  <2>2. CASE HasKey(schema, r)
    <3>1. /\ physical' = [physical EXCEPT ![r] = <<schema[1].build>>]
          /\ pc' = [pc EXCEPT ![r] = "code?"] /\ pc[r] = "schema?"
          /\ UNCHANGED <<contents, tool, schema, code, version, seen, hit, orm, model>>
      BY <1>3, <2>2 DEF LookUpSchema
    <3>2. TypeOK'
      BY <1>0, <2>1, <2>2, <3>1 DEF TypeOK, Steps
    <3>3. ASSUME NEW q \in Reviewers PROVE Held(q)'
      BY <3>1 DEF CacheTypeInv, TypeOK, Held
    <3>4. QED
      BY <3>2, <3>3 DEF CacheTypeInv
  <2>3. CASE ~HasKey(schema, r)
    <3>1. /\ pc' = [pc EXCEPT ![r] = "models"] /\ pc[r] = "schema?"
          /\ UNCHANGED <<contents, tool, schema, code, version, seen, hit, orm, physical, model>>
      BY <1>3, <2>3 DEF LookUpSchema
    <3>2. QED
      BY <3>1 DEF CacheTypeInv, TypeOK, Held, Steps
  <2>4. QED
    BY <2>2, <2>3
<1>4. ASSUME NEW r \in Reviewers, LookUpCode(r) PROVE CacheTypeInv'
  <2>1. ASSUME HasKey(code, r) PROVE code[1].build \in Builds(Models)
    BY <1>0, <2>1 DEF HasKey, NoDocument, TypeOK, Documents
  <2>2. CASE HasKey(code, r)
    <3>1. /\ pc' = [pc EXCEPT ![r] = "models"] /\ pc[r] = "code?"
          /\ hit' = [hit EXCEPT ![r] = TRUE]
          /\ model' = [model EXCEPT ![r] = <<code[1].build>>]
          /\ UNCHANGED <<contents, tool, schema, code, version, seen, orm, physical>>
      BY <1>4, <2>2 DEF LookUpCode, Goto
    <3>2. TypeOK'
      BY <1>0, <2>1, <2>2, <3>1 DEF TypeOK, Steps
    <3>3. ASSUME NEW q \in Reviewers PROVE Held(q)'
      BY <3>1 DEF CacheTypeInv, TypeOK, Held
    <3>4. QED
      BY <3>2, <3>3 DEF CacheTypeInv
  <2>3. CASE ~HasKey(code, r)
    <3>1. /\ pc' = [pc EXCEPT ![r] = "models"] /\ pc[r] = "code?"
          /\ hit' = [hit EXCEPT ![r] = FALSE]
          /\ physical' = [physical EXCEPT ![r] = <<>>]
          /\ UNCHANGED <<contents, tool, schema, code, version, seen, orm, model>>
      <4>1. HasKey(code, r) = FALSE
        BY <2>3 DEF HasKey
      <4>2. QED
        BY <1>4, <2>3, <4>1 DEF LookUpCode, Goto
    <3>2. TypeOK'
      BY <1>0, <3>1 DEF TypeOK, Steps
    <3>3. ASSUME NEW q \in Reviewers PROVE Held(q)'
      BY <3>1 DEF CacheTypeInv, TypeOK, Held
    <3>4. QED
      BY <3>2, <3>3 DEF CacheTypeInv
  <2>4. QED
    BY <2>2, <2>3
<1>5. ASSUME NEW r \in Reviewers, ParseModels(r) PROVE CacheTypeInv'
  <2>1. [f \in Models |-> contents[f]] \in Trees(Models)
        /\ Build(contents, Models, version[r]) \in Builds(Models)
    BY <1>0, BuildOfTree DEF Trees, TypeOK
  <2>2. TypeOK'
    <3>1. model' \in [Reviewers -> {<<>>} \cup {<<b>> : b \in Builds(Models)}]
      BY <1>0, <1>5, <2>1 DEF TypeOK, ParseModels
    <3>2. orm' \in [Reviewers -> {<<>>} \cup {<<t>> : t \in Trees(Models)}]
      BY <1>0, <1>5, <2>1 DEF TypeOK, ParseModels
    <3>3. pc' \in [Reviewers -> Steps]
      BY <1>0, <1>5 DEF TypeOK, ParseModels, Goto, Steps
    <3>4. QED
      BY <1>0, <1>5, <3>1, <3>2, <3>3 DEF TypeOK, ParseModels
  <2>3. ASSUME NEW q \in Reviewers PROVE Held(q)'
    BY <1>5 DEF CacheTypeInv, TypeOK, ParseModels, Goto, Held
  <2>4. QED
    BY <2>2, <2>3 DEF CacheTypeInv
<1>6. ASSUME NEW r \in Reviewers, ParseMigrations(r) PROVE CacheTypeInv'
  <2>1. Build(contents, Migrations, version[r]) \in Builds(Migrations)
    BY <1>0, BuildOfTree DEF TypeOK
  <2>2. TypeOK'
    BY <1>0, <1>6, <2>1 DEF TypeOK, ParseMigrations, Goto, Steps
  <2>3. ASSUME NEW q \in Reviewers PROVE Held(q)'
    BY <1>6 DEF CacheTypeInv, TypeOK, ParseMigrations, Goto, Held
  <2>4. QED
    BY <2>2, <2>3 DEF CacheTypeInv
<1>7. ASSUME NEW r \in Reviewers, pc[r] \in {"write schema", "write code"}
      PROVE  /\ [key |-> <<CacheKey(r)>>, build |-> physical[r][1]] \in Documents(Migrations)
             /\ [key |-> <<CacheKey(r)>>, build |-> model[r][1]] \in Documents(Models)
  <2>1. DOMAIN seen[r] = Files /\ physical[r] # <<>> /\ model[r] # <<>>
    BY <1>7 DEF CacheTypeInv, Held
  <2>2. seen[r] \in Trees(Files) /\ version[r] \in Tools
    BY <1>0, <2>1, SeenIsPartial DEF TypeOK
  <2>3. CacheKey(r) \in Keys
    BY <2>2, BuildOfTree DEF CacheKey
  <2>4. physical[r][1] \in Builds(Migrations) /\ model[r][1] \in Builds(Models)
    BY <1>0, <2>1 DEF TypeOK
  <2>5. QED
    BY <2>3, <2>4 DEF Documents
<1>8. ASSUME NEW r \in Reviewers, WriteSchema(r) PROVE CacheTypeInv'
  <2>1. pc[r] \in {"write schema", "write code"}
    BY <1>8 DEF WriteSchema, Goto
  <2>2. schema' \in {<<d>> : d \in Documents(Migrations)}
    BY <1>7, <1>8, <2>1 DEF WriteSchema
  <2>3. TypeOK'
    BY <1>0, <1>8, <2>2 DEF TypeOK, WriteSchema, Goto, Steps, review
  <2>4. ASSUME NEW q \in Reviewers PROVE Held(q)'
    BY <1>8 DEF CacheTypeInv, TypeOK, WriteSchema, Goto, Held, review
  <2>5. QED
    BY <2>3, <2>4 DEF CacheTypeInv
<1>9. ASSUME NEW r \in Reviewers, WriteCode(r) PROVE CacheTypeInv'
  <2>1. pc[r] \in {"write schema", "write code"}
    BY <1>9 DEF WriteCode
  <2>2. code' \in {<<d>> : d \in Documents(Models)}
    BY <1>7, <1>9, <2>1 DEF WriteCode
  <2>3. Idle(r) /\ UNCHANGED <<contents, tool, version>> /\ schema' = schema
    BY <1>9 DEF WriteCode
  <2>4. QED
    BY <1>0, <2>2, <2>3, IdleTypes DEF TypeOK
<1>10. ASSUME NEW r \in Reviewers, Die(r) PROVE CacheTypeInv'
  <2>1. Idle(r) /\ UNCHANGED <<contents, tool, version>> /\ schema' = schema /\ code' = code
    BY <1>10 DEF Die
  <2>2. QED
    BY <1>0, <2>1, IdleTypes DEF TypeOK
<1>11. ASSUME NEW f \in Files, Edit(f) PROVE CacheTypeInv'
  <2>1. contents' \in Trees(Files)
    BY <1>0, <1>11 DEF Edit, Trees
  <2>2. QED
    BY <1>11, <2>1 DEF CacheTypeInv, TypeOK, Edit, Held, review
<1>12. CASE Upgrade
  BY <1>12 DEF Upgrade, CacheTypeInv, TypeOK, Held, review
<1>13. CASE CaptureSchema
  <2>1. [key |-> <<>>, build |-> Build(contents, Migrations, tool)] \in Documents(Migrations)
    BY <1>0, BuildOfTree DEF Documents
  <2>2. QED
    BY <1>13, <2>1 DEF CaptureSchema, CacheTypeInv, TypeOK, Held, review
<1>14. CASE UNCHANGED vars
  BY <1>14 DEF vars, CacheTypeInv, TypeOK, Held
<1>15. QED
  BY <1>1, <1>2, <1>3, <1>4, <1>5, <1>6, <1>8, <1>9, <1>10, <1>11, <1>12, <1>13, <1>14
  DEF Next, ReviewStep

\* Whatever is edited, upgraded, captured or killed: a key is of what the inventory has, a
\* document is of whole trees, and nothing is written that was not built.
THEOREM CacheTypeCorrect == Spec => []TypeOK
<1>1. CacheTypeInv => TypeOK
  BY DEF CacheTypeInv
<1>2. QED
  BY <1>1, CacheTypeInit, CacheTypeStep, PTL DEF Spec

-----------------------------------------------------------------------------
(***************************************************************************)
(* The decision log                                                        *)
(***************************************************************************)

Grounded(d) == d.recommendation \in DOMAIN d.input_manifest_hash.found
GroundedDecisions == {d \in Decisions : Grounded(d)}

\* The inductive invariant of the first theorem: whatever a request has read or
\* made is as grounded as the log it comes from or goes to.
GroundedInv ==
  /\ reviews \in 0..MaxReviews
  /\ recommendations = <<>> \/ \E d \in Envelopes : recommendations = <<d>>
  /\ log \in Seq(GroundedDecisions)
  /\ progress \in [Requests -> {"new", "read", "log", "write", "answered", "refused"}]
  /\ asked \in [Requests -> Asks]
  /\ draft \in [Requests -> {<<>>} \cup {<<d>> : d \in GroundedDecisions}]
  /\ base \in [Requests -> Seq(GroundedDecisions)]
  /\ written \in Seq(Requests) /\ heard \in [Requests -> Nat]
  /\ \A q \in Requests : progress[q] \in {"log", "write"} => draft[q] # <<>>

\* A log that a request writes is the one it read, one decision longer.
LEMMA LongerLog ==
  ASSUME NEW S, NEW old \in Seq(S), NEW d \in S
  PROVE  /\ old \o <<d>> \in Seq(S)
         /\ Len(old \o <<d>>) = Len(old) + 1 /\ Len(old) \in Nat
         /\ DOMAIN old = 1..Len(old)
         /\ DOMAIN (old \o <<d>>) = 1..(Len(old) + 1)
         /\ \A k \in DOMAIN old : (old \o <<d>>)[k] = old[k]
         /\ (old \o <<d>>)[Len(old) + 1] = d
<1>1. <<d>> \in Seq(S) /\ Len(<<d>>) = 1 /\ <<d>>[1] = d
  OBVIOUS
<1>2. /\ old \o <<d>> \in Seq(S)
      /\ Len(old \o <<d>>) = Len(old) + 1
      /\ \A i \in 1..(Len(old) + 1) :
           (old \o <<d>>)[i] = IF i <= Len(old) THEN old[i] ELSE <<d>>[i - Len(old)]
  BY <1>1, ConcatProperties
<1>3. Len(old) \in Nat /\ DOMAIN old = 1..Len(old)
  BY LenProperties
<1>4. DOMAIN (old \o <<d>>) = 1..(Len(old) + 1)
  BY <1>2, LenProperties
<1>5. (old \o <<d>>)[Len(old) + 1] = d
  BY <1>1, <1>2, <1>3
<1>6. \A k \in DOMAIN old : (old \o <<d>>)[k] = old[k]
  BY <1>2, <1>3
<1>7. QED
  BY <1>2, <1>3, <1>4, <1>5, <1>6

\* The step that writes the log, with what it writes.
LEMMA WriteLogStep ==
  ASSUME GroundedInv, NEW q \in Requests, WriteLog(q)
  PROVE  \E d \in GroundedDecisions : draft[q] = <<d>> /\ log' = base[q] \o <<d>>
<1>1. draft[q] # <<>>
  BY DEF WriteLog, GroundedInv
<1>2. draft[q] \in {<<>>} \cup {<<d>> : d \in GroundedDecisions}
  BY DEF GroundedInv
<1>3. QED
  BY <1>1, <1>2 DEF WriteLog

LEMMA GroundedInit == InitLog => GroundedInv
<1> SUFFICES ASSUME InitLog PROVE GroundedInv
  OBVIOUS
<1>1. <<>> \in Seq(GroundedDecisions) /\ <<>> \in Seq(Requests)
  BY EmptySeq
<1>2. QED
  BY <1>1, MaxReviewsAssumption DEF InitLog, GroundedInv

LEMMA GroundedStep == GroundedInv /\ [NextLog]_logVars => GroundedInv'
<1> SUFFICES ASSUME GroundedInv, [NextLog]_logVars PROVE GroundedInv'
  OBVIOUS
<1>1. ASSUME NEW q \in Requests, Receive(q) PROVE GroundedInv'
  BY <1>1 DEF Receive, GroundedInv, history
<1>2. ASSUME NEW q \in Requests, ReadRecommendations(q) PROVE GroundedInv'
  <2>1. CASE Refused(q)
    BY <1>2, <2>1 DEF ReadRecommendations, GroundedInv, history
  <2>2. CASE ~Refused(q)
    <3>1. PICK d \in Envelopes : recommendations = <<d>>
      BY <2>2 DEF Refused, GroundedInv
    <3>2. recommendations[1] = d
      BY <3>1
    <3>3. /\ asked[q].recommendation \in Recommendations
          /\ asked[q].recommendation \in DOMAIN d.found
          /\ asked[q].kind \in Kinds
      BY <2>2, <3>2 DEF Refused, GroundedInv, Asks
    <3>4. Decision(q) \in GroundedDecisions
      BY <3>2, <3>3 DEF Decision, Decisions, Hash, Grounded, GroundedDecisions
    <3>5. draft' \in [Requests -> {<<>>} \cup {<<e>> : e \in GroundedDecisions}]
      BY <1>2, <2>2, <3>4 DEF ReadRecommendations, GroundedInv
    <3>6. \A p \in Requests : progress'[p] \in {"log", "write"} => draft'[p] # <<>>
      <4>1. <<Decision(q)>> # <<>>
        OBVIOUS
      <4>2. /\ draft'[q] = <<Decision(q)>>
            /\ \A p \in Requests \ {q} : progress'[p] = progress[p] /\ draft'[p] = draft[p]
        BY <1>2, <2>2 DEF ReadRecommendations, GroundedInv
      <4>3. QED
        BY <4>1, <4>2 DEF GroundedInv
    <3>7. QED
      BY <1>2, <2>2, <3>5, <3>6 DEF ReadRecommendations, GroundedInv, history
  <2>3. QED
    BY <2>1, <2>2
<1>3. ASSUME NEW q \in Requests, ReadLog(q) PROVE GroundedInv'
  <2>1. Len(written) \in Nat
    BY LenProperties DEF GroundedInv
  <2>2. QED
    BY <1>3, <2>1 DEF ReadLog, GroundedInv
<1>4. ASSUME NEW q \in Requests, WriteLog(q) PROVE GroundedInv'
  <2>1. PICK d \in GroundedDecisions : log' = base[q] \o <<d>>
    BY <1>4, WriteLogStep
  <2>2. log' \in Seq(GroundedDecisions)
    BY <2>1, LongerLog DEF GroundedInv
  <2>3. written' \in Seq(Requests)
    BY <1>4, AppendProperties DEF WriteLog, GroundedInv
  <2>4. QED
    BY <1>4, <2>2, <2>3 DEF WriteLog, GroundedInv
<1>5. CASE Review
  <2>1. reviews + 1 \in 1..MaxReviews /\ reviews + 1 \in 0..MaxReviews
    BY <1>5, MaxReviewsAssumption DEF Review, GroundedInv
  <2>2. \E d \in Envelopes : recommendations' = <<d>>
    BY <1>5, <2>1 DEF Review, Envelopes
  <2>3. QED
    BY <1>5, <2>1, <2>2 DEF Review, GroundedInv, history
<1>6. CASE UNCHANGED logVars
  BY <1>6 DEF logVars, GroundedInv
<1>7. QED
  BY <1>1, <1>2, <1>3, <1>4, <1>5, <1>6 DEF NextLog, Handle

\* However the requests and reviews interleave, every decision in the log is of
\* a recommendation that the document it names as its evidence made.
THEOREM GroundedLog == SpecLog => []DecisionsAreGrounded
<1>1. GroundedInv => DecisionsAreGrounded
  BY ElementOfSeq, LenProperties DEF GroundedInv, DecisionsAreGrounded, GroundedDecisions, Grounded
<1>2. QED
  BY <1>1, GroundedInit, GroundedStep, PTL DEF SpecLog

\* The variables of the decision log keep their types, however its requests interleave.
THEOREM LogTypeCorrect == SpecLog => []LogTypeOK
<1>1. GroundedInv => LogTypeOK
  <2> SUFFICES ASSUME GroundedInv PROVE LogTypeOK
    OBVIOUS
  <2>1. GroundedDecisions \subseteq Decisions
    BY DEF GroundedDecisions
  <2>2. \A s \in Seq(GroundedDecisions) : s \in Seq(Decisions)
    <3>1. SUFFICES ASSUME NEW s \in Seq(GroundedDecisions) PROVE s \in Seq(Decisions)
      OBVIOUS
    <3>2. s \in [1..Len(s) -> GroundedDecisions] /\ Len(s) \in Nat
      BY LenProperties
    <3>3. s \in [1..Len(s) -> Decisions]
      BY <2>1, <3>2
    <3>4. QED
      BY <3>2, <3>3, SeqDef
  <2>3. log \in Seq(Decisions) /\ base \in [Requests -> Seq(Decisions)]
    BY <2>2 DEF GroundedInv
  <2>4. draft \in [Requests -> {<<>>} \cup {<<d>> : d \in Decisions}]
    BY <2>1 DEF GroundedInv
  <2>5. QED
    BY <2>3, <2>4 DEF GroundedInv, LogTypeOK
<1>2. QED
  BY <1>1, GroundedInit, GroundedStep, PTL DEF SpecLog

(***************************************************************************)
(* What overlapping requests lose                                          *)
(***************************************************************************)

\* A set of positions in a list that is not empty has a last one.
LEMMA LastPosition ==
  ASSUME NEW n \in Nat, NEW S \in SUBSET (1..n), S # {}
  PROVE  \E k \in S : \A j \in S : j <= k
<1> DEFINE R == StrictSubsetOrdering(Nat)
           T == {k..n : k \in S}
<1>1. T \subseteq FiniteSubsetsOf(Nat) /\ T # {}
  <2>1. ASSUME NEW k \in S PROVE k..n \in FiniteSubsetsOf(Nat)
    <3>1. IsFiniteSet(k..n) /\ k..n \subseteq Nat
      BY FS_Interval
    <3>2. QED
      BY <3>1 DEF FiniteSubsetsOf
  <2>2. QED
    BY <2>1
<1>2. \E x \in T : \A y \in T : ~(<<y, x>> \in R)
  <2> HIDE DEF T
  <2>1. IsWellFoundedOn(R, FiniteSubsetsOf(Nat))
    BY FS_StrictSubsetOrderingWellFounded
  <2>2. QED
    BY <1>1, <2>1, WFMin
<1>3. PICK k \in S : \A j \in S : ~(<<j..n, k..n>> \in R)
  BY <1>2
<1>4. ASSUME NEW j \in S, ~(j <= k) PROVE FALSE
  <2>1. j..n \subseteq k..n /\ k \in k..n /\ k \notin j..n
    BY <1>4
  <2>2. <<j..n, k..n>> \in R
    BY <2>1 DEF StrictSubsetOrdering
  <2>3. QED
    BY <1>3, <2>2
<1>5. QED
  BY <1>3, <1>4

\* A log holds what was written, in the order in which it was: an old log that a
\* request has read, and the one on disk.
Ordered(s, w, d) ==
  /\ \A k \in DOMAIN s : \E j \in DOMAIN w : d[w[j]] = <<s[k]>>
  /\ \A k, l \in DOMAIN s, i, j \in DOMAIN w :
       k < l /\ d[w[i]] = <<s[k]>> /\ d[w[j]] = <<s[l]>> => i < j

\* Of the first n writes a log holds all but those overtaken by one of them.
Holds(s, n, w, d, h) ==
  \A j \in DOMAIN w : j <= n =>
    \/ \E k \in DOMAIN s : <<s[k]>> = d[w[j]]
    \/ \E k \in DOMAIN w : j < k /\ k <= n /\ h[w[k]] < j

\* The requests that have written are those that were answered, each once, and
\* what a request has read is what the first writers left.
OverlapInv ==
  /\ \A q \in Requests : progress[q] = "answered" <=> \E j \in DOMAIN written : written[j] = q
  /\ \A i, j \in DOMAIN written : written[i] = written[j] => i = j
  /\ \A q \in Requests : \A k \in DOMAIN draft[q] : draft[q][k].request = q
  /\ \A q \in Requests : progress[q] = "answered" => draft[q] # <<>>
  /\ Ordered(log, written, draft) /\ Holds(log, Len(written), written, draft, heard)
  /\ \A q \in Requests : progress[q] = "write" =>
       /\ heard[q] <= Len(written)
       /\ Ordered(base[q], written, draft) /\ Holds(base[q], heard[q], written, draft, heard)

LEMMA OverlapInit == InitLog => OverlapInv
BY DEF InitLog, OverlapInv, Ordered, Holds

LEMMA WrittenSequence ==
  ASSUME GroundedInv
  PROVE  /\ Len(written) \in Nat /\ DOMAIN written = 1..Len(written)
         /\ \A j \in DOMAIN written : written[j] \in Requests
         /\ Len(log) \in Nat /\ DOMAIN log = 1..Len(log)
BY LenProperties, ElementOfSeq DEF GroundedInv

\* A step of a request that has not written changes nothing that a log is
\* compared with.
LEMMA SameWrites ==
  ASSUME GroundedInv, OverlapInv, NEW q \in Requests, progress[q] # "answered",
         written' = written,
         \A p \in Requests \ {q} : draft'[p] = draft[p] /\ heard'[p] = heard[p],
         NEW s
  PROVE  /\ Ordered(s, written, draft) => Ordered(s, written', draft')
         /\ \A n \in Nat :
              Holds(s, n, written, draft, heard) => Holds(s, n, written', draft', heard')
<1>1. \A j \in DOMAIN written : written[j] \in Requests \ {q}
  BY WrittenSequence DEF OverlapInv
<1>2. \A j \in DOMAIN written : draft'[written'[j]] = draft[written[j]]
                             /\ heard'[written'[j]] = heard[written[j]]
  BY <1>1
<1>3. QED
  BY <1>2 DEF Ordered, Holds

\* The write of a request, seen from a log.
LEMMA OneMoreWrite ==
  ASSUME GroundedInv, OverlapInv, NEW q \in Requests, WriteLog(q), NEW s
  PROVE  /\ DOMAIN written' = 1..(Len(written) + 1) /\ Len(written') = Len(written) + 1
         /\ \A j \in DOMAIN written : written'[j] = written[j] /\ written[j] # q
         /\ written'[Len(written) + 1] = q
         /\ \A n \in Nat : n <= Len(written) /\ Holds(s, n, written, draft, heard)
              => Holds(s, n, written', draft', heard')
         /\ Ordered(s, written, draft) => Ordered(s, written', draft')
<1>1. /\ DOMAIN written' = 1..(Len(written) + 1) /\ Len(written') = Len(written) + 1
      /\ \A j \in DOMAIN written : written'[j] = written[j]
      /\ written'[Len(written) + 1] = q
  BY WrittenSequence, AppendProperties, LenProperties DEF WriteLog, GroundedInv
<1>2. \A j \in DOMAIN written : written[j] # q
  BY DEF WriteLog, OverlapInv
<1>3. /\ draft' = draft /\ heard' = heard
      /\ Len(written) \in Nat /\ DOMAIN written = 1..Len(written)
  BY WrittenSequence DEF WriteLog
<1>4. ASSUME NEW n \in Nat, n <= Len(written), Holds(s, n, written, draft, heard)
      PROVE  Holds(s, n, written', draft', heard')
  BY <1>1, <1>3, <1>4 DEF Holds
<1>5. ASSUME Ordered(s, written, draft) PROVE Ordered(s, written', draft')
  <2>1. PICK d \in GroundedDecisions : draft[q] = <<d>>
    BY WriteLogStep
  <2>2. d.request = q
    BY <2>1 DEF OverlapInv
  <2>3. \A k \in DOMAIN s : draft[q] # <<s[k]>>
    <3> SUFFICES ASSUME NEW k \in DOMAIN s, draft[q] = <<s[k]>> PROVE FALSE
      OBVIOUS
    <3>1. PICK j \in DOMAIN written : draft[written[j]] = <<s[k]>>
      BY <1>5 DEF Ordered
    <3>2. written[j] \in Requests /\ draft[written[j]] = <<d>>
      BY <2>1, <3>1, WrittenSequence
    <3>3. d.request = written[j]
      BY <3>2 DEF OverlapInv
    <3>4. QED
      BY <1>2, <2>2, <3>3
  <2>4. ASSUME NEW k \in DOMAIN s, NEW i \in DOMAIN written', draft'[written'[i]] = <<s[k]>>
        PROVE  i \in DOMAIN written /\ draft[written[i]] = <<s[k]>>
    BY <1>1, <1>3, <2>3, <2>4
  <2>5. ASSUME NEW k \in DOMAIN s PROVE \E j \in DOMAIN written' : draft'[written'[j]] = <<s[k]>>
    <3>1. PICK j \in DOMAIN written : draft[written[j]] = <<s[k]>>
      BY <1>5 DEF Ordered
    <3>2. QED
      BY <1>1, <1>3, <3>1
  <2>6. ASSUME NEW k \in DOMAIN s, NEW l \in DOMAIN s,
               NEW i \in DOMAIN written', NEW j \in DOMAIN written',
               k < l, draft'[written'[i]] = <<s[k]>>, draft'[written'[j]] = <<s[l]>>
        PROVE  i < j
    BY <1>5, <2>4, <2>6 DEF Ordered
  <2>7. QED
    BY <2>5, <2>6 DEF Ordered
<1>6. QED
  BY <1>1, <1>2, <1>4, <1>5

\* What holds after a step of the log that a request has read.
Kept(p) ==
  /\ heard'[p] <= Len(written')
  /\ Ordered(base'[p], written', draft')
  /\ Holds(base'[p], heard'[p], written', draft', heard')

LEMMA OverlapStep == GroundedInv /\ OverlapInv /\ [NextLog]_logVars => OverlapInv'
<1> SUFFICES ASSUME GroundedInv, OverlapInv, [NextLog]_logVars PROVE OverlapInv'
  OBVIOUS
<1>0. /\ progress \in [Requests -> {"new", "read", "log", "write", "answered", "refused"}]
      /\ draft \in [Requests -> {<<>>} \cup {<<d>> : d \in GroundedDecisions}]
      /\ base \in [Requests -> Seq(GroundedDecisions)] /\ heard \in [Requests -> Nat]
  BY DEF GroundedInv
<1>a. Len(written) \in Nat /\ DOMAIN written = 1..Len(written)
  BY WrittenSequence
<1>1. ASSUME NEW q \in Requests, Receive(q) PROVE OverlapInv'
  BY <1>0, <1>1 DEF Receive, OverlapInv, history
<1>2. ASSUME NEW q \in Requests, ReadRecommendations(q) PROVE OverlapInv'
  <2>1. /\ progress[q] = "read" /\ progress'[q] \in {"refused", "log"}
        /\ \A p \in Requests \ {q} : progress'[p] = progress[p] /\ draft'[p] = draft[p]
        /\ log' = log /\ base' = base /\ written' = written /\ heard' = heard
        /\ draft'[q] = draft[q] \/ draft'[q] = <<Decision(q)>>
    BY <1>0, <1>2 DEF ReadRecommendations, history
  <2>2. \A k \in DOMAIN draft'[q] : draft'[q][k].request = q
    <3>1. CASE draft'[q] = draft[q]
      BY <3>1 DEF OverlapInv
    <3>2. CASE draft'[q] = <<Decision(q)>>
      BY <3>2 DEF Decision
    <3>3. QED
      BY <2>1, <3>1, <3>2
  <2>3. \A s :
         /\ Ordered(s, written, draft) => Ordered(s, written', draft')
         /\ \A n \in Nat :
              Holds(s, n, written, draft, heard) => Holds(s, n, written', draft', heard')
    BY <2>1, SameWrites
  <2>4. Ordered(log', written', draft') /\ Holds(log', Len(written'), written', draft', heard')
    <3>1. Ordered(log, written, draft) /\ Holds(log, Len(written), written, draft, heard)
      BY DEF OverlapInv
    <3>2. QED
      BY <1>a, <2>1, <2>3, <3>1
  <2>5. \A p \in Requests : progress'[p] = "write" =>
           Kept(p)
    <3> SUFFICES ASSUME NEW p \in Requests, progress'[p] = "write"
                 PROVE  Kept(p)
      OBVIOUS
    <3>1. progress[p] = "write" /\ heard[p] \in Nat
      BY <1>0, <2>1
    <3>2. /\ heard[p] <= Len(written) /\ Ordered(base[p], written, draft)
          /\ Holds(base[p], heard[p], written, draft, heard)
      BY <3>1 DEF OverlapInv
    <3>3. QED
      BY <2>1, <2>3, <3>1, <3>2 DEF Kept
  <2>6. QED
    BY <2>1, <2>2, <2>4, <2>5 DEF OverlapInv, Kept
<1>3. ASSUME NEW q \in Requests, ReadLog(q) PROVE OverlapInv'
  <2>1. /\ progress[q] = "log" /\ progress'[q] = "write" /\ draft' = draft
        /\ \A p \in Requests \ {q} :
             progress'[p] = progress[p] /\ base'[p] = base[p] /\ heard'[p] = heard[p]
        /\ log' = log /\ base'[q] = log /\ written' = written /\ heard'[q] = Len(written)
    BY <1>0, <1>3 DEF ReadLog
  <2>2. \A s :
         /\ Ordered(s, written, draft) => Ordered(s, written', draft')
         /\ \A n \in Nat :
              Holds(s, n, written, draft, heard) => Holds(s, n, written', draft', heard')
    BY <2>1, SameWrites
  <2>3. Ordered(log', written', draft') /\ Holds(log', Len(written'), written', draft', heard')
    <3>1. Ordered(log, written, draft) /\ Holds(log, Len(written), written, draft, heard)
      BY DEF OverlapInv
    <3>2. QED
      BY <1>a, <2>1, <2>2, <3>1
  <2>4. \A p \in Requests : progress'[p] = "write" =>
           Kept(p)
    <3> SUFFICES ASSUME NEW p \in Requests, progress'[p] = "write"
                 PROVE  Kept(p)
      OBVIOUS
    <3>1. CASE p = q
      BY <1>a, <2>1, <2>3, <3>1 DEF Kept
    <3>2. CASE p # q
      <4>1. progress[p] = "write" /\ heard[p] \in Nat
        BY <1>0, <2>1, <3>2
      <4>2. /\ heard[p] <= Len(written) /\ Ordered(base[p], written, draft)
            /\ Holds(base[p], heard[p], written, draft, heard)
        BY <4>1 DEF OverlapInv
      <4>3. QED
        BY <2>1, <2>2, <3>2, <4>1, <4>2 DEF Kept
    <3>3. QED
      BY <3>1, <3>2
  <2>5. QED
    BY <2>1, <2>3, <2>4 DEF OverlapInv, Kept
<1>4. ASSUME NEW q \in Requests, WriteLog(q) PROVE OverlapInv'
  <2>1. PICK d \in GroundedDecisions : draft[q] = <<d>> /\ log' = base[q] \o <<d>>
    BY <1>4, WriteLogStep
  <2>2. /\ progress[q] = "write" /\ progress'[q] = "answered"
        /\ \A p \in Requests \ {q} : progress'[p] = progress[p]
        /\ draft' = draft /\ base' = base /\ heard' = heard
    BY <1>0, <1>4 DEF WriteLog
  <2>3. /\ heard[q] <= Len(written) /\ heard[q] \in Nat
        /\ Ordered(base[q], written, draft) /\ Holds(base[q], heard[q], written, draft, heard)
    BY <1>0, <2>2 DEF OverlapInv
  <2>4. /\ Len(base[q]) \in Nat /\ DOMAIN base[q] = 1..Len(base[q])
        /\ DOMAIN log' = 1..(Len(base[q]) + 1)
        /\ \A k \in DOMAIN base[q] : log'[k] = base[q][k]
        /\ log'[Len(base[q]) + 1] = d
    BY <1>0, <2>1, LongerLog
  <2>5. /\ DOMAIN written' = 1..(Len(written) + 1) /\ Len(written') = Len(written) + 1
        /\ \A j \in DOMAIN written : written'[j] = written[j] /\ written[j] # q
        /\ written'[Len(written) + 1] = q
    BY <1>4, OneMoreWrite
  <2>6. \A s : /\ \A n \in Nat : n <= Len(written) /\ Holds(s, n, written, draft, heard)
                    => Holds(s, n, written', draft', heard')
               /\ Ordered(s, written, draft) => Ordered(s, written', draft')
    BY <1>4, OneMoreWrite
  <2>7. Holds(log', Len(written'), written', draft', heard')
    <3> SUFFICES ASSUME NEW j \in DOMAIN written'
                 PROVE  \/ \E k \in DOMAIN log' : <<log'[k]>> = draft'[written'[j]]
                        \/ \E k \in DOMAIN written' :
                             j < k /\ k <= Len(written') /\ heard'[written'[k]] < j
      BY DEF Holds
    <3>1. CASE j = Len(written) + 1
      BY <2>1, <2>2, <2>4, <2>5, <3>1
    <3>2. CASE j # Len(written) + 1 /\ j > heard[q]
      BY <1>a, <2>2, <2>3, <2>5, <3>2
    <3>3. CASE j # Len(written) + 1 /\ ~(j > heard[q])
      <4>1. j \in DOMAIN written /\ j <= heard[q]
        BY <1>a, <2>3, <2>5, <3>3
      <4>2. \/ \E k \in DOMAIN base[q] : <<base[q][k]>> = draft[written[j]]
            \/ \E k \in DOMAIN written : j < k /\ k <= heard[q] /\ heard[written[k]] < j
        BY <2>3, <4>1 DEF Holds
      <4>3. CASE \E k \in DOMAIN base[q] : <<base[q][k]>> = draft[written[j]]
        BY <2>2, <2>4, <2>5, <4>1, <4>3
      <4>4. CASE \E k \in DOMAIN written : j < k /\ k <= heard[q] /\ heard[written[k]] < j
        BY <1>a, <2>2, <2>3, <2>5, <4>4
      <4>5. QED
        BY <4>2, <4>3, <4>4
    <3>4. QED
      BY <3>1, <3>2, <3>3
  <2>8. Ordered(log', written', draft')
    <3>1. \A k \in DOMAIN base[q] : <<base[q][k]>> # draft[q]
      <4> SUFFICES ASSUME NEW k \in DOMAIN base[q], <<base[q][k]>> = draft[q] PROVE FALSE
        OBVIOUS
      <4>1. PICK j \in DOMAIN written : draft[written[j]] = <<d>>
        BY <2>1, <2>3 DEF Ordered
      <4>2. d.request = q /\ d.request = written[j]
        <5>1. written[j] \in Requests
          BY WrittenSequence
        <5>2. QED
          BY <2>1, <4>1, <5>1 DEF OverlapInv
      <4>3. QED
        BY <2>5, <4>2
    <3>2. \A j \in DOMAIN written : draft[written[j]] # <<d>>
      <4> SUFFICES ASSUME NEW j \in DOMAIN written, draft[written[j]] = <<d>> PROVE FALSE
        OBVIOUS
      <4>1. written[j] \in Requests
        BY WrittenSequence
      <4>2. d.request = q /\ d.request = written[j]
        BY <2>1, <4>1 DEF OverlapInv
      <4>3. QED
        BY <2>5, <4>2
    <3>3. ASSUME NEW k \in DOMAIN log'
          PROVE  \E j \in DOMAIN written' : draft'[written'[j]] = <<log'[k]>>
      <4>1. CASE k = Len(base[q]) + 1
        BY <1>a, <2>1, <2>2, <2>4, <2>5, <4>1
      <4>2. CASE k # Len(base[q]) + 1
        <5>1. k \in DOMAIN base[q] /\ log'[k] = base[q][k]
          BY <2>4, <4>2
        <5>2. PICK j \in DOMAIN written : draft[written[j]] = <<base[q][k]>>
          BY <2>3, <5>1 DEF Ordered
        <5>3. QED
          BY <1>a, <2>2, <2>5, <5>1, <5>2
      <4>3. QED
        BY <4>1, <4>2
    <3>4. ASSUME NEW k \in DOMAIN log', NEW l \in DOMAIN log',
                 NEW i \in DOMAIN written', NEW j \in DOMAIN written',
                 k < l, draft'[written'[i]] = <<log'[k]>>, draft'[written'[j]] = <<log'[l]>>
          PROVE  i < j
      <4>1. k \in DOMAIN base[q] /\ log'[k] = base[q][k]
        BY <2>4, <3>4
      <4>2. i \in DOMAIN written /\ draft[written[i]] = <<base[q][k]>>
        BY <1>a, <2>2, <2>5, <3>1, <3>4, <4>1
      <4>3. CASE l \in DOMAIN base[q]
        <5>1. log'[l] = base[q][l]
          BY <2>4, <4>3
        <5>2. j \in DOMAIN written /\ draft[written[j]] = <<base[q][l]>>
          BY <1>a, <2>2, <2>5, <3>1, <3>4, <4>3, <5>1
        <5>3. QED
          BY <2>3, <3>4, <4>1, <4>2, <4>3, <5>2 DEF Ordered
      <4>4. CASE l \notin DOMAIN base[q]
        <5>1. log'[l] = d
          BY <2>4, <4>4
        <5>2. j = Len(written) + 1
          BY <1>a, <2>2, <2>5, <3>2, <3>4, <5>1
        <5>3. QED
          BY <1>a, <4>2, <5>2
      <4>5. QED
        BY <4>3, <4>4
    <3>5. QED
      BY <3>3, <3>4 DEF Ordered
  <2>9. \A p \in Requests : progress'[p] = "write" =>
           Kept(p)
    <3> SUFFICES ASSUME NEW p \in Requests, progress'[p] = "write"
                 PROVE  Kept(p)
      OBVIOUS
    <3>1. progress[p] = "write" /\ heard[p] \in Nat
      BY <1>0, <2>2
    <3>2. /\ heard[p] <= Len(written) /\ Ordered(base[p], written, draft)
          /\ Holds(base[p], heard[p], written, draft, heard)
      BY <3>1 DEF OverlapInv
    <3>3. QED
      BY <1>a, <2>2, <2>5, <2>6, <3>1, <3>2 DEF Kept
  <2>10. \A p \in Requests : progress'[p] = "answered"
            <=> \E j \in DOMAIN written' : written'[j] = p
    <3>1. ASSUME NEW p \in Requests PROVE (progress[p] = "answered" \/ p = q)
                 <=> \E j \in DOMAIN written' : written'[j] = p
      <4>1. progress[p] = "answered" <=> \E j \in DOMAIN written : written[j] = p
        BY DEF OverlapInv
      <4>2. QED
        BY <1>a, <2>5, <4>1
    <3>2. QED
      BY <2>2, <3>1
  <2>11. \A i, j \in DOMAIN written' : written'[i] = written'[j] => i = j
    <3>1. \A i, j \in DOMAIN written : written[i] = written[j] => i = j
      BY DEF OverlapInv
    <3>2. QED
      BY <1>a, <2>5, <3>1
  <2>12. \A p \in Requests : progress'[p] = "answered" => draft'[p] # <<>>
    <3>1. draft'[q] # <<>>
      <4>1. <<d>> # <<>>
        OBVIOUS
      <4>2. QED
        BY <2>1, <2>2, <4>1
    <3>2. \A p \in Requests \ {q} : progress[p] = "answered" => draft[p] # <<>>
      BY DEF OverlapInv
    <3>3. QED
      BY <2>2, <3>1, <3>2
  <2>13. \A p \in Requests : \A k \in DOMAIN draft'[p] : draft'[p][k].request = p
    BY <2>2 DEF OverlapInv
  <2>14. QED
    BY <2>7, <2>8, <2>9, <2>10, <2>11, <2>12, <2>13 DEF OverlapInv, Kept
<1>5. CASE Review
  BY <1>5 DEF Review, OverlapInv, history
<1>6. CASE UNCHANGED logVars
  BY <1>6 DEF logVars, OverlapInv
<1>7. QED
  BY <1>1, <1>2, <1>3, <1>4, <1>5, <1>6 DEF NextLog, Handle

\* Whatever the threads of the pool do to each other, a decision that was
\* answered is missing from the log only if a request read the log before it
\* was written and wrote after: requests that do not overlap lose nothing, for
\* any number of requests, threads and reviews.
THEOREM LosesToOverlap == SpecLog => []LostOnlyToOverlap
<1>1. GroundedInv /\ OverlapInv => LostOnlyToOverlap
  <2> SUFFICES ASSUME GroundedInv, OverlapInv PROVE LostOnlyToOverlap
    OBVIOUS
  <2>1. /\ Holds(log, Len(written), written, draft, heard)
        /\ \A j \in DOMAIN written : j <= Len(written)
    BY WrittenSequence DEF OverlapInv
  <2>2. \A j \in DOMAIN written :
           Overtaken(j) \/ \E k \in DOMAIN log : <<log[k]>> = draft[written[j]]
    BY <2>1, WrittenSequence DEF Holds, Overtaken
  <2>3. QED
    BY <2>2 DEF LostOnlyToOverlap, OverlapInv
<1>2. QED
  BY <1>1, GroundedInit, GroundedStep, OverlapInit, OverlapStep, PTL DEF SpecLog

\* The latest decision of a recommendation is the one that was written last,
\* unless an overlapping request took it back.
THEOREM LatestIsLast == SpecLog => []LatestWins
<1>1. GroundedInv /\ OverlapInv => LatestWins
  <2> SUFFICES ASSUME GroundedInv, OverlapInv, NEW j \in DOMAIN written, ~Overtaken(j),
                      \A k \in DOMAIN written : k > j =>
                        draft[written[k]][1].recommendation # draft[written[j]][1].recommendation
               PROVE  LatestDecision(draft[written[j]][1].recommendation) = draft[written[j]][1]
    BY DEF LatestWins
  <2> DEFINE d == draft[written[j]][1]
             c == d.recommendation
  <2>0. DOMAIN log = 1..Len(log) /\ Len(log) \in Nat
        /\ DOMAIN written = 1..Len(written) /\ Len(written) \in Nat
    BY WrittenSequence
  <2>1. PICK k \in DOMAIN log : <<log[k]>> = draft[written[j]]
    BY <2>0 DEF OverlapInv, Holds, Overtaken
  <2>2. log[k] = d /\ k \in OfRecommendation(c)
    BY <2>1 DEF OfRecommendation
  <2>3. OfRecommendation(c) \in SUBSET (1..Len(log)) /\ OfRecommendation(c) # {}
    BY <2>0, <2>2 DEF OfRecommendation
  <2>4. \E m \in OfRecommendation(c) : \A l \in OfRecommendation(c) : l <= m
    BY <2>0, <2>3, LastPosition
  <2> DEFINE m == CHOOSE x \in OfRecommendation(c) : \A l \in OfRecommendation(c) : l <= x
  <2>5. m \in OfRecommendation(c) /\ \A l \in OfRecommendation(c) : l <= m
    BY <2>4
  <2>6. LatestDecision(c) = log[m]
    BY DEF LatestDecision
  <2> HIDE DEF m
  <2>7. m \in DOMAIN log /\ log[m].recommendation = c /\ k <= m
    BY <2>2, <2>5 DEF OfRecommendation
  <2>8. CASE m = k
    BY <2>2, <2>6, <2>8
  <2>9. CASE m # k
    <3>1. PICK i \in DOMAIN written : draft[written[i]] = <<log[m]>>
      BY <2>7 DEF OverlapInv, Ordered
    <3>2. k < m
      BY <2>0, <2>7, <2>9
    <3>3. j < i
      BY <2>1, <2>7, <3>1, <3>2 DEF OverlapInv, Ordered
    <3>4. draft[written[i]][1].recommendation = c
      BY <2>7, <3>1
    <3>5. QED
      BY <2>0, <3>3, <3>4
  <2>10. QED
    BY <2>8, <2>9
<1>2. QED
  BY <1>1, GroundedInit, GroundedStep, OverlapInit, OverlapStep, PTL DEF SpecLog
=============================================================================
