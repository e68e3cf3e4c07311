---------------------------- MODULE ReviewCache ----------------------------
(***************************************************************************)
(* The schema reconstruction cache of `pgproof review`                     *)
(* (cli/commands/review.py, domain/cache.py): reviews of one project, one  *)
(* after the other or at once, reuse the schema.json and code.json of an   *)
(* earlier one when both carry the hash of the files they see; an editor,  *)
(* an upgrade of pgproof and `pgproof capture` change things around them.  *)
(* A stage cache key is the function it hashes.                            *)
(***************************************************************************)
EXTENDS Naturals, FiniteSets

CONSTANTS
  Reviewers,         \* processes that run one review after the other
  Models,            \* .py files of the application
  Migrations,        \* versions/*.py of the alembic directory
  Inventoried,       \* the files discover includes
  Contents,          \* what a file can hold
  Tools,             \* versions of pgproof
  EditsDuringReview  \* may a file change while a review runs

ASSUME FilesAssumption == Models \cap Migrations = {}
ASSUME InventoriedAssumption == Inventoried \subseteq Models \cup Migrations
ASSUME EditsAssumption == EditsDuringReview \in BOOLEAN

Files == Models \cup Migrations

VARIABLES
  contents,   \* the working tree
  tool,       \* the version of pgproof that is installed
  schema,     \* analysis/schema.json: its key and what it was built from
  code,       \* analysis/code.json
  pc, version, seen, hit, orm, physical, model   \* of each reviewer, see TypeOK

vars == <<contents, tool, schema, code, pc, version, seen, hit, orm, physical, model>>
review == <<version, seen, hit, orm, physical, model>>

Trees(F) == [F -> Contents]
Key(tree, t) == [files |-> [f \in Inventoried |-> tree[f]], tool |-> t]
Keys == [files : Trees(Inventoried), tool : Tools]
Build(tree, F, t) == [from |-> [f \in F |-> tree[f]], tool |-> t]
Builds(F) == [from : Trees(F), tool : Tools]

\* A document's inputs hold a key, or none when `pgproof capture` wrote it.
Documents(F) == [key : {<<>>} \cup {<<k>> : k \in Keys}, build : Builds(F)]

NoDocument == <<>>
Partial(F) == UNION {Trees(G) : G \in SUBSET F}

Steps == {"idle", "hash", "schema?", "code?", "models", "migrations",
          "write schema", "write code"}

TypeOK ==
  /\ contents \in Trees(Files)
  /\ tool \in Tools
  /\ schema \in {<<>>} \cup {<<d>> : d \in Documents(Migrations)}
  /\ code \in {<<>>} \cup {<<d>> : d \in Documents(Models)}
  /\ pc \in [Reviewers -> Steps]
  /\ version \in [Reviewers -> Tools]
  /\ seen \in [Reviewers -> Partial(Files)]
  /\ hit \in [Reviewers -> BOOLEAN]
  /\ orm \in [Reviewers -> {<<>>} \cup {<<t>> : t \in Trees(Models)}]
  /\ physical \in [Reviewers -> {<<>>} \cup {<<b>> : b \in Builds(Migrations)}]
  /\ model \in [Reviewers -> {<<>>} \cup {<<b>> : b \in Builds(Models)}]

Idle(r) ==
  /\ pc' = [pc EXCEPT ![r] = "idle"]
  /\ seen' = [seen EXCEPT ![r] = [f \in {} |-> 0]]
  /\ hit' = [hit EXCEPT ![r] = FALSE]
  /\ orm' = [orm EXCEPT ![r] = <<>>]
  /\ physical' = [physical EXCEPT ![r] = <<>>]
  /\ model' = [model EXCEPT ![r] = <<>>]

Init ==
  /\ contents \in Trees(Files)
  /\ tool \in Tools
  /\ schema = NoDocument /\ code = NoDocument
  /\ pc = [r \in Reviewers |-> "idle"]
  /\ version = [r \in Reviewers |-> tool]
  /\ seen = [r \in Reviewers |-> [f \in {} |-> 0]]
  /\ hit = [r \in Reviewers |-> FALSE]
  /\ orm = [r \in Reviewers |-> <<>>]
  /\ physical = [r \in Reviewers |-> <<>>]
  /\ model = [r \in Reviewers |-> <<>>]

Goto(r, from, to) == pc[r] = from /\ pc' = [pc EXCEPT ![r] = to]

(***************************************************************************)
(* A review                                                                *)
(***************************************************************************)

Begin(r) ==
  /\ Goto(r, "idle", "hash")
  /\ version' = [version EXCEPT ![r] = tool]
  /\ UNCHANGED <<contents, tool, schema, code, seen, hit, orm, physical, model>>

\* discover reads and hashes one file after the other. A file it does not
\* include is noted too, to say later what the review could have known.
HashFile(r, f) ==
  /\ pc[r] = "hash" /\ f \notin DOMAIN seen[r]
  /\ seen' = [seen EXCEPT ![r] = [g \in DOMAIN seen[r] \cup {f} |->
                                    IF g = f THEN contents[f] ELSE seen[r][g]]]
  /\ pc' = [pc EXCEPT ![r] = IF DOMAIN seen'[r] = Files THEN "schema?" ELSE "hash"]
  /\ UNCHANGED <<contents, tool, schema, code, version, hit, orm, physical, model>>

\* _schema_reconstruction_cache_key
CacheKey(r) == Key(seen[r], version[r])

HasKey(document, r) == document # NoDocument /\ document[1].key = <<CacheKey(r)>>

\* _load_cached_schema_and_code reads schema.json, then code.json.
LookUpSchema(r) ==
  /\ pc[r] = "schema?"
  /\ IF HasKey(schema, r)
       THEN /\ physical' = [physical EXCEPT ![r] = <<schema[1].build>>]
            /\ pc' = [pc EXCEPT ![r] = "code?"]
       ELSE /\ pc' = [pc EXCEPT ![r] = "models"] /\ UNCHANGED physical
  /\ UNCHANGED <<contents, tool, schema, code, version, seen, hit, orm, model>>

\* (fault) the key of code.json is taken to be that of schema.json.
LookUpCode_Unchecked(r) ==
  /\ Goto(r, "code?", "models")
  /\ hit' = [hit EXCEPT ![r] = code # NoDocument]
  /\ IF code # NoDocument
       THEN model' = [model EXCEPT ![r] = <<code[1].build>>] /\ UNCHANGED physical
       ELSE physical' = [physical EXCEPT ![r] = <<>>] /\ UNCHANGED model
  /\ UNCHANGED <<contents, tool, schema, code, version, seen, orm>>

\* A miss of either is a miss of both.
LookUpCode(r) ==
  /\ Goto(r, "code?", "models")
  /\ hit' = [hit EXCEPT ![r] = HasKey(code, r)]
  /\ IF HasKey(code, r)
       THEN model' = [model EXCEPT ![r] = <<code[1].build>>] /\ UNCHANGED physical
       ELSE physical' = [physical EXCEPT ![r] = <<>>] /\ UNCHANGED model
  /\ UNCHANGED <<contents, tool, schema, code, version, seen, orm>>

\* (fault) after a miss the code of code.json is used all the same.
ParseModels_KeepsCode(r) ==
  /\ Goto(r, "models", IF hit[r] THEN "write schema" ELSE "migrations")
  /\ orm' = [orm EXCEPT ![r] = <<[f \in Models |-> contents[f]]>>]
  /\ model' = [model EXCEPT ![r] =
                 <<IF code # NoDocument THEN code[1].build
                   ELSE Build(contents, Models, version[r])>>]
  /\ UNCHANGED <<contents, tool, schema, code, version, seen, hit, physical>>

\* parse_sqlalchemy_models reads the application's files again, hit or miss.
\* Its code is only used after a miss.
ParseModels(r) ==
  /\ Goto(r, "models", IF hit[r] THEN "write schema" ELSE "migrations")
  /\ orm' = [orm EXCEPT ![r] = <<[f \in Models |-> contents[f]]>>]
  /\ model' = IF hit[r] THEN model
              ELSE [model EXCEPT ![r] = <<Build(contents, Models, version[r])>>]
  /\ UNCHANGED <<contents, tool, schema, code, version, seen, hit, physical>>

\* parse_alembic_directories globs versions/*.py, inventoried or not.
ParseMigrations(r) ==
  /\ Goto(r, "migrations", "write schema")
  /\ physical' = [physical EXCEPT ![r] = <<Build(contents, Migrations, version[r])>>]
  /\ UNCHANGED <<contents, tool, schema, code, version, seen, hit, orm, model>>

\* The two artifacts that are read back; reconciling, the rules and the other
\* artifacts only use what the review holds by now.
WriteSchema(r) ==
  /\ Goto(r, "write schema", "write code")
  /\ schema' = <<[key |-> <<CacheKey(r)>>, build |-> physical[r][1]]>>
  /\ UNCHANGED <<contents, tool, code, review>>

WriteCode(r) ==
  /\ pc[r] = "write code"
  /\ code' = <<[key |-> <<CacheKey(r)>>, build |-> model[r][1]]>>
  /\ Idle(r)
  /\ UNCHANGED <<contents, tool, schema, version>>

\* A review may end at any point: an exception, an interrupt, a kill.
Die(r) == pc[r] # "idle" /\ Idle(r) /\ UNCHANGED <<contents, tool, schema, code, version>>

(***************************************************************************)
(* What happens around it                                                  *)
(***************************************************************************)

Edit(f) ==
  /\ EditsDuringReview \/ \A r \in Reviewers : pc[r] = "idle"
  /\ contents' \in {[contents EXCEPT ![f] = c] : c \in Contents}
  /\ UNCHANGED <<tool, schema, code, pc, review>>

Upgrade == tool' \in Tools /\ UNCHANGED <<contents, schema, code, pc, review>>

\* `pgproof capture` writes the schema it introspected, with no key.
CaptureSchema ==
  /\ schema' = <<[key |-> <<>>, build |-> Build(contents, Migrations, tool)]>>
  /\ UNCHANGED <<contents, tool, code, pc, review>>

ReviewStep(r) ==
  \/ Begin(r) \/ (\E f \in Files : HashFile(r, f)) \/ LookUpSchema(r) \/ LookUpCode(r)
  \/ ParseModels(r) \/ ParseMigrations(r) \/ WriteSchema(r) \/ WriteCode(r)

Next ==
  \/ \E r \in Reviewers : ReviewStep(r) \/ Die(r)
  \/ (\E f \in Files : Edit(f)) \/ Upgrade \/ CaptureSchema

Spec == Init /\ [][Next]_vars

(***************************************************************************)
(* Properties                                                              *)
(***************************************************************************)

FreshFrom(build, r) ==
  build.tool = version[r] /\ \A f \in DOMAIN build.from : build.from[f] = seen[r][f]

\* A cached pair is used only "if nothing they were built from has changed
\* since" (review.py:90-91): both halves were built by this version of
\* pgproof from what the files held when the review looked at them, whatever
\* other reviews, upgrades, captures and deaths wrote or left half-written.
HitIsFresh ==
  \A r \in Reviewers : hit[r] => FreshFrom(physical[r][1], r) /\ FreshFrom(model[r][1], r)

\* reconcile compares the mapped schema and the code of the same models, also
\* when one was parsed just now and the other read from code.json.
CodeMatchesModels ==
  \A r \in Reviewers : pc[r] \in {"write schema", "write code"}
    => model[r][1].from = orm[r][1]
=============================================================================
