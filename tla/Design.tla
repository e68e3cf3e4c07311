-------------------------------- MODULE Design --------------------------------
(***************************************************************************)
(* From the sources of a project to a better design of its database: what  *)
(* `pgproof review` (cli/commands/review.py, application/review.py) makes  *)
(* of the migrations, the models and the confirmed context, and a          *)
(* developer who answers the interview, reviews, works off the migration   *)
(* plan and reviews again.  One command runs at a time.                    *)
(***************************************************************************)
EXTENDS OrmModels, Interview

CONSTANTS
  Former,        \* for a table, the name it had before a migration renamed it, if one did
  TenantTables,  \* _TENANT_TABLE_NAMES
  Scenario,      \* the scenario the developer asks for
  Projects       \* the projects to begin with: source, database, history

Scenarios == {"launch_minimal", "growth_ready", "availability_ready"}
ASSUME FormerAssumption ==
  \A t, u \in Tables :
    /\ Former[t] \notin Tables \cup {None} /\ (Former[t] = Former[u] => t = u)
    /\ RefColumn[Former[t]] = RefColumn[t] /\ Place[Former[t]] \in Nat
ASSUME ScenarioAssumption == Scenario \in Scenarios

VARIABLES
  source,     \* the models, see OrmModels
  database,   \* for each table, what its migrations made and how they are written
  linear,     \* does the revision graph have one head, no cycle and no gap
  stage,      \* of the review: "idle", "context", "rules", "documents", "graph"
  work,       \* what the review holds in its memory
  published,  \* the artifacts that hold its result
  graph,      \* diagrams/current.json
  todo,       \* steps of the published plan the developer has not run
  refused     \* steps the database has refused

reviewVars == <<stage, work, published, graph>>
designVars == <<source, database, linear, stage, work, published, graph, todo, refused>>
vars == <<designVars, interviewVars>>

(***************************************************************************)
(* The database and its migrations                                         *)
(***************************************************************************)

\* Keys to the target: in a column ("inline"), or in a statement of their own, before the
\* table was renamed ("renamed") or after; or dropped again by a statement the replay does
\* not read.  Tables that are referred to keep their names.
KeyKinds == {"inline", "constraint", "renamed", "dropped"}

\* Indexes on the column: by op.create_index, before the table was renamed or after; with
\* arguments the replay cannot read ("computed"), in a condition, a loop or a batch
\* ("conditional"), by SQL; or dropped again by a statement it does not read.
IndexKinds == {"plain", "renamed", "computed", "conditional", "sql", "dropped"}

\* table: created by a statement the replay reads, or by one it does not ("hidden").
\* moved: and renamed once its columns were there.
Histories ==
  [table : {"absent", "created", "hidden"}, moved : BOOLEAN, ref : {"none", "nullable", "required"},
   foreign : SUBSET KeyKinds, valid : BOOLEAN, index : SUBSET IndexKinds]

\* A relationship or a key is there only for a table to refer to, and a key needs a column
\* of its table.
ASSUME ProjectsAssumption ==
  \A p \in Projects :
    /\ p.source \in [Tables -> Classes] /\ p.database \in [Tables -> Histories] /\ p.linear \in BOOLEAN
    /\ \A t \in Tables :
         /\ p.source[t].relationship # None => Target[t] # None
         /\ p.database[t].foreign # {} =>
              Target[t] # None /\ p.database[t].table # "absent" /\ p.database[t].ref # "none"
         /\ "renamed" \in p.database[t].foreign \cup p.database[t].index => p.database[t].moved

Exists(t) == database[t].table # "absent"
HasRef(t) == Exists(t) /\ database[t].ref # "none"
Ref(name) == <<name, RefColumn[name]>>

EmptySchema ==
  [tables |-> {}, columns |-> {}, keys |-> {}, foreign |-> {}, indexed |-> {}, incomplete |-> FALSE]
NoModels ==
  [tables |-> {}, columns |-> {}, keys |-> {}, foreign |-> {}, relationships |-> {}, unsupported |-> {}]

\* rename_table leaves columns, keys and indexes under the name they were made with.
MadeAs(t) == IF database[t].moved THEN Former[t] ELSE t

\* The keys _replay holds.
Pairs(t) ==
  {<<t, Target[t]>> : k \in database[t].foreign \cap {"constraint", "dropped"}}
  \cup {<<Former[t], Target[t]>> : k \in database[t].foreign \cap {"renamed"}}

\* What parse_migrations reads of it (SchemaReplay shows how).  A key or an index is
\* recorded whether or not its table is known; a key column may be NULL, as written.
Replayed ==
  LET created == {t \in Tables : database[t].table = "created"}
  IN  [tables |-> created,
       columns |-> {[table |-> MadeAs(t), column |-> "id", nullable |-> TRUE] : t \in created}
         \cup {[table |-> MadeAs(t), column |-> RefColumn[t], nullable |-> database[t].ref = "nullable"] :
                 t \in {u \in created : database[u].ref # "none"}},
       keys |-> {<<MadeAs(t), "id">> : t \in created},
       foreign |-> UNION {Pairs(t) : t \in Tables},
       indexed |-> {Ref(t) : t \in {u \in Tables : database[u].index \cap {"plain", "dropped"} # {}}}
         \cup {Ref(Former[t]) : t \in {u \in Tables : "renamed" \in database[u].index}},
       incomplete |-> \E t \in Tables : "computed" \in database[t].index]

\* _select_physical_schema
SelectPhysical == IF linear THEN Replayed ELSE EmptySchema

(***************************************************************************)
(* Reconciliation                                                          *)
(***************************************************************************)

\* By what they are called, which may be with the former name of their table.
ColumnsOf(schema, t) == {<<c.table, c.column>> : c \in {d \in schema.columns : d.table \in {t, Former[t]}}}
NullableIn(schema, c) == [table |-> c[1], column |-> c[2], nullable |-> TRUE] \in schema.columns

\* (fault) a column is missing only where its table is not.
Missing_Columns(physical, orm) == {<<t>> : t \in orm.tables \ physical.tables}

Missing(physical, orm) ==
  {<<t>> : t \in orm.tables \ physical.tables}
  \cup UNION {ColumnsOf(orm, t) \ ColumnsOf(physical, t) : t \in orm.tables \cap physical.tables}

\* Keys are not compared: neither side writes down that they are required.
Mismatched(physical, orm) ==
  UNION {{c \in (ColumnsOf(orm, t) \cap ColumnsOf(physical, t)) \ (physical.keys \cup orm.keys) :
            NullableIn(orm, c) # NullableIn(physical, c)} : t \in orm.tables \cap physical.tables}

\* fk_holding_relationships: only a many-to-one says which side holds the key.
HoldingPairs(code) ==
  {<<r.from, r.to>> : r \in {s \in code.relationships : s.cardinality = "many_to_one"}}

\* reconcile
Reconcile(physical, orm) ==
  [missing |-> Missing(physical, orm),
   undeclared |-> Missing(orm, physical),
   mismatched |-> Mismatched(physical, orm),
   ormOnly |-> HoldingPairs(orm) \ physical.foreign,
   withoutOrm |-> physical.foreign \ HoldingPairs(orm)]

(***************************************************************************)
(* Rules                                                                   *)
(***************************************************************************)

\* A confirmed tenant model decides; until then the name of the table does.
TenantRelated(context, t) ==
  IF context.tenant = "unknown" THEN t \in TenantTables ELSE context.tenant # "single_tenant"

\* Recommendations about the tables found, numbered apart for each prefix, in order.
Numbered(found, prefix) ==
  {[id |-> <<prefix[t], Cardinality({u \in found : prefix[u] = prefix[t] /\ Place[u] <= Place[t]})>>,
    on |-> t] : t \in found}

\* orm_relationship_without_physical_fk
ConstraintsToAdd(observed, context) ==
  Numbered({t \in Tables : <<t, Target[t]>> \in observed.ormOnly},
           [t \in Tables |-> IF TenantRelated(context, Target[t]) THEN "TENANT" ELSE "SCHEMA"])

IndexPrefix == [name \in Tables \cup {Former[t] : t \in Tables} |-> "IDX"]

\* The tables, by the names the replay has, of the keys whose column nothing covers.
Uncovered(physical, covered) == {p[1] : p \in {q \in physical.foreign : Ref(q[1]) \notin covered}}

\* (fault) only keys cover a column.
IndexesToAdd_Keys(physical) ==
  IF physical.incomplete THEN {}
  ELSE Numbered(Uncovered(physical, physical.keys), IndexPrefix)

\* (fault) an index the replay could not read is taken for none.
IndexesToAdd_Guess(physical) ==
  Numbered(Uncovered(physical, physical.indexed \cup physical.keys), IndexPrefix)

\* unindexed_foreign_key: silent when a create_index has an argument that could not be read.
IndexesToAdd(physical) ==
  IF physical.incomplete THEN {}
  ELSE Numbered(Uncovered(physical, physical.indexed \cup physical.keys), IndexPrefix)

HasTenantColumn(schema) == \E c \in schema.columns : c.column = "tenant_id"

\* confirm_isolation_model
RuleQuestions(physical, orm, context) ==
  {q \in {TenantQuestion} : context.tenant = "unknown"
                            /\ (HasTenantColumn(physical) \/ HasTenantColumn(orm))}

\* _REQUIRED_QUESTIONS
Required(kind) ==
  CASE kind = "launch_minimal" -> {}
    [] kind = "growth_ready" -> {"core_table_scale"}
    [] kind = "availability_ready" -> {"core_rpo_rto", "core_read_after_write"}

Blockers(kind, context) == {q \in Required(kind) \cap Questions : context.answers[q] # "answered"}

(***************************************************************************)
(* The migration plan                                                      *)
(***************************************************************************)

Step(rec, k, action, needs) == [id |-> <<rec.id, k>>, action |-> action, on |-> rec.on, needs |-> needs]

\* (fault) the two steps of a constraint do not depend on each other.
ExpandChange_Free(rec) ==
  IF rec.id[1] = "IDX" THEN {Step(rec, 0, "index", {})}
  ELSE {Step(rec, 0, "not_valid", {}), Step(rec, 1, "validate", {})}

\* expand_change
ExpandChange(rec) ==
  IF rec.id[1] = "IDX" THEN {Step(rec, 0, "index", {})}
  ELSE {Step(rec, 0, "not_valid", {}), Step(rec, 1, "validate", {<<rec.id, 0>>})}

MigrationPlan(recommendations) == UNION {ExpandChange(rec) : rec \in recommendations}

(***************************************************************************)
(* The graph                                                               *)
(***************************************************************************)

Endpoints(pairs) == UNION {{p[1], p[2]} : p \in pairs}

DrawnTables(physical, orm) == physical.tables \cup orm.tables

\* (fault) a relationship with a key is drawn again, as one of the models' alone.
Drawn_Twice(physical, orm) ==
  [tables |-> DrawnTables(physical, orm), solid |-> physical.foreign, dashed |-> HoldingPairs(orm),
   via |-> {<<r.from, r.to>> : r \in {s \in orm.relationships : s.via}}]

\* build_graph: tables of both, keys, the models' relationships without one, and those
\* through a table of their own.
Drawn(physical, orm) ==
  [tables |-> DrawnTables(physical, orm), solid |-> physical.foreign,
   dashed |-> HoldingPairs(orm) \ physical.foreign,
   via |-> {<<r.from, r.to>> : r \in {s \in orm.relationships : s.via}}]

\* GraphIR refuses an edge whose end is no node.
Closed(drawing) == Endpoints(drawing.solid \cup drawing.dashed \cup drawing.via) \subseteq drawing.tables

(***************************************************************************)
(* A review                                                                *)
(***************************************************************************)

NoWork ==
  [physical |-> EmptySchema, orm |-> NoModels, observed |-> Reconcile(EmptySchema, NoModels),
   context |-> NoContext, recommendations |-> {}, questions |-> {}]
NothingPublished == [made |-> FALSE, recommendations |-> {}, questions |-> {}, named |-> {}]
NoGraph == [made |-> FALSE, drawing |-> Drawn(EmptySchema, NoModels)]

Init ==
  /\ InterviewInit
  /\ \E p \in Projects : source = p.source /\ database = p.database /\ linear = p.linear
  /\ stage = "idle" /\ work = NoWork
  /\ published = NothingPublished /\ graph = NoGraph
  /\ todo = {} /\ refused = {}

Project == <<source, database, linear>>

\* Inventory and schema reconstruction, without a cached schema (see ReviewCache).  The
\* developer has run the plan of the review before.
Reconstruct ==
  /\ stage = "idle" /\ phase = "idle" /\ todo = {}
  /\ stage' = "context"
  /\ work' = [NoWork EXCEPT !.physical = SelectPhysical, !.orm = ParseModels(source),
                            !.observed = Reconcile(SelectPhysical, ParseModels(source))]
  /\ UNCHANGED <<Project, published, graph, todo, refused, interviewVars>>

ResolveContext ==
  /\ stage = "context" /\ Legible
  /\ stage' = "rules"
  /\ work' = [work EXCEPT !.context = FromToml(file.context)]
  /\ UNCHANGED <<Project, published, graph, todo, refused, interviewVars>>

\* read_config raises, and the review ends before it has written anything.
ContextFails ==
  /\ stage = "context" /\ ~Legible
  /\ stage' = "idle" /\ work' = NoWork
  /\ UNCHANGED <<Project, published, graph, todo, refused, interviewVars>>

\* run_review
Decide ==
  /\ stage = "rules"
  /\ stage' = "documents"
  /\ work' = [work EXCEPT
                !.recommendations = ConstraintsToAdd(work.observed, work.context) \cup IndexesToAdd(work.physical),
                !.questions = RuleQuestions(work.physical, work.orm, work.context)
                                \cup Blockers(Scenario, work.context)]
  /\ UNCHANGED <<Project, published, graph, todo, refused, interviewVars>>

\* schema, code, evidence, recommendations, scenarios and migration_plan .json
WriteDocuments ==
  /\ stage = "documents"
  /\ stage' = "graph"
  /\ published' = [made |-> TRUE, recommendations |-> work.recommendations,
                   questions |-> work.questions,
                   named |-> work.observed.missing \cup work.orm.unsupported]
  /\ todo' = MigrationPlan(work.recommendations)
  /\ UNCHANGED <<Project, work, graph, refused, interviewVars>>

\* current.json and review.md; an edge without an end ends the review in an exception.
WriteGraph ==
  /\ stage = "graph"
  /\ stage' = "idle" /\ work' = NoWork
  /\ LET drawing == Drawn(work.physical, work.orm)
     IN  graph' = IF Closed(drawing) THEN [made |-> TRUE, drawing |-> drawing] ELSE graph
  /\ UNCHANGED <<Project, published, todo, refused, interviewVars>>

ReviewStep == Reconstruct \/ ResolveContext \/ ContextFails \/ Decide \/ WriteDocuments \/ WriteGraph

(***************************************************************************)
(* The developer                                                           *)
(***************************************************************************)

Runs(step) ==
  CASE step.action = "not_valid" -> HasRef(step.on) /\ Exists(Target[step.on])
    [] step.action = "validate" -> "constraint" \in database[step.on].foreign
    [] step.action = "index" -> step.on \in Tables /\ HasRef(step.on)

Changed(history, action) ==
  CASE action = "not_valid" -> [history EXCEPT !.foreign = @ \cup {"constraint"}, !.valid = FALSE]
    [] action = "validate" -> [history EXCEPT !.valid = TRUE]
    [] action = "index" -> [history EXCEPT !.index = @ \cup {"plain"}]

\* A migration for one step, once those it needs are done.  Rows that violate a
\* constraint are corrected before it is validated.  A step the database refuses is
\* given up, and so are those that need it.
RunStep(step) ==
  /\ stage = "idle" /\ step \in todo
  /\ \A s \in todo : s.id \notin step.needs
  /\ IF Runs(step)
       THEN /\ database' = [database EXCEPT ![step.on] = Changed(@, step.action)]
            /\ todo' = todo \ {step} /\ UNCHANGED refused
       ELSE /\ todo' = {s \in todo \ {step} : step.id \notin s.needs}
            /\ refused' = refused \cup {[action |-> step.action, on |-> step.on]}
            /\ UNCHANGED database
  /\ UNCHANGED <<source, linear, reviewVars, interviewVars>>

Configure == stage = "idle" /\ StartConfigure(HasTenantColumn(ParseModels(source))) /\ UNCHANGED designVars

Next ==
  \/ ReviewStep
  \/ \E step \in todo : RunStep(step)
  \/ Configure
  \/ (InterviewStep \/ InterviewMishap) /\ UNCHANGED designVars

\* The developer goes on: runs every step of a plan, answers what is asked, and however
\* often the interview is abandoned and begun again, reviews in between.
Fairness ==
  /\ SF_vars(ReviewStep)
  /\ WF_vars(\E step \in todo : RunStep(step))
  /\ WF_vars(InterviewStep /\ UNCHANGED designVars)

Spec == Init /\ [][Next]_vars /\ Fairness

(***************************************************************************)
(* Properties                                                              *)
(***************************************************************************)

Tenancy == {"SCHEMA", "TENANT"}
Recommended(prefixes) == {r.on : r \in {s \in published.recommendations : s.id[1] \in prefixes}}

\* The models say that t holds the key, in words the analysis can read.
SaysItHolds(t) ==
  LET r == source[t].relationship
  IN  r # None /\ r.annotation = "one" /\ ~r.scalar /\ r.secondary = "none" /\ ~r.splat

Readable(t) == source[t].parses /\ source[t].table \in {"literal", "table=True"}
Unindexed(t) == database[t].foreign \cap {"constraint", "renamed"} # {} /\ database[t].index = {}

\* A review does not cry wolf and does not look away: it recommends a foreign key exactly
\* where readable models say a table holds one and the database has none, but also where
\* its key is written inside a column or its table was renamed since, or the revisions are
\* ambiguous, and not where a key was dropped unread; and an index exactly where a key of
\* its own statement has none, but also where a statement the replay does not read made the
\* index or dropped the key or its table was renamed in between, not where the index was
\* dropped unread, and for no table at all once a create_index had an argument that could
\* not be read.
FindingsAreReal ==
  stage = "graph" =>
    /\ \A t \in Recommended(Tenancy) :
         SaysItHolds(t) /\ Readable(t) /\ (linear => database[t].foreign \subseteq {"inline", "renamed"})
    /\ \A t \in Tables : SaysItHolds(t) /\ Readable(t) /\ Readable(Target[t])
         => (database[t].foreign = {} => t \in Recommended(Tenancy))
    /\ \A name \in Recommended({"IDX"}) : \E t \in Tables :
         \/ /\ name = t /\ database[t].foreign \cap {"constraint", "dropped"} # {}
            /\ database[t].index \subseteq {"sql", "conditional", "renamed"}
         \/ name = Former[t] /\ "renamed" \in database[t].foreign /\ "renamed" \notin database[t].index
    /\ (linear /\ \A t \in Tables : "computed" \notin database[t].index)
         => \A t \in Tables : Unindexed(t) => {t, Former[t]} \cap Recommended({"IDX"}) # {}

\* "When any migration index operation was not statically resolvable at all, this rule stays
\* silent for the whole schema" (rules/workload.py:4-10).
SilentWhenUnread ==
  (stage = "graph" /\ \E t \in Tables : database[t].index \cap {"computed", "conditional"} # {})
    => Recommended({"IDX"}) = {}

\* A step of the plan that the database refuses is one the review could have warned of:
\* a table or column of the key is named among the objects no migration makes or the
\* statements the analysis could not read.  In particular no VALIDATE finds no constraint.
\* Only a class without a column for the key is taken at its word, where the annotation of
\* a one-to-one on the side without the key reads like that of a many-to-one
\* (sqlalchemy_static.py, _infer_cardinality); and an index may be for a table that has
\* another name by now.
RefusalsAreForetold ==
  \A step \in refused :
    \/ /\ step.action = "not_valid"
       /\ \/ published.named \cap {<<step.on>>, <<Target[step.on]>>, Ref(step.on), <<step.on, "column">>} # {}
          \/ source[step.on].ref = None
    \/ step.action = "index" /\ step.on \notin Tables

\* A key the replay holds ends at a table that no migration read and no model declares.
Dangling(t) ==
  \/ "renamed" \in database[t].foreign
  \/ /\ database[t].foreign \cap {"constraint", "dropped"} # {}
     /\ \E u \in {t, Target[t]} : database[u].table # "created" /\ ~Readable(u)

\* diagrams/current.json shows the relationships the recommendations are about, as the
\* models' alone: build_graph draws with the matching of reconcile.  They only part when
\* a key ends at no table; the documents are new by then, and the drawing is that of an
\* earlier review or none.
DrawingAgrees ==
  \/ \E t \in Tables : linear /\ Dangling(t)
  \/ /\ graph.made
     /\ graph.drawing.dashed = {<<t, Target[t]>> : t \in Recommended(Tenancy)}
     /\ {<<t, Target[t]>> : t \in Recommended({"IDX"}) \cap Tables} \subseteq graph.drawing.solid
     /\ graph.drawing.solid \cap graph.drawing.dashed = {}

ArtifactsAgree == (stage = "idle" /\ published.made) => DrawingAgrees

\* The interview and the review agree on what is open: a question a review lists was told
\* an unknown or a text without a value, has not been asked yet, or is the tenant's and no
\* model has the column.  A model that was told decides every recommendation.
AnswersDecide ==
  stage = "graph" =>
    /\ \A q \in published.questions :
         \/ told[q] \in {<<"blank">>, <<"noise">>}
         \/ q \in Remaining(HasTenantColumn(work.orm), work.context)
         \/ q = TenantQuestion /\ ~HasTenantColumn(work.orm)
    /\ told[TenantQuestion] \in {<<m>> : m \in TenantModels} =>
         \A r \in published.recommendations : r.id[1] \in Tenancy =>
           (r.id[1] = "TENANT") = (told[TenantQuestion] # <<"single_tenant">>)

\* What the developer answered stays answered, and counts.
AnswersCount == AnswersDecide /\ SavedIsKept

Workable ==
  /\ linear /\ \A t \in Tables : SaysItHolds(t) => HasRef(t) /\ Exists(Target[t])
  /\ \A t \in Tables : "renamed" \in database[t].foreign => "renamed" \in database[t].index

\* Reviewing and running the plan comes to an end: where the tables of every relationship
\* exist, and none has a key without an index under the name it had before, keys and then
\* indexes are added until the review has nothing left to recommend; unless an answer makes
\* pgproof.toml unreadable.
Converges ==
  Workable /\ []Legible => <>[](published.made /\ published.recommendations = {})
=============================================================================
