----------------------------- MODULE SchemaReplay -----------------------------
(***************************************************************************)
(* The replay of the upgrades, in the order of RevisionGraph, into a       *)
(* schema (alembic_static.py, _apply), beside the database that runs the   *)
(* same statements, and the risks assess_migration (migration_safety) sees *)
(* in each upgrade.  A statement is chosen when it is reached, among those *)
(* the database accepts: the migrations are ones that have been run.       *)
(***************************************************************************)
EXTENDS RevisionGraph

CONSTANTS
  Tables,         \* names of tables
  MaxStatements,  \* bound: statements of all the upgrades
  Chain           \* bound: the graph whose upgrades are run

VARIABLES
  at,         \* the position in ordered of the revision under way, 0 before the first
  upgrade,    \* the statements of that revision so far
  count,      \* statements of all revisions so far
  database,   \* what the database has become
  replayed,   \* the schema the replay has built, and what it could not read
  raised,     \* the replay ended in a KeyError
  effects,    \* what each statement of this upgrade did to data older than the upgrade
  exact       \* no statement so far is one the replay is known to approximate

replayVars == <<at, upgrade, count, database, replayed, raised, effects, exact>>

(***************************************************************************)
(* Statements                                                              *)
(***************************************************************************)

Columns == {"id", "x", "y"}
Kinds == {"primary", "foreign", "unique", "check"}
K == <<"k", "">>                   \* the name migrations give to constraints
DefaultKey(t) == <<t, "pkey">>     \* the name PostgreSQL gives to a key without one
ReplayedKey(t) == <<"pk", t>>      \* the name the replay gives to it

\* key: the columns written primary_key=True.  stated: they are written nullable=False
\* too, which SQL does not ask for.  inline: x is written with a ForeignKey.
Statements ==
  {c \in [op : {"create_table"}, table : Tables, key : {{"id"}, {"id", "x"}}, stated : BOOLEAN,
          inline : BOOLEAN] :
     /\ c.key = {"id", "x"} => c.stated   \* bound: one of the three
     /\ c.inline => c.stated /\ c.key = {"id"}}
  \cup [op : {"drop_table", "create_index"}, table : Tables]
  \cup [op : {"rename_table"}, table : Tables, to : Tables]
  \cup [op : {"add_column"}, table : Tables, required : BOOLEAN]
  \cup [op : {"drop_column"}, table : Tables, column : Columns]
  \cup [op : {"alter_column"}, table : Tables, change : {"name", "type", "required", "nullable"}]
  \cup [op : {"create_constraint"}, table : Tables, kind : Kinds]
  \cup [op : {"drop_constraint"}, table : Tables, name : {K} \cup {DefaultKey(t) : t \in Tables}]
  \cup [op : {"drop_index"}]

\* "direct" in upgrade(); "keyword" there too, with every argument by keyword; "nested"
\* under an if or with; "hidden" in a helper or as SQL.
Places == {"direct", "keyword", "nested", "hidden"}

Put(f, k, v) == [x \in DOMAIN f \cup {k} |-> IF x = k THEN v ELSE f[x]]
Without(f, S) == [k \in DOMAIN f \ S |-> f[k]]
On(f, t) == {k \in DOMAIN f : f[k].table = t}
Constraint(kind, t, columns, referenced) ==
  [kind |-> kind, table |-> t, columns |-> columns, referenced |-> referenced]
NoTable == "none"

(***************************************************************************)
(* The database                                                            *)
(***************************************************************************)

Exists(t) == t \in DOMAIN database.tables
Has(t, c) == Exists(t) /\ c \in database.tables[t].columns
KeyOf(t) == UNION {d.columns : d \in {e \in database.constraints : e.kind = "primary" /\ e.table = t}}
Referenced(t) == \E d \in database.constraints : d.referenced = t /\ d.table # t
Target(t) == CHOOSE u \in Tables : u # t
Referable(t) == Exists(t) /\ KeyOf(t) = {"id"}

\* What the statement needs of the database; foreign keys refer to the other table's id.
Accepted(s) ==
  CASE s.op = "create_table" -> ~Exists(s.table) /\ (s.inline => Referable(Target(s.table)))
    [] s.op = "drop_table" -> Exists(s.table) /\ ~Referenced(s.table)
    [] s.op = "rename_table" -> Exists(s.table) /\ ~Exists(s.to)
    [] s.op = "add_column" -> Exists(s.table) /\ ~Has(s.table, "y")
    [] s.op = "drop_column" -> Has(s.table, s.column) /\ (s.column = "id" => ~Referenced(s.table))
    [] s.op = "alter_column" ->
         /\ Has(s.table, "x")
         /\ s.change = "name" => ~Has(s.table, "y")
         /\ s.change = "nullable" => "x" \notin KeyOf(s.table)
    [] s.op = "create_constraint" ->
         /\ Has(s.table, "x")
         /\ \A d \in database.constraints : d.name = K => d.table # s.table
         /\ s.kind = "foreign" => Referable(Target(s.table))
         /\ s.kind = "primary" => KeyOf(s.table) = {}
         /\ s.kind \in {"primary", "unique"} =>
              \A d \in database.constraints : d.name = K => d.kind \notin {"primary", "unique"}
    [] s.op = "drop_constraint" ->
         \E d \in database.constraints :
           d.name = s.name /\ d.table = s.table /\ (d.kind = "primary" => ~Referenced(s.table))
    [] s.op = "create_index" -> Has(s.table, "x") /\ database.indexes = {}
    [] s.op = "drop_index" -> database.indexes # {}

Renamed(S, old, new) == {IF z = old THEN new ELSE z : z \in S}

\* The constraints and indexes a statement on one column takes along or rewrites.
KeepWithout(S, t, c) == {d \in S : ~(d.table = t /\ c \in d.columns)}
RenameColumn(S, t, c, n) ==
  {IF d.table = t THEN [d EXCEPT !.columns = Renamed(@, c, n)] ELSE d : d \in S}
RenameTable(S, t, n) ==
  {[d EXCEPT !.table = IF @ = t THEN n ELSE @, !.referenced = IF @ = t THEN n ELSE @] : d \in S}

Named(name, c) ==
  [name |-> name, kind |-> c.kind, table |-> c.table, columns |-> c.columns,
   referenced |-> c.referenced]
Relation(columns, required) ==
  [columns |-> columns, required |-> required, old |-> {}, aged |-> FALSE]

\* What becomes of the columns of the statement's table.
Described(s, r) ==
  CASE s.op = "add_column" ->
         [r EXCEPT !.columns = @ \cup {"y"}, !.required = @ \cup {c \in {"y"} : s.required}]
    [] s.op = "drop_column" ->
         [r EXCEPT !.columns = @ \ {s.column}, !.required = @ \ {s.column}, !.old = @ \ {s.column}]
    [] s.op = "alter_column" /\ s.change = "name" ->
         [r EXCEPT !.columns = Renamed(@, "x", "y"), !.required = Renamed(@, "x", "y"),
                   !.old = Renamed(@, "x", "y")]
    [] s.op = "alter_column" /\ s.change = "required" -> [r EXCEPT !.required = @ \cup {"x"}]
    [] s.op = "alter_column" /\ s.change = "nullable" -> [r EXCEPT !.required = @ \ {"x"}]
    [] s.op = "create_constraint" -> [r EXCEPT !.required = @ \cup {c \in {"x"} : s.kind = "primary"}]
    [] OTHER -> r

Executed(db, s) ==
  CASE s.op = "create_table" ->
         [db EXCEPT !.tables = Put(@, s.table, Relation({"id", "x"}, s.key)),
                    !.constraints = @ \cup {Named(DefaultKey(s.table), Constraint("primary", s.table, s.key, NoTable))}
                      \cup {Named(<<t, "fkey">>, Constraint("foreign", t, {"x"}, Target(t))) :
                              t \in {u \in {s.table} : s.inline}}]
    [] s.op = "drop_table" ->
         [db EXCEPT !.tables = Without(@, {s.table}),
                    !.constraints = {d \in @ : d.table # s.table},
                    !.indexes = {d \in @ : d.table # s.table}]
    [] s.op = "rename_table" ->
         [db EXCEPT !.tables = Put(Without(@, {s.table}), s.to, @[s.table]),
                    !.constraints = RenameTable(@, s.table, s.to),
                    !.indexes = RenameTable(@, s.table, s.to)]
    [] s.op = "drop_column" ->
         [db EXCEPT !.tables[s.table] = Described(s, @),
                    !.constraints = KeepWithout(@, s.table, s.column),
                    !.indexes = KeepWithout(@, s.table, s.column)]
    [] s.op = "alter_column" /\ s.change = "name" ->
         [db EXCEPT !.tables[s.table] = Described(s, @),
                    !.constraints = RenameColumn(@, s.table, "x", "y"),
                    !.indexes = RenameColumn(@, s.table, "x", "y")]
    [] s.op = "create_constraint" ->
         [db EXCEPT !.tables[s.table] = Described(s, @),
                    !.constraints = @ \cup {Named(K, Constraint(s.kind, s.table, {"x"},
                      IF s.kind = "foreign" THEN Target(s.table) ELSE NoTable))}]
    [] s.op = "add_column" \/ (s.op = "alter_column" /\ s.change # "name") ->
         [db EXCEPT !.tables[s.table] = Described(s, @)]
    [] s.op = "drop_constraint" ->
         [db EXCEPT !.constraints = {d \in @ : ~(d.name = s.name /\ d.table = s.table)}]
    [] s.op = "create_index" ->
         [db EXCEPT !.indexes = {Constraint("index", s.table, {"x"}, NoTable)}]
    [] s.op = "drop_index" -> [db EXCEPT !.indexes = {}]

(***************************************************************************)
(* _apply                                                                  *)
(***************************************************************************)

Known(r, t) == t \in DOMAIN r.tables
I == "i"     \* the name migrations give to indexes

\* (fault) what the dropped table's constraints and indexes were is kept.
DropTable_Only(r, t) == [r EXCEPT !.tables = Without(@, {t})]

\* Foreign keys of other tables to it stay.
DropTable(r, t) ==
  [r EXCEPT !.tables = Without(@, {t}),
            !.constraints = Without(@, On(@, t)), !.indexes = Without(@, On(@, t))]

\* Constraints and indexes keep the old name of the table.
RenamedTable(r, old, new) ==
  IF Known(r, old)
    THEN [r EXCEPT !.tables = Put(Without(@, {old}), new, r.tables[old])] ELSE r

\* An unknown table is reported by add_column only.  The other operations on a column
\* pass over it, and leave the constraints and indexes as they were.
AddColumn(r, s) ==
  IF ~Known(r, s.table) THEN [r EXCEPT !.unsupported = TRUE]
  ELSE [r EXCEPT !.tables[s.table] =
         [columns |-> @.columns \cup {"y"},
          required |-> (@.required \ {"y"}) \cup {c \in {"y"} : s.required}]]
DropColumn(r, s) ==
  IF Known(r, s.table)
    THEN [r EXCEPT !.tables[s.table] =
           [columns |-> @.columns \ {s.column}, required |-> @.required \ {s.column}]] ELSE r
AlterColumn(r, s) ==
  IF ~Known(r, s.table) \/ "x" \notin r.tables[s.table].columns THEN r
  ELSE CASE s.change = "name" ->
              [r EXCEPT !.tables[s.table] = [columns |-> Renamed(@.columns, "x", "y"),
                                             required |-> Renamed(@.required \ {"y"}, "x", "y")]]
         [] s.change = "required" -> [r EXCEPT !.tables[s.table] =
                [columns |-> @.columns, required |-> @.required \cup {"x"}]]
         [] s.change = "nullable" -> [r EXCEPT !.tables[s.table] =
                [columns |-> @.columns, required |-> @.required \ {"x"}]]
         [] OTHER -> r

\* Every column written primary_key=True replaces the key before it, a column is required
\* only if that is written, and a ForeignKey written in a column is not read.
CreateTable(r, s) ==
  [r EXCEPT !.tables = Put(@, s.table, [columns |-> {"id", "x"},
                                        required |-> {c \in s.key : s.stated}]),
            !.constraints = Put(@, ReplayedKey(s.table),
              Constraint("primary", s.table, IF "x" \in s.key THEN {"x"} ELSE {"id"}, NoTable))]

\* A dict by name: a constraint of another table that has the name is replaced.
CreateConstraint(r, s) ==
  [r EXCEPT !.constraints = Put(@, K,
     Constraint(s.kind, s.table, IF s.kind = "check" THEN {} ELSE {"x"},
                IF s.kind = "foreign" THEN Target(s.table) ELSE NoTable))]

Applied(r, s) ==
  CASE s.op = "create_table" -> CreateTable(r, s)
    [] s.op = "drop_table" -> DropTable(r, s.table)
    [] s.op = "rename_table" -> RenamedTable(r, s.table, s.to)
    [] s.op = "add_column" -> AddColumn(r, s)
    [] s.op = "drop_column" -> DropColumn(r, s)
    [] s.op = "alter_column" -> AlterColumn(r, s)
    [] s.op = "create_constraint" -> CreateConstraint(r, s)
    [] s.op = "drop_constraint" -> [r EXCEPT !.constraints = Without(@, {s.name})]
    [] s.op = "create_index" ->
         [r EXCEPT !.indexes = Put(@, I, Constraint("index", s.table, {"x"}, NoTable))]
    [] s.op = "drop_index" -> [r EXCEPT !.indexes = Without(@, {I})]

(***************************************************************************)
(* assess_migration                                                        *)
(***************************************************************************)

\* What ast.walk finds: the statements under an if too, but not those of a helper.
Seen == {k \in DOMAIN upgrade : upgrade[k].place # "hidden"}

\* The table of a statement, where it is a positional argument (risk.py:80-115).
Targeted(e) == e.place # "keyword" /\ e.s.op \notin {"rename_table", "drop_index"}
CreatedTables ==
  {upgrade[k].s.table : k \in {j \in Seen : upgrade[j].s.op = "create_table" /\ Targeted(upgrade[j])}}

\* (fault) nothing is reported of a table the upgrade creates.
Suppressed_Drop(e) == Targeted(e) /\ e.s.table \in CreatedTables

\* A table that this upgrade creates, wherever, has no rows yet: only dropping it counts.
Suppressed(e) == Targeted(e) /\ e.s.op # "drop_table" /\ e.s.table \in CreatedTables

\* The operations assess_migration recognizes: not a key nor SET NOT NULL, nor a column
\* that is not the second positional argument.
Category(e) ==
  CASE e.s.op \in {"drop_table", "drop_column"} -> {"destructive"}
    [] e.s.op = "drop_constraint" -> {"constraint"}
    [] e.s.op = "create_constraint" /\ e.s.kind # "primary" -> {"constraint"}
    [] e.s.op = "add_column" /\ e.s.required /\ e.place # "keyword" -> {"constraint"}
    [] e.s.op = "alter_column" /\ e.s.change = "type" -> {"type_change"}
    [] e.s.op = "create_index" -> {"index"}
    [] OTHER -> {}

Reported == {k \in Seen : ~Suppressed(upgrade[k])}
RisksOf(k) == IF k \in Reported THEN Category(upgrade[k]) ELSE {}

\* What PostgreSQL does to data older than the upgrade: destroys it, scans it to validate
\* or to build an index, or rewrites it.
Aged(t) == Exists(t) /\ database.tables[t].aged
Destroys(s) ==
  \/ s.op = "drop_table" /\ Aged(s.table)
  \/ s.op = "drop_column" /\ s.column \in database.tables[s.table].old
Validates(s) ==
  /\ \/ s.op = "create_constraint"
     \/ s.op = "add_column" /\ s.required
     \/ s.op = "alter_column" /\ s.change = "required"
  /\ Aged(s.table)
Effect(s) ==
  {c \in {"destructive", "constraint", "type_change", "index"} :
     \/ c = "destructive" /\ Destroys(s)
     \/ c = "constraint" /\ Validates(s)
     \/ c = "type_change" /\ s.op = "alter_column" /\ s.change = "type" /\ Aged(s.table)
     \/ c = "index" /\ s.op = "create_index" /\ Aged(s.table)}

(***************************************************************************)
(* The statements of the upgrades                                          *)
(***************************************************************************)

Dependents(t) == {d \in database.constraints \cup database.indexes : d.table = t \/ d.referenced = t}

\* Statements the replay only approximates: a key or constraint lost or mistaken.
Approximated(s) ==
  CASE s.op = "create_table" -> s.inline \/ s.key # {"id"} \/ ~s.stated
    [] s.op = "rename_table" -> Dependents(s.table) # {}
    [] s.op = "drop_column" -> \E d \in Dependents(s.table) : s.column \in d.columns
    [] s.op = "alter_column" -> s.change = "name" /\ \E d \in Dependents(s.table) : "x" \in d.columns
    [] s.op = "create_constraint" ->
         s.kind = "primary" \/ \E d \in database.constraints : d.name = K
    [] s.op = "drop_constraint" -> s.name # K
    [] OTHER -> FALSE

ReplayInit ==
  /\ Init
  /\ at = 0 /\ upgrade = <<>> /\ count = 0 /\ effects = {} /\ exact = TRUE /\ raised = FALSE
  /\ database = [tables |-> <<>>, constraints |-> {}, indexes |-> {}]
  /\ replayed = [tables |-> <<>>, constraints |-> <<>>, indexes |-> <<>>, unsupported |-> FALSE]

\* The next revision: every row there is now is older than its upgrade.
NextRevision ==
  /\ phase = "ordered" /\ down = Chain /\ at < Len(ordered)
  /\ at' = at + 1
  /\ upgrade' = <<>> /\ effects' = {}
  /\ database' = [database EXCEPT !.tables = [t \in DOMAIN @ |->
                    [@[t] EXCEPT !.old = database.tables[t].columns, !.aged = TRUE]]]
  /\ UNCHANGED <<vars, count, replayed, raised, exact>>

\* The database runs a statement, unless the condition it is under is false.  The replay
\* applies it if it stands in upgrade() itself, raises if it needs an argument by position
\* that is not there, and reports any other.
RunStatement ==
  /\ at > 0 /\ count < MaxStatements
  /\ \E s \in Statements, place \in Places, runs \in BOOLEAN :
       /\ place # "nested" => runs
       /\ place # "direct" => at > 1 /\ ~replayed.unsupported /\ ~raised   \* bound: one, once rows may be older
       /\ Accepted(s) \/ (~runs /\ s.op = "create_table")
       /\ upgrade' = Append(upgrade, [s |-> s, place |-> place, runs |-> runs])
       /\ database' = IF runs THEN Executed(database, s) ELSE database
       /\ replayed' = CASE place = "direct" -> Applied(replayed, s)
                        [] place = "keyword" -> replayed
                        [] OTHER -> [replayed EXCEPT !.unsupported = TRUE]
       /\ raised' = (raised \/ place = "keyword")
       /\ effects' = effects \cup
            {[at |-> Len(upgrade) + 1, kind |-> c] : c \in IF runs THEN Effect(s) ELSE {}}
       /\ exact' = (exact /\ ~Approximated(s))
  /\ count' = count + 1
  /\ UNCHANGED <<vars, at>>

ReplayNext == (Next /\ UNCHANGED replayVars) \/ NextRevision \/ RunStatement

ReplaySpec ==
  /\ ReplayInit /\ [][ReplayNext]_<<vars, replayVars>>
  /\ WF_<<vars, replayVars>>(Next /\ UNCHANGED replayVars)

(***************************************************************************)
(* Properties                                                              *)
(***************************************************************************)

Shape(d) == Constraint(d.kind, d.table, IF d.kind = "check" THEN {} ELSE d.columns, d.referenced)

\* Unless a statement was reported, the replayed tables have the columns of the database,
\* through any renames, and no column is required that is not in the database; and unless
\* one was approximated, the nullability, constraints and indexes too (alembic_static.py:482).
SameSchema ==
  /\ \A t \in DOMAIN replayed.tables : replayed.tables[t].required = database.tables[t].required
  /\ {replayed.constraints[n] : n \in DOMAIN replayed.constraints} = {Shape(d) : d \in database.constraints}
  /\ {replayed.indexes[n] : n \in DOMAIN replayed.indexes} = {Shape(d) : d \in database.indexes}
ReplayIsTheDatabase ==
  ~raised /\ ~replayed.unsupported =>
    /\ DOMAIN replayed.tables = DOMAIN database.tables
    /\ \A t \in DOMAIN replayed.tables :
         /\ replayed.tables[t].columns = database.tables[t].columns
         /\ replayed.tables[t].required \subseteq database.tables[t].required
    /\ exact => SameSchema

\* What the module says of itself: what is not resolved is reported as unsupported rather
\* than guessed (alembic_static.py:3-7).  Keys and foreign keys are approximated silently.
NothingIsGuessed == ~raised /\ ~replayed.unsupported => SameSchema

\* What it says of literal arguments: they resolve to an operation (alembic_static.py:3-5).
LiteralsAreApplied == ~raised

\* Each statement that destroys, validates, rewrites or locks what is older than its
\* upgrade is reported with the risk it has, unless it is out of sight, or of an operation
\* assess_migration does not know; or the upgrade creates a table of that name and frees
\* the name too, or creates it under a condition that was false: then two tables share the
\* name (risk.py:141-145).  Dropping a table has no such excuse.
Unrecognized(e) ==
  \/ e.s.op = "create_constraint" /\ e.s.kind = "primary"
  \/ e.s.op = "alter_column" /\ e.s.change = "required"
  \/ e.s.op = "add_column" /\ e.place = "keyword"
Shared(t) ==
  /\ t \in CreatedTables
  /\ \E k \in DOMAIN upgrade :
       /\ upgrade[k].s.op \in {"create_table", "drop_table", "rename_table"}
       /\ upgrade[k].s.table = t
       /\ upgrade[k].s.op = "create_table" => ~upgrade[k].runs
RisksAreReported ==
  \A e \in effects :
    LET written == upgrade[e.at] IN
      \/ e.kind \in RisksOf(e.at) \/ e.at \notin Seen
      \/ Unrecognized(written)
      \/ written.s.op # "drop_table" /\ Shared(written.s.table)

\* What the code says of the tables an upgrade creates: created earlier in the upgrade,
\* they hold no rows older than it (risk.py:139-143).  It collects them over all of it.
SuppressedIsNew == \A e \in effects : ~(e.at \in Seen /\ Suppressed(upgrade[e.at]))
=============================================================================
