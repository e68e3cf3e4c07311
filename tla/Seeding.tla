------------------------------- MODULE Seeding -------------------------------
(***************************************************************************)
(* The deterministic seeder (adapters/seeder/plan.py and load.py): the     *)
(* strongly connected components of the foreign keys, the order in which   *)
(* the tables are loaded, and the load of a live database in one           *)
(* transaction.  A value is abstracted to where it comes from, so a table  *)
(* is the number of its rows and the foreign keys some row holds NULL in.  *)
(***************************************************************************)
EXTENDS SeedColumn, SequencesExt

CONSTANTS
  Tables,               \* the tables, numbered in the order of their ids
  MaxForeignKeyColumns, \* bound: columns of all the foreign keys
  KeyKinds,             \* kinds of primary key, see KeyKind
  Scale                 \* the target number of rows of every table

\* "integer": distinct values are generated.  "serial": the default is nextval().  "bare":
\* so it is, and the table has no column but this and its foreign keys.  "narrow": distinct
\* values of a smallint or varchar(n).  "referencing": a foreign key of the table is UNIQUE.
\* "timestamp": no strategy makes its values distinct.  "uuid": no value source.
KeyKind == {"integer", "serial", "bare", "narrow", "referencing", "timestamp", "uuid"}

ASSUME TablesAssumption == Tables \subseteq Nat \ {0} /\ IsFiniteSet(Tables)
ASSUME KeyKindsAssumption == "integer" \in KeyKinds /\ KeyKinds \subseteq KeyKind
ASSUME BoundsAssumption == MaxForeignKeyColumns \in Nat /\ Scale \in Nat

VARIABLES
  fks,                          \* the foreign keys of the schema
  pc,                           \* what is done next
  index, low, stack, work,      \* _strongly_connected's, 0 for a table not in index
  components,
  deferred, dropped, pending, order,  \* build_table_order's
  key,                          \* the kind of each table's primary key
  column,                       \* one more column of the first table, or NoColumn
  rows, nulls, behind,          \* the transaction: rows of each table, foreign keys with
                                \* a NULL, serial keys whose sequence is behind the rows
  noSource,                     \* tables reported to have no value source
  failure                       \* the constraint that made COPY raise, or "none"

search == <<index, low, stack, work, components>>
plan == <<deferred, dropped, pending, order>>
data == <<rows, nulls, behind, noSource, failure>>
vars == <<fks, pc, search, plan, key, column, data>>

NoColumn == [family |-> "none"]

ForeignKeys == [table : Tables, referenced : Tables, nullable : BOOLEAN, composite : BOOLEAN]

\* At most one foreign key between two tables, each of one column or of two.
Schemas ==
  LET pairs == Tables \X Tables
      columns(p, composite) == Cardinality(p) + Cardinality(composite)
      chosen == {p \in SUBSET pairs : Cardinality(p) <= MaxForeignKeyColumns}
  IN  UNION {{{[table |-> x[1], referenced |-> x[2], nullable |-> x \in nullable,
                composite |-> x \in composite] : x \in p} :
              nullable \in SUBSET p,
              composite \in {c \in SUBSET p : columns(p, c) <= MaxForeignKeyColumns}} :
             p \in chosen}

Zero == [t \in Tables |-> 0]

Init ==
  /\ fks \in Schemas
  /\ pc = "components"
  /\ index = Zero /\ low = Zero /\ stack = <<>> /\ work = <<>> /\ components = {}
  /\ deferred = {} /\ dropped = {} /\ pending = {} /\ order = <<>>
  /\ key = [t \in Tables |-> "integer"] /\ column = NoColumn
  /\ rows = Zero /\ nulls = {} /\ behind = {} /\ noSource = {} /\ failure = "none"

Of(t) == {f \in fks : f.table = t}
Parents(t) == {f.referenced : f \in Of(t)}
First(S) == CHOOSE s \in S : \A r \in S : s <= r
Sorted(S) == CHOOSE s \in [1..Cardinality(S) -> S] : \A i, j \in DOMAIN s : i < j => s[i] < s[j]

(***************************************************************************)
(* _strongly_connected                                                     *)
(***************************************************************************)

Counter == Cardinality({t \in Tables : index[t] # 0}) + 1
OnStack(t) == \E k \in DOMAIN stack : stack[k] = t
Node == work[Len(work)].node
Iterator == work[Len(work)].successors

Enter(t, frames) ==
  /\ index' = [index EXCEPT ![t] = Counter]
  /\ low' = [low EXCEPT ![t] = Counter]
  /\ stack' = Append(stack, t)
  /\ work' = Append(frames, [node |-> t, successors |-> Parents(t)])

NextRoot ==
  /\ pc = "components" /\ work = <<>>
  /\ \E t \in Tables :
       /\ index[t] = 0
       /\ t = First({r \in Tables : index[r] = 0})
       /\ Enter(t, <<>>)
  /\ UNCHANGED <<fks, pc, components, plan, key, column, data>>

\* The sorted iterator of the top frame goes on.
NextSuccessor ==
  /\ pc = "components" /\ work # <<>> /\ Iterator # {}
  /\ LET s == First(Iterator)
         advanced == [work EXCEPT ![Len(work)] = [node |-> Node, successors |-> Iterator \ {s}]]
     IN  IF index[s] = 0
           THEN Enter(s, advanced)
           ELSE /\ work' = advanced
                /\ low' = IF OnStack(s) /\ index[s] < low[Node]
                            THEN [low EXCEPT ![Node] = index[s]] ELSE low
                /\ UNCHANGED <<index, stack>>
  /\ UNCHANGED <<fks, pc, components, plan, key, column, data>>

\* Pops the stack down to the node that closes its component.
PopComponent(node) ==
  IF low[node] # index[node]
    THEN UNCHANGED <<stack, components>>
    ELSE \E k \in DOMAIN stack :
           /\ stack[k] = node
           /\ components' = components \cup {{stack[j] : j \in k..Len(stack)}}
           /\ stack' = SubSeq(stack, 1, k - 1)

\* (fault) the caller does not learn how low its successor reached.
FinishNode_NoLow ==
  /\ pc = "components" /\ work # <<>> /\ Iterator = {}
  /\ work' = SubSeq(work, 1, Len(work) - 1)
  /\ PopComponent(Node)
  /\ UNCHANGED <<fks, pc, index, low, plan, key, column, data>>

FinishNode ==
  /\ pc = "components" /\ work # <<>> /\ Iterator = {}
  /\ LET below == SubSeq(work, 1, Len(work) - 1)
     IN  /\ work' = below
         /\ low' = IF below # <<>> /\ low[Node] < low[below[Len(below)].node]
                     THEN [low EXCEPT ![below[Len(below)].node] = low[Node]] ELSE low
  /\ PopComponent(Node)
  /\ UNCHANGED <<fks, pc, index, plan, key, column, data>>

(***************************************************************************)
(* build_table_order                                                       *)
(***************************************************************************)

Inside(members) == {f \in fks : f.table \in members /\ f.referenced \in members}
Cyclic(members) == Cardinality(members) > 1 \/ Inside(members) # {}

\* (fault) one nullable column is taken to be enough to break the cycle.
Deferrable_Any(members) == \E f \in Inside(members) : f.nullable

\* Every column of the foreign keys within the cycle is nullable.
Deferrable(members) == \A f \in Inside(members) : f.nullable

\* (fault) the edges of the deferred columns still hold their tables back.
Blockers_Kept(t, late, gone) == {p \in Parents(t) : p \notin gone /\ p # t}

\* The parents a table waits for.  Edges within a deferred cycle are discarded.
Blockers(t, late, gone) ==
  {f.referenced : f \in {g \in Of(t) : g \notin late /\ g.referenced \notin gone /\ g.referenced # t}}

ResolveCycles ==
  /\ pc = "components" /\ work = <<>> /\ \A t \in Tables : index[t] # 0
  /\ LET cycles == {c \in components : Cyclic(c)}
         late == UNION {Inside(c) : c \in {d \in cycles : Deferrable(d)}}
         gone == UNION {c \in cycles : ~Deferrable(c)}
     IN  /\ deferred' = late
         /\ dropped' = gone
         /\ pending' = {<<t, Blockers(t, late, gone)>> : t \in Tables \ gone}
  /\ pc' = "order"
  /\ UNCHANGED <<fks, search, order, key, column, data>>

Ready == {w[1] : w \in {v \in pending : v[2] = {}}}

\* One round of the while loop: the tables nothing blocks any more.
Layer ==
  /\ pc = "order" /\ Ready # {}
  /\ order' = order \o Sorted(Ready)
  /\ pending' = {<<w[1], w[2] \ Ready>> : w \in {v \in pending : v[2] # {}}}
  /\ UNCHANGED <<fks, pc, search, deferred, dropped, key, column, data>>

(***************************************************************************)
(* load_dataset                                                            *)
(***************************************************************************)

\* The live database: rows a data migration inserted, one in at most one table, which
\* holds NULL wherever it may, and at most one key that is not a plain integer.  The
\* migration may have written the key of its row itself, so that the sequence is behind.
OpenDatabase ==
  /\ pc = "order" /\ Ready = {}
  /\ \E t \in Tables, k \in KeyKinds : key' = [key EXCEPT ![t] = k]
  /\ \E e \in {S \in SUBSET Tables : Cardinality(S) <= 1} :
       /\ \A f \in fks : f.table \in e => f.nullable \/ f.referenced \in e
       /\ rows' = [t \in Tables |-> IF t \in e THEN 1 ELSE 0]
       /\ nulls' = {f \in fks : f.table \in e /\ f.nullable}
       /\ behind' \in SUBSET {t \in e : key'[t] \in {"serial", "bare"}}
  /\ pc' = "load"
  /\ UNCHANGED <<fks, search, deferred, dropped, pending, order, column, noSource, failure>>

\* The live database is empty, without foreign keys, and has a column with a CHECK.
OpenDatabaseWithCheck ==
  /\ pc = "order" /\ Ready = {} /\ fks = {}
  /\ column' \in Columns
  /\ pc' = "load"
  /\ UNCHANGED <<fks, search, plan, key, data>>

Loading == order[1]
RowCount(t) == IF rows[t] < Scale THEN Scale - rows[t] ELSE 0

\* A foreign key column samples its pool, unless it is deferred; the columns of a
\* composite one have no pool and take whatever their type is given.
Pooled(t) == {f \in Of(t) : f \notin deferred /\ ~f.composite}
EmptyPool(f) == rows[f.referenced] = 0
Fabricated(t) == {f \in Of(t) : f \notin deferred /\ f.composite}

HasColumn(t) == column # NoColumn /\ t = First(Tables)

NoValueSource(t) ==
  \/ key[t] = "uuid"
  \/ \E f \in Pooled(t) : EmptyPool(f) /\ ~f.nullable
  \/ HasColumn(t) /\ PlanColumn(column) = NoValues /\ ~column.nullable

\* The new rows' NULLs: deferred columns, and nullable ones without a parent row.
NewNulls(t) == {f \in Of(t) : f \in deferred \/ (f \in Pooled(t) /\ EmptyPool(f))}

ColumnValues(t) == IF HasColumn(t) THEN PlanColumn(column) ELSE {}

\* The columns COPY is given: those that are not left to a default of the database.
Copied(t) ==
  (IF key[t] \in {"serial", "bare"} THEN {} ELSE {<<"key">>})
  \cup (IF key[t] = "bare" THEN {} ELSE {<<"other">>})
  \cup {<<"foreign_key", f.referenced>> : f \in Of(t)}

\* A foreign key column, of one column, that is UNIQUE samples its parents' keys twice.
Collides(f) == key[f.table] = "referencing" /\ rows[f.referenced] > 0

\* What PostgreSQL may find wrong with the copied rows.
Violations(t) ==
  {"not_null" : f \in {g \in NewNulls(t) : ~g.nullable}}
  \cup {"foreign_key" : f \in Fabricated(t)}
  \cup {"unique" : x \in {y \in {t} : Scale > 1 /\ (key[t] = "timestamp" \/ \E f \in Pooled(t) : Collides(f))}}
  \cup {"check" : v \in {w \in ColumnValues(t) : ~Satisfied(column.check, w)}}
  \cup {"range" : x \in {y \in {t} : key[t] = "narrow" \/ \E v \in ColumnValues(t) : ~Fits(column, v)}}
Certain(t) ==
  {"not_null" : f \in {g \in NewNulls(t) : ~g.nullable}}
  \cup {"unique" : x \in {t} \cap behind}
  \cup {"syntax" : x \in {y \in {t} : Copied(t) = {}}}

NextTable == order' = Tail(order)

\* A column without a value source that may not be NULL: the table gets no rows.
SkipTable ==
  /\ pc = "load" /\ order # <<>> /\ NoValueSource(Loading)
  /\ noSource' = noSource \cup {Loading}
  /\ NextTable
  /\ UNCHANGED <<fks, pc, search, deferred, dropped, pending, key, column, rows, nulls, behind, failure>>

\* The rows are copied and the table analyzed.  Rows that exist already are enough.
CopyTable ==
  /\ pc = "load" /\ order # <<>> /\ ~NoValueSource(Loading)
  /\ RowCount(Loading) > 0 => Certain(Loading) = {}
  /\ rows' = [rows EXCEPT ![Loading] = @ + RowCount(Loading)]
  /\ nulls' = IF RowCount(Loading) > 0 THEN nulls \cup NewNulls(Loading) ELSE nulls
  /\ NextTable
  /\ UNCHANGED <<fks, pc, search, deferred, dropped, pending, key, column, behind, noSource, failure>>

\* COPY raises: nothing catches it, and the transaction is never committed.
CopyFails ==
  /\ pc = "load" /\ order # <<>> /\ ~NoValueSource(Loading) /\ RowCount(Loading) > 0
  /\ failure' \in Violations(Loading) \cup Certain(Loading)
  /\ pc' = "failed"
  /\ UNCHANGED <<fks, search, plan, key, column, rows, nulls, behind, noSource>>

SynchronizeSequences ==
  /\ pc = "load" /\ order = <<>>
  /\ behind' = {}
  /\ pc' = "fill"
  /\ UNCHANGED <<fks, search, plan, key, column, rows, nulls, noSource, failure>>

\* (fault) a table that refers to itself has no parent to sample.
Fillable_Other(f) == f \in deferred /\ ~f.composite /\ rows[f.referenced] > 0 /\ f.referenced # f.table

\* Deferred columns of a single-column foreign key whose parent has rows.
Fillable(f) == f \in deferred /\ ~f.composite /\ rows[f.referenced] > 0

\* Every row of the table is updated, whoever inserted it; then the commit.
FillDeferred ==
  /\ pc = "fill"
  /\ nulls' = {f \in nulls : ~Fillable(f)}
  /\ pc' = "committed"
  /\ UNCHANGED <<fks, search, plan, key, column, rows, behind, noSource, failure>>

\* The UPDATE of a UNIQUE foreign key column raises, before the commit.
FillFails ==
  /\ pc = "fill"
  /\ \E f \in deferred : Fillable(f) /\ Collides(f) /\ rows[f.table] > 1
  /\ failure' = "fill_unique"
  /\ pc' = "failed"
  /\ UNCHANGED <<fks, search, plan, key, column, rows, nulls, behind, noSource>>

Next ==
  \/ NextRoot \/ NextSuccessor \/ FinishNode \/ ResolveCycles \/ Layer
  \/ OpenDatabase \/ OpenDatabaseWithCheck \/ SkipTable \/ CopyTable \/ CopyFails
  \/ SynchronizeSequences \/ FillDeferred \/ FillFails

Spec == Init /\ [][Next]_vars /\ WF_vars(Next)

(***************************************************************************)
(* Properties                                                              *)
(***************************************************************************)

\* Reference definition: u is in every set that has the parents of t and of all it has.
Reaches(t, u) ==
  \A S \in SUBSET Tables : Parents(t) \subseteq S /\ (\A s \in S : Parents(s) \subseteq S) => u \in S

\* The iterative search of _strongly_connected, whose low points pass from frame to
\* frame, ends with exactly the classes of tables that reach each other.
ComponentsAreCycles ==
  pc = "order" => components = {{u \in Tables : u = t \/ (Reaches(t, u) /\ Reaches(u, t))} : t \in Tables}

\* When no table is ready any more build_table_order has listed every table it did not
\* drop, once, each after the tables its loaded foreign keys refer to; and only tables
\* that reach themselves over a foreign key that may not be NULL are dropped.
OrderIsComplete ==
  /\ pc = "order" /\ Ready = {} =>
       /\ ToSet(order) = Tables \ dropped /\ IsInjective(order)
       /\ \A i, j \in DOMAIN order :
            (\E f \in Of(order[i]) \ deferred : f.referenced = order[j]) => j < i
  /\ \A t \in dropped : \E f \in fks : ~f.nullable /\ Reaches(t, f.table) /\ Reaches(f.referenced, t)

\* Both together: the tables are ordered by what refers to what, and none is forgotten.
LoadOrderIsSound == ComponentsAreCycles /\ OrderIsComplete

\* What the load writes is refused only for these causes.  COPY never puts NULL in a column
\* that may not hold it.  It violates a foreign key only of several columns, a key only
\* behind its sequence, without a strategy for it or, as the UPDATE does, over a UNIQUE
\* foreign key; a CHECK the recognizer accepted only where a strategy precedes it or where
\* it bounds the column twice in one direction or bounds a column not an integer; a narrow
\* type unless the CHECK lists its values or is BETWEEN; and has no columns only if all of
\* the table's have defaults.
CopyIsAccepted ==
  /\ failure # "not_null"
  /\ failure = "foreign_key" => \E f \in Of(Loading) : f.composite
  /\ failure = "unique" => key[Loading] \in {"timestamp", "referencing"} \/ Loading \in behind
  /\ failure = "fill_unique" => \E f \in deferred : key[f.table] = "referencing" /\ ~f.composite
  /\ failure = "syntax" => key[Loading] = "bare" /\ Of(Loading) = {}
  /\ failure = "range" =>
       \/ key[Loading] = "narrow"
       \/ column.narrow /\ (column.unique \/ ~BoundedByCheck(column))
  /\ failure = "check" =>
       \/ Recognized(column.check) = Nothing
       \/ column.unique \/ column.family = "boolean"
       \/ /\ Recognized(column.check).kind = "range"
          /\ \/ column.family # "integer"
             \/ column.check.node = "and" /\ \E i, j \in DOMAIN column.check.args :
                  i # j /\ (IsLower(column.check.args[i]) <=> IsLower(column.check.args[j]))

\* unique_value_columns reports a key without a strategy for "risking a live collision at
\* COPY time instead of an honest report" (plan.py:493-497): such a key is not left to collide.
KeysDoNotCollide == failure = "unique" => key[Loading] # "timestamp"

\* The columns of a composite foreign key "get no value source at all", lest parent tuples
\* be fabricated that do not exist (plan.py:656-659): COPY never finds one.
CompositeKeysHaveNoSource == failure # "foreign_key"

\* generate_table_rows returns rows "ready for COPY" (plan.py:682): COPY can be written.
RowsAreReadyForCopy == failure # "syntax"

\* What is committed is the target: a table is short of it only if its cycle was dropped
\* or it has no value source, for want of a strategy or of rows in a parent that is
\* empty still; and a deferred foreign key of one column is filled if its parent has rows.
LoadedIsComplete ==
  pc = "committed" =>
    /\ \A t \in Tables \ dropped : rows[t] < Scale =>
         \/ key[t] = "uuid" \/ HasColumn(t)
         \/ \E f \in Of(t) : ~f.nullable /\ rows[f.referenced] = 0
    /\ \A f \in nulls \cap deferred : f.composite \/ rows[f.referenced] = 0
=============================================================================
