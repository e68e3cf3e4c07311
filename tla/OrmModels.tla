------------------------------ MODULE OrmModels ------------------------------
(***************************************************************************)
(* What the static analysis of declarative models makes of them            *)
(* (adapters/repository/sqlalchemy_static.py): one module with one class   *)
(* for each table, whose body holds an id, at most one column that refers  *)
(* to another table and at most one relationship to the class of that      *)
(* table.                                                                  *)
(***************************************************************************)
EXTENDS Naturals, Sequences, FiniteSets

CONSTANTS
  Tables,     \* the tables, each the name of its module too
  Target,     \* for a table, the one it refers to, or None
  RefColumn,  \* for a table, the column it refers with
  Place,      \* for a table, the place of its module in the order of their paths
  None

ASSUME TablesAssumption == IsFiniteSet(Tables) /\ None \notin Tables
ASSUME TargetAssumption == \A t \in Tables : Target[t] \in (Tables \ {t}) \cup {None} /\ RefColumn[t] # "id"
ASSUME PlaceAssumption == \A t, u \in Tables : Place[t] \in Nat /\ (Place[t] = Place[u] => t = u)

(***************************************************************************)
(* Source text                                                             *)
(***************************************************************************)

\* An annotated assignment, one without annotation, or one made in a loop; of a call of
\* Column and its like, of another function, or of no call; with **keywords or not.
ColumnStatements ==
  [written : {"annotated", "plain", "loop"}, optional : BOOLEAN, call : {"column", "other", "none"},
   splat : BOOLEAN, foreign : {"none", "literal", "computed"}, nullable : {"unstated", "yes", "no"}]

\* The annotation names the target's class, or a list of it; so may the first argument.
RelationshipStatements ==
  [annotation : {"none", "one", "list"}, named : BOOLEAN, splat : BOOLEAN,
   secondary : {"none", "variable", "text"}, scalar : BOOLEAN]

Classes ==
  [parses : BOOLEAN, table : {"none", "literal", "computed", "table=True"},
   ref : ColumnStatements \cup {None}, relationship : RelationshipStatements \cup {None}]

(***************************************************************************)
(* Classes                                                                 *)
(***************************************************************************)

\* (fault) a class with any __tablename__ is mapped.
Mapped_Any(source) == {t \in Tables : source[t].parses /\ source[t].table # "none"}

\* The tables a class is found for: its name is a literal, or that of the class.
Mapped(source) == {t \in Tables : source[t].parses /\ source[t].table \in {"literal", "table=True"}}

UnsupportedClasses(source) ==
  {<<t, "module">> : t \in {u \in Tables : ~source[u].parses}}
  \cup {<<t, "table">> : t \in {u \in Tables : source[u].parses /\ source[u].table = "computed"}}

(***************************************************************************)
(* Columns                                                                 *)
(***************************************************************************)

\* _decompose_statement: a name with an annotation, or one that is assigned a call.
Decomposed(s) == s.written = "annotated" \/ (s.written = "plain" /\ s.call # "none")

Resolved(s) == s.call = "none" \/ (~s.splat /\ s.foreign # "computed")

IsColumn(s) == Decomposed(s) /\ s.call # "other" /\ Resolved(s)

\* What is written wins; else an annotation that allows None; else a column may be NULL.
Nullable(s) ==
  IF s.call = "column" /\ s.nullable # "unstated" THEN s.nullable = "yes"
  ELSE s.written = "annotated" => s.optional

RefDeclared(source) == {t \in Mapped(source) : source[t].ref # None /\ IsColumn(source[t].ref)}

Columns(source) ==
  {[table |-> t, column |-> "id", nullable |-> FALSE] : t \in Mapped(source)}
  \cup {[table |-> t, column |-> RefColumn[t], nullable |-> Nullable(source[t].ref)] :
          t \in RefDeclared(source)}

ForeignKeys(source) ==
  {<<t, Target[t]>> : t \in {u \in RefDeclared(source) :
                               source[u].ref.call = "column" /\ source[u].ref.foreign = "literal"}}

(***************************************************************************)
(* Relationships, once every module is read                                *)
(***************************************************************************)

\* (fault) a list is the many side too.
Cardinality_Any(r) == IF r.secondary = "none" /\ r.annotation # "none" THEN "many_to_one" ELSE "unresolved"

CardinalityOf(r) ==
  IF r.secondary # "none" THEN IF r.annotation = "list" THEN "many_to_many" ELSE "unresolved"
  ELSE IF r.annotation = "list" THEN "one_to_many"
  ELSE IF r.scalar THEN "one_to_one"
  ELSE IF r.annotation = "one" THEN "many_to_one"
  ELSE "unresolved"

\* The class it names is among those that were found, and its keywords can be read.
Resolves(source, t) ==
  LET r == source[t].relationship
  IN  r # None /\ ~r.splat /\ (r.annotation # "none" \/ r.named) /\ Target[t] \in Mapped(source)

\* secondary= resolves to a table when it is a variable that holds one.
Relationships(source) ==
  {[from |-> t, to |-> Target[t], cardinality |-> CardinalityOf(source[t].relationship),
    via |-> source[t].relationship.secondary = "variable"] :
     t \in {u \in Mapped(source) : Resolves(source, u)}}

UnsupportedStatements(source) ==
  {<<t, "column">> : t \in {u \in Mapped(source) : source[u].ref # None /\ u \notin RefDeclared(source)}}
  \cup {<<t, "relationship">> : t \in {u \in Mapped(source) :
          source[u].relationship # None /\ ~Resolves(source, u)}}

\* parse_models
ParseModels(source) ==
  [tables |-> Mapped(source), columns |-> Columns(source),
   keys |-> {<<t, "id">> : t \in Mapped(source)},
   foreign |-> ForeignKeys(source), relationships |-> Relationships(source),
   unsupported |-> UnsupportedClasses(source) \cup UnsupportedStatements(source)]
=============================================================================
