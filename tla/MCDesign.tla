------------------------------- MODULE MCDesign -------------------------------
EXTENDS Design

MCTables == {"items", "orders", "tenants"}
MCFormer == [t \in MCTables |-> CASE t = "items" -> "old_items" [] t = "orders" -> "old_orders" [] OTHER -> "old_tenants"]
MCNames == MCTables \cup {"old_items", "old_orders", "old_tenants"}
MCPlace == [n \in MCNames |-> CASE n = "items" -> 1 [] n = "orders" -> 5 [] n = "tenants" -> 6
                              [] n = "old_items" -> 2 [] n = "old_orders" -> 3 [] OTHER -> 4]
MCTarget == [t \in MCTables |-> CASE t = "items" -> "orders" [] t = "orders" -> "tenants" [] OTHER -> None]
MCRefColumn == [n \in MCNames |-> IF n \in {"items", "old_items"} THEN "order_id" ELSE "tenant_id"]
MCQuestions == {"core_table_scale", "core_tenant_model", "core_rpo_rto"}
MCAsked == [q \in MCQuestions |-> CASE q = "core_table_scale" -> 1 [] q = "core_tenant_model" -> 2 [] OTHER -> 3]
MCFirstRest == [sections |-> "r1", runner |-> "full", loose |-> FALSE]
MCRests == {MCFirstRest, [sections |-> "r2", runner |-> "brief", loose |-> TRUE],
            [sections |-> "none", runner |-> "absent", loose |-> TRUE]}

Key == [written |-> "annotated", optional |-> FALSE, call |-> "column", splat |-> FALSE,
        foreign |-> "literal", nullable |-> "unstated"]
ToOne == [annotation |-> "one", named |-> FALSE, splat |-> FALSE, secondary |-> "none", scalar |-> FALSE]
Class(ref, relationship) ==
  [parses |-> TRUE, table |-> "literal", ref |-> ref, relationship |-> relationship]
NoClass == [Class(None, None) EXCEPT !.table = "none"]
Table(ref, foreign, index) ==
  [table |-> "created", moved |-> "renamed" \in foreign \cup index, ref |-> ref, foreign |-> foreign,
   valid |-> foreign # {}, index |-> index]
NoTable == [Table("none", {}, {}) EXCEPT !.table = "absent"]

\* The models of items: every kind of class, of column and of relationship.
ItemClasses ==
  {NoClass, [NoClass EXCEPT !.parses = FALSE], [Class(Key, ToOne) EXCEPT !.table = "computed"],
   [Class(Key, ToOne) EXCEPT !.table = "table=True"]}
  \cup {Class(key, ToOne) : key \in {Key, [Key EXCEPT !.nullable = "yes"], [Key EXCEPT !.call = "other"],
          [Key EXCEPT !.foreign = "computed"], [Key EXCEPT !.written = "loop"]}}
  \cup {Class(Key, r) : r \in {None, [ToOne EXCEPT !.annotation = "list"], [ToOne EXCEPT !.scalar = TRUE],
          [ToOne EXCEPT !.annotation = "none", !.named = TRUE], [ToOne EXCEPT !.splat = TRUE],
          [ToOne EXCEPT !.annotation = "list", !.secondary = "variable"]}}

ItemTables ==
  {NoTable, Table("none", {}, {}), Table("nullable", {"constraint"}, {}), Table("required", {"inline"}, {}),
   Table("required", {"dropped"}, {})}
  \cup {Table("required", {}, i) : i \in {{}, {"renamed"}}}
  \cup {Table("required", {"constraint"}, i) : i \in {{"plain"}, {"sql"}, {"computed"}, {"conditional"}, {"dropped"}, {"renamed"}}}
  \cup {Table("required", {"renamed"}, i) : i \in {{}, {"renamed"}}}
  \cup {[Table("required", f, {}) EXCEPT !.table = "hidden"] : f \in {{}, {"constraint"}}}

OrderParts ==
  <<<<Class(None, None), Table("required", {"constraint"}, {"plain"})>>,
   <<Class([Key EXCEPT !.written = "plain", !.nullable = "no"], ToOne), Table("required", {}, {})>>,
   <<NoClass, [Table("nullable", {"constraint"}, {"plain"}) EXCEPT !.table = "hidden"]>>>>

ProjectOf(i, d, o, l) ==
  [source |-> [t \in MCTables |-> CASE t = "items" -> i [] t = "orders" -> o[1] [] OTHER -> Class(None, None)],
   database |-> [t \in MCTables |-> CASE t = "items" -> d [] t = "orders" -> o[2] [] OTHER -> Table("none", {}, {})],
   linear |-> l]

\* Every class of items, every table with and without a class, and ambiguous revisions.
MCProjects ==
  {ProjectOf(i, Table("required", {}, {}), OrderParts[2], TRUE) : i \in ItemClasses}
  \cup {ProjectOf(Class(None, ToOne), Table("none", {}, {}), OrderParts[1], TRUE)}
  \cup {ProjectOf(Class(Key, ToOne), d, o, TRUE) : d \in ItemTables, o \in {OrderParts[1], OrderParts[3]}}
  \cup {ProjectOf(NoClass, d, OrderParts[3], TRUE) : d \in {t \in ItemTables : "constraint" \in t.foreign}}
  \cup {ProjectOf(Class(Key, ToOne), d, OrderParts[2], FALSE) : d \in {NoTable, Table("required", {"constraint"}, {})}}

\* With a tenant column and without: the projects whose developer is asked everything and
\* edits the rest of pgproof.toml.
AnswersKey == [Key EXCEPT !.written = "plain", !.nullable = "no"]
MCAnswerProjects ==
  {ProjectOf(Class(AnswersKey, ToOne), Table("required", {}, {}), OrderParts[k], TRUE) : k \in {2, 3}}

MCAllProjects == MCProjects \cup MCAnswerProjects

\* In the others the third question is always left blank and the rest is not edited.
Bounded ==
  \/ source["items"].ref = AnswersKey
  \/ /\ wanted \in {MCFirstRest, NoRest}
     /\ told["core_rpo_rto"] \in {<<>>, <<"blank">>}
     /\ draft # NoDraft => Said("core_rpo_rto") \subseteq {<<"core_rpo_rto", "blank">>}

MCSpec == Init /\ [][Next /\ Bounded']_vars /\ Fairness
=============================================================================
