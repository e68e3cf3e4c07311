-------------------------- MODULE IndexCandidates --------------------------
(***************************************************************************)
(* The indexes pgproof proposes for a query: extract_predicates            *)
(* (adapters/parameters/extract.py) and generate_candidates                *)
(* (adapters/candidates/generate.py).  A WHERE clause is the sequence of   *)
(* its comparisons in the order of the visitor; "plain" says that none of  *)
(* OR and NOT is above one.  A table's columns have distinct names, and a  *)
(* name stands for its column.                                             *)
(***************************************************************************)
EXTENDS Naturals, SequencesExt

CONSTANTS
  TypeOf,         \* TypeOf[t][c]: "number", "time" or "other", for table t's column c
  Indexes,        \* the catalog's indexes: [table, method, partial, keys]
  Constraints,    \* the catalog's constraints: [table, kind, columns]
  MaxCandidates   \* _MAX_CANDIDATES

Tables == DOMAIN TypeOf
Columns(t) == DOMAIN TypeOf[t]

ASSUME MaxCandidatesAssumption == MaxCandidates \in Nat \ {0}
ASSUME CatalogAssumption ==
  /\ \A i \in DOMAIN Indexes : LET x == Indexes[i] IN
       \* An expression is a key whose column is "none".
       /\ x.table \in Tables /\ x.method \in {"btree", "other"} /\ x.partial \in BOOLEAN
       /\ x.keys \in Seq([column : Columns(x.table) \cup {"none"}, direction : {"asc", "desc"}])
  /\ \A t \in Tables : \A c \in Columns(t) : TypeOf[t][c] \in {"number", "time", "other"}
  /\ \A i \in DOMAIN Constraints : LET x == Constraints[i] IN
       x.table \in Tables /\ x.columns \in Seq(Columns(x.table))

(***************************************************************************)
(* Lists                                                                   *)
(***************************************************************************)

\* How many elements of S come before x in the order.
Rank(S, order, x) == Cardinality({y \in S : <<y, x>> \in order})

\* The elements of S as a list in the order, a strict one on S.
InOrder(S, order) == [n \in 1..Cardinality(S) |-> CHOOSE x \in S : Rank(S, order, x) = n - 1]

ByPosition(S) == InOrder(S, {p \in S \X S : p[1] < p[2]})

(***************************************************************************)
(* extract_predicates: a predicate is its position in the WHERE clause     *)
(***************************************************************************)

Equality == "equality"
Range_ == "range"
NoKind == "no kind"

\* _resolve_column: by name alone, in the first relation that has one.
Having(query, name) == {r \in DOMAIN query.relations : name \in Columns(query.relations[r])}
Resolve(query, name) == query.relations[Min(Having(query, name))]

\* _kind_for: ranges over text, booleans or documents have no kind.
KindFor(operator, type) ==
  CASE operator = "=" -> Equality
    [] operator = "<" /\ type \in {"number", "time"} -> Range_
    [] OTHER -> NoKind

\* _PredicateFinder: comparisons with a parameter, on either side of it.
Found(query) == {k \in DOMAIN query.where : query.where[k].plain /\ query.where[k].parameter}

ColumnOf(query, k) == query.where[k].column
TableOf(query, k) == Resolve(query, ColumnOf(query, k))
KindOf(query, k) ==
  KindFor(query.where[k].operator, TypeOf[TableOf(query, k)][ColumnOf(query, k)])

ExtractPredicates(query) ==
  {k \in Found(query) : Having(query, ColumnOf(query, k)) # {} /\ KindOf(query, k) # NoKind}

(***************************************************************************)
(* generate_candidates                                                     *)
(***************************************************************************)

\* The key sequence of an index that could make a candidate redundant; none
\* of a partial, an expression or a descending one.
KeySequence(index) ==
  IF \/ index.method # "btree" \/ index.partial
     \/ \E k \in DOMAIN index.keys :
          index.keys[k].column = "none" \/ index.keys[k].direction # "asc"
  THEN <<>>
  ELSE [k \in DOMAIN index.keys |-> index.keys[k].column]

\* _existing_key_sequences, without the names that only a reason shows.
ExistingKeySequences(table) ==
  {KeySequence(Indexes[i]) : i \in {j \in DOMAIN Indexes : Indexes[j].table = table}}
  \cup {Constraints[i].columns : i \in {j \in DOMAIN Constraints :
          Constraints[j].table = table /\ Constraints[j].kind \in {"primary key", "unique"}}}

\* (fault) an index on a prefix of the candidate makes it redundant.
Duplicates_Swapped(table, columns) ==
  \E key \in ExistingKeySequences(table) : key # <<>> /\ IsPrefix(key, columns)

\* _duplicate_of: an existing key begins with all the columns.
Duplicates(table, columns) == \E key \in ExistingKeySequences(table) : IsPrefix(columns, key)

\* by_table
PredicatesOf(query, table) == {k \in ExtractPredicates(query) : TableOf(query, k) = table}
EqualitiesOf(query, table) == {k \in PredicatesOf(query, table) : KindOf(query, k) = Equality}
RangesOf(query, table) == PredicatesOf(query, table) \ EqualitiesOf(query, table)

ColumnsAt(query, S) == [n \in 1..Cardinality(S) |-> ColumnOf(query, ByPosition(S)[n])]

\* A shape's place: its table's first predicate, and then its turn in the table.
Shape(query, table, turn, columns) ==
  [table |-> table, columns |-> columns, first |-> Min(PredicatesOf(query, table)), turn |-> turn]

\* _candidate_shapes: composites first, then one shape for each predicate.
Shapes(query, table) ==
  LET equality == EqualitiesOf(query, table)
      ranges == RangesOf(query, table)
  IN  (IF equality # {} /\ ranges # {}
       THEN {Shape(query, table, 0,
                   Append(ColumnsAt(query, equality), ColumnOf(query, Min(ranges))))}
       ELSE {})
      \cup (IF Cardinality(equality) >= 2
            THEN {Shape(query, table, 1, ColumnsAt(query, equality))} ELSE {})
      \cup {Shape(query, table, 1 + k, <<ColumnOf(query, k)>>) : k \in PredicatesOf(query, table)}

AllShapes(query) ==
  UNION {Shapes(query, table) : table \in {TableOf(query, k) : k \in ExtractPredicates(query)}}

\* The tables in the order of their first predicates, each with its shapes.
Earlier(x, y) == x.first < y.first \/ (x.first = y.first /\ x.turn < y.turn)

\* seen_columns: the same columns of a table are only looked at once.
Unseen(query) ==
  {x \in AllShapes(query) : \A y \in AllShapes(query) :
     Earlier(y, x) => y.table # x.table \/ y.columns # x.columns}

Eligible(query) == {x \in Unseen(query) : ~Duplicates(x.table, x.columns)}

\* The first MaxCandidates of what no index makes redundant.
GenerateCandidates(query) ==
  LET eligible == Eligible(query)
      order == {p \in eligible \X eligible : Earlier(p[1], p[2])}
      inOrder == InOrder(eligible, order)
  IN  [candidates |-> [n \in 1..Min({MaxCandidates, Cardinality(eligible)}) |-> inOrder[n]],
       overBudget |-> {x \in eligible : Rank(eligible, order, x) >= MaxCandidates},
       duplicates |-> Unseen(query) \ eligible]

(***************************************************************************)
(* What the candidates promise                                             *)
(***************************************************************************)

\* A name that more than one relation of the query has is resolved to the
\* first, whatever the query means by it.
Ambiguous(query) ==
  \E k \in DOMAIN query.where :
    Cardinality({t \in ToSet(query.relations) : query.where[k].column \in Columns(t)}) > 1

\* The columns of a table that every row of the result compares so.
ComparedWith(query, table, operator) ==
  {c \in Columns(table) : \E k \in DOMAIN query.where : LET w == query.where[k] IN
     w.plain /\ w.parameter /\ w.table = table /\ w.column = c /\ w.operator = operator}

Equal(query, table) == ComparedWith(query, table, "=")
Ordered(query, table) ==
  {c \in ComparedWith(query, table, "<") : TypeOf[table][c] # "other"}
Compared(query, table) == Equal(query, table) \cup Ordered(query, table)

\* One range of an index on the columns holds the rows of the comparisons: it
\* begins with the columns compared for equality, and goes on with one that is
\* compared for order, if there is any.
Serves(query, table, columns) ==
  \E n \in 0..Len(columns) :
    /\ ToSet(SubSeq(columns, 1, n)) = Equal(query, table)
    /\ Ordered(query, table) # {} =>
         n < Len(columns) /\ columns[n + 1] \in Ordered(query, table)

\* Together with the indexes there are, the proposed ones serve the query on
\* each of its tables ("composites come first", generate.py:115-117: the budget
\* can only be used up by an earlier table); each is on columns the query really
\* compares with parameters, and none begins an index that is there.
ProposalServes(query, proposal) ==
  LET proposed == ToSet(proposal.candidates)
      earlier(table) == \E s \in proposed : s.table # table
      known(table) ==
        ExistingKeySequences(table)
        \cup {s.columns : s \in {x \in proposed : x.table = table}}
        \cup {s.columns : s \in {x \in proposal.overBudget : x.table = table /\ earlier(table)}}
  IN  /\ \A table \in ToSet(query.relations) :
           Compared(query, table) # {} =>
             \E columns \in known(table) : Serves(query, table, columns)
      /\ \A s \in proposed :
           /\ ToSet(s.columns) \subseteq Compared(query, s.table)
           /\ \A key \in ExistingKeySequences(s.table) : ~IsPrefix(s.columns, key)
=============================================================================
