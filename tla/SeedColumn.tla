------------------------------ MODULE SeedColumn ------------------------------
(***************************************************************************)
(* How the seeder (adapters/seeder/plan.py) finds values for one column:   *)
(* which CHECK expressions it recognizes and the strategy it picks.        *)
(* Literals and values of any type are numbers; Fresh is a text that is no *)
(* literal.  A column is "c"; "d" is another column of its table.          *)
(***************************************************************************)
EXTENDS Integers, Sequences, FiniteSets

CONSTANTS
  MaxLiteral,  \* bound: the literals of an expression are 0..MaxLiteral
  Ceiling      \* _FALLBACK_CEILING

ASSUME LiteralsAssumption == MaxLiteral \in Nat /\ Ceiling \in Nat /\ Ceiling > MaxLiteral

Fresh == Ceiling + MaxLiteral + 1

Literals == 0..MaxLiteral
Operators == {">=", ">", "<=", "<"}
Comparisons == [node : {"compare"}, column : {"c", "d"}, op : Operators, literal : Literals]

\* The expressions: column IN (literals), column = literal OR ..., a comparison or two
\* joined by AND, BETWEEN, and any other, which the recognizer makes nothing of.
Expressions ==
  [node : {"in"}, column : {"c"}, literals : SUBSET Literals \ {{}}]
  \cup [node : {"or"}, columns : {<<"c", "c">>, <<"c", "d">>}, first : Literals, last : Literals]
  \cup [node : {"and"}, args : {<<a>> : a \in Comparisons} \cup (Comparisons \X Comparisons)]
  \cup [node : {"between"}, column : {"c"}, low : Literals, high : Literals]
  \cup [node : {"other"}]

Compare(a, b, op) ==
  \/ op = ">=" /\ a >= b
  \/ op = ">" /\ a > b
  \/ op = "<=" /\ a <= b
  \/ op = "<" /\ a < b

\* What PostgreSQL makes of expression e when c is v and d is NULL: a CHECK that is
\* not false is satisfied.
Satisfied(e, v) ==
  CASE e.node = "in" -> v \in e.literals
    [] e.node = "or" -> \/ "d" \in {e.columns[k] : k \in DOMAIN e.columns}
                        \/ v \in {e.first, e.last}
    [] e.node = "and" -> \A k \in DOMAIN e.args :
                           e.args[k].column = "c" => Compare(v, e.args[k].literal, e.args[k].op)
    [] e.node = "between" -> e.low <= v /\ v <= e.high
    [] OTHER -> TRUE

Nothing == [kind |-> "nothing"]
SetCheck(literals) == [kind |-> "set", literals |-> literals]
RangeCheck(low, high) ==
  IF low <= high THEN [kind |-> "range", low |-> low, high |-> high] ELSE Nothing

\* (fault) a strict bound includes the literal.
Candidate_Inclusive(a) == a.literal

Candidate(a) == a.literal + CASE a.op = ">" -> 1 [] a.op = "<" -> -1 [] OTHER -> 0

IsLower(a) == a.op \in {">=", ">"}

\* The last bound of each direction holds; a direction without one is Ceiling away
\* from the first bound of the other.
BoundsOf(args) ==
  LET lower == {k \in DOMAIN args : IsLower(args[k])}
      upper == DOMAIN args \ lower
      Final(S) == Candidate(args[CHOOSE k \in S : \A j \in S : j <= k])
      Initial(S) == Candidate(args[CHOOSE k \in S : \A j \in S : k <= j])
  IN  RangeCheck(IF lower = {} THEN Initial(upper) - Ceiling ELSE Final(lower),
                 IF upper = {} THEN Initial(lower) + Ceiling ELSE Final(upper))

\* _recognized_check for column c: nothing if the expression is about another column.
Recognized(e) ==
  CASE e.node = "in" -> SetCheck(e.literals)
    [] e.node = "or" -> IF \A k \in DOMAIN e.columns : e.columns[k] = "c"
                          THEN SetCheck({e.first, e.last}) ELSE Nothing
    [] e.node = "and" -> IF \A k \in DOMAIN e.args : e.args[k].column = "c"
                           THEN BoundsOf(e.args) ELSE Nothing
    [] e.node = "between" -> RangeCheck(e.low, e.high)
    [] OTHER -> Nothing

Families == {"integer", "numeric", "text", "boolean", "unknown"}

\* narrow: a type of the family that holds no more than the literals, such as smallint,
\* numeric(p, s) or varchar(n): _family drops what tells them apart.
Columns ==
  {k \in [family : Families, narrow : BOOLEAN, nullable : BOOLEAN, unique : BOOLEAN,
          check : Expressions] :
     k.narrow => k.family \in {"integer", "numeric", "text"}}

\* The values some row of column k may be given; NoValues if there is no strategy.
\* The order of the branches is the order of _plan_column's returns.
NoValues == {}
PlanColumn(k) ==
  LET check == Recognized(k.check)
  IN  IF k.unique /\ k.family = "integer" THEN 1..Ceiling
      ELSE IF k.unique /\ k.family = "text" THEN {Fresh}
      ELSE IF k.family = "boolean" THEN {0, 1}
      ELSE IF check.kind = "set" THEN check.literals
      ELSE IF check.kind = "range" /\ k.family = "integer" THEN check.low..check.high
      ELSE IF k.family \in {"integer", "numeric"} THEN 0..(Ceiling - 1)
      ELSE IF k.family = "text" THEN {Fresh}
      ELSE NoValues

\* Whether the column's type holds the value.
Fits(k, v) == k.narrow => v \in Literals

\* The CHECK keeps the values within its literals.
BoundedByCheck(k) ==
  \/ Recognized(k.check).kind = "set"
  \/ k.family = "integer" /\ k.check.node = "between" /\ Recognized(k.check) # Nothing
===============================================================================
