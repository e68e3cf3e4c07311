--------------------------- MODULE MCExperiment ---------------------------
(* Two tables that share the name of one column.  The queries have up to   *)
(* three comparisons.  Two are measured: one gets two candidates, the      *)
(* other one for a table without a single-column primary key.              *)
EXTENDS Experiment

CONSTANTS orders, users, number, id, email, tenant, status, at

TwoSettings == <<"enable_seqscan", "work_mem">>

Schema == [t \in {orders, users} |->
  IF t = orders THEN [c \in {number, tenant, status, at} |->
                        CASE c \in {number, tenant} -> "number" [] c = at -> "time"
                          [] OTHER -> "other"]
  ELSE [c \in {id, email, status} |-> IF c = id THEN "number" ELSE "other"]]

Ascending(columns) == [k \in DOMAIN columns |-> [column |-> columns[k], direction |-> "asc"]]
Index(table, partial, keys) ==
  [table |-> table, method |-> "btree", partial |-> partial, keys |-> keys]

CatalogIndexes ==
  <<Index(orders, FALSE, Ascending(<<status, tenant>>)),
    Index(orders, TRUE, Ascending(<<tenant>>)),
    Index(orders, FALSE, <<[column |-> tenant, direction |-> "desc"]>>),
    Index(users, FALSE, Ascending(<<status>>))>>
CatalogConstraints == <<[table |-> orders, kind |-> "primary key", columns |-> <<number>>],
                        [table |-> users, kind |-> "primary key", columns |-> <<id, status>>],
                        [table |-> users, kind |-> "foreign key", columns |-> <<email>>]>>

Comparison(table, column, operator, plain) ==
  [table |-> table, column |-> column, operator |-> operator, plain |-> plain,
   parameter |-> TRUE]

Comparisons(table) ==
  LET columns == DOMAIN Schema[table] \ {number} IN
  {Comparison(table, c, o, p) : c \in columns, o \in {"=", "<"}, p \in BOOLEAN}
  \cup {[Comparison(table, c, "=", TRUE) EXCEPT !.parameter = FALSE] : c \in columns}

UpTo(n, S) == UNION {[1..k -> S] : k \in 0..n}
OneTable == {[relations |-> <<orders>>, where |-> w] : w \in UpTo(3, Comparisons(orders))}
Join == {[relations |-> <<users, orders>>, where |-> o \o u] :
          u \in UpTo(1, Comparisons(users)), o \in UpTo(2, Comparisons(orders))}
AllQueries == OneTable \cup Join

Measured ==
  {[relations |-> <<orders>>,
    where |-> <<Comparison(orders, tenant, "<", TRUE), Comparison(orders, at, "<", TRUE)>>],
   [relations |-> <<users, orders>>, where |-> <<Comparison(users, email, "=", TRUE)>>]}
=============================================================================
