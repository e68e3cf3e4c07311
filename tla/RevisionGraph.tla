--------------------------- MODULE RevisionGraph ---------------------------
(***************************************************************************)
(* The Alembic revision graph (adapters/repository/alembic_static.py): the *)
(* search for a cycle, the decision whether the graph can be replayed, and *)
(* the order in which it is.  Both searches walk depth first from a        *)
(* revision to those it revises; their call stack is the variable path.    *)
(***************************************************************************)
EXTENDS Naturals, Sequences, FiniteSets

CONSTANTS
  Revisions,    \* the revision ids of the parsed modules, each of one module
  Unknown,      \* ids that a down_revision names and no module has
  MaxParents    \* bound: down_revisions of one module

\* Without a revision module there is nothing to replay, and nothing is searched.
ASSUME RevisionsAssumption == Revisions # {} /\ Revisions \cap Unknown = {}
ASSUME MaxParentsAssumption == MaxParents \in Nat

VARIABLES
  down,      \* the down_revisions of each revision, in the order they are written
  phase,     \* "cycle?", "order"; "ambiguous" or "ordered" at the end
  todo,      \* revisions the search for a cycle has not started from
  path,      \* the calls in progress: a revision, and the parent it is at
  cycle,     \* the cycle that was found
  seen,      \* revisions _visit was called for
  ordered    \* revisions in the order of their replay

vars == <<down, phase, todo, path, cycle, seen, ordered>>

DownRevisions == UNION {[1..n -> Revisions \cup Unknown] : n \in 0..MaxParents}
Frames == [revision : Revisions, at : 1..(MaxParents + 1)]

TypeOK ==
  /\ down \in [Revisions -> DownRevisions]
  /\ phase \in {"cycle?", "order", "ordered", "ambiguous"}
  /\ todo \subseteq Revisions
  /\ path \in Seq(Frames)
  /\ \A k \in DOMAIN path : path[k].at <= Len(down[path[k].revision]) + 1
  /\ cycle \in Seq(Revisions)
  /\ seen \subseteq Revisions
  /\ ordered \in Seq(Revisions)

Init ==
  /\ down \in [Revisions -> DownRevisions]
  /\ phase = "cycle?" /\ todo = Revisions /\ path = <<>> /\ cycle = <<>>
  /\ seen = {} /\ ordered = <<>>

(***************************************************************************)
(* The graph                                                               *)
(***************************************************************************)

Parents(r) == {down[r][k] : k \in DOMAIN down[r]}
MissingPredecessors == (UNION {Parents(r) : r \in Revisions}) \ Revisions
Heads == {r \in Revisions : \A child \in Revisions : r \notin Parents(child)}

(***************************************************************************)
(* The call stack                                                          *)
(***************************************************************************)

Top == path[Len(path)]
AtParent == path # <<>> /\ Top.at <= Len(down[Top.revision])
Parent == down[Top.revision][Top.at]
Call(r) == path' = Append(path, [revision |-> r, at |-> 1])
NextParent == path' = [path EXCEPT ![Len(path)].at = @ + 1]

\* (fault) the caller tries the same parent again.
Return_Same == path' = SubSeq(path, 1, Len(path) - 1)

\* The caller goes on with its next parent.
Return ==
  LET below == SubSeq(path, 1, Len(path) - 1)
  IN  path' = IF below = <<>> THEN below ELSE [below EXCEPT ![Len(below)].at = @ + 1]

InStack(r) == \E k \in DOMAIN path : path[k].revision = r

(***************************************************************************)
(* _find_cycle                                                             *)
(***************************************************************************)

\* (fault) the search starts from the heads only.
StartWalk_Heads ==
  /\ phase = "cycle?" /\ path = <<>>
  /\ \E start \in todo \cap Heads : Call(start) /\ todo' = (todo \cap Heads) \ {start}
  /\ UNCHANGED <<down, phase, cycle, seen, ordered>>

\* for start in list(unvisited): a set, in no particular order.
StartWalk ==
  /\ phase = "cycle?" /\ path = <<>>
  /\ \E start \in todo : Call(start) /\ todo' = todo \ {start}
  /\ UNCHANGED <<down, phase, cycle, seen, ordered>>

\* A parent off the stack: one that no module has is passed over.
WalkParent ==
  /\ phase = "cycle?" /\ AtParent /\ ~InStack(Parent)
  /\ IF Parent \in Revisions THEN Call(Parent) ELSE NextParent
  /\ UNCHANGED <<down, phase, todo, cycle, seen, ordered>>

WalkBack ==
  /\ phase = "cycle?" /\ path # <<>> /\ ~AtParent
  /\ Return
  /\ UNCHANGED <<down, phase, todo, cycle, seen, ordered>>

\* (fault) what led to the cycle is taken for part of it.
StackFrom_All(first) == [j \in 1..Len(path) |-> path[j].revision]

\* stack[in_stack[node]:]
StackFrom(first) == [j \in 1..(Len(path) - first + 1) |-> path[first + j - 1].revision]

\* A parent on the stack closes a cycle, and every call returns it.
CloseCycle ==
  /\ phase = "cycle?" /\ AtParent
  /\ \E first \in DOMAIN path :
       path[first].revision = Parent /\ cycle' = StackFrom(first)
  /\ path' = <<>>
  /\ phase' = "ambiguous"
  /\ UNCHANGED <<down, todo, seen, ordered>>

(***************************************************************************)
(* _replay                                                                 *)
(***************************************************************************)

\* No cycle.  A schema is only replayed when no predecessor is missing and there
\* is one head.
Judge ==
  /\ phase = "cycle?" /\ path = <<>> /\ todo = {}
  /\ IF MissingPredecessors = {} /\ Cardinality(Heads) = 1
       THEN /\ phase' = "order"
            /\ \E head \in Heads : Call(head) /\ seen' = {head}
       ELSE phase' = "ambiguous" /\ UNCHANGED <<path, seen>>
  /\ UNCHANGED <<down, todo, cycle, ordered>>

(***************************************************************************)
(* _topological_order                                                      *)
(***************************************************************************)

\* (fault) every parent is visited, seen or not.
VisitParent_Again ==
  /\ phase = "order" /\ AtParent
  /\ Call(Parent) /\ seen' = seen \cup {Parent}
  /\ UNCHANGED <<down, phase, todo, cycle, ordered>>

\* (fault) a merge is taken to revise its first parent only.
VisitParent_First ==
  /\ phase = "order" /\ AtParent
  /\ IF Parent \in seen \/ Top.at > 1
       THEN NextParent /\ UNCHANGED seen
       ELSE Call(Parent) /\ seen' = seen \cup {Parent}
  /\ UNCHANGED <<down, phase, todo, cycle, ordered>>

VisitParent ==
  /\ phase = "order" /\ AtParent
  /\ IF Parent \in seen
       THEN NextParent /\ UNCHANGED seen
       ELSE Call(Parent) /\ seen' = seen \cup {Parent}
  /\ UNCHANGED <<down, phase, todo, cycle, ordered>>

\* (fault) the newest revision goes first.
FinishVisit_Reversed ==
  /\ phase = "order" /\ path # <<>> /\ ~AtParent
  /\ ordered' = <<Top.revision>> \o ordered
  /\ Return
  /\ UNCHANGED <<down, phase, todo, cycle, seen>>

FinishVisit ==
  /\ phase = "order" /\ path # <<>> /\ ~AtParent
  /\ ordered' = Append(ordered, Top.revision)
  /\ Return
  /\ UNCHANGED <<down, phase, todo, cycle, seen>>

Ordered ==
  /\ phase = "order" /\ path = <<>>
  /\ phase' = "ordered"
  /\ UNCHANGED <<down, todo, path, cycle, seen, ordered>>

Next ==
  \/ StartWalk \/ WalkParent \/ WalkBack \/ CloseCycle \/ Judge
  \/ VisitParent \/ FinishVisit \/ Ordered

\* A sequential program: it takes its next step.
Spec == Init /\ [][Next]_vars /\ WF_vars(Next)

(***************************************************************************)
(* Properties                                                              *)
(***************************************************************************)

\* Revisions each of which revises another of them: there are some exactly when
\* the graph has a cycle.
Closed(S) == \A r \in S : \E p \in S : p \in Parents(r)
Cyclic == \E S \in SUBSET Revisions : S # {} /\ Closed(S)

\* A reported cycle is one: each revision revises the next, and the last the
\* first (alembic_static.py:194).
CycleIsReal ==
  cycle # <<>> =>
    \A k \in DOMAIN cycle :
      cycle[IF k = Len(cycle) THEN 1 ELSE k + 1] \in Parents(cycle[k])

\* No graph with a cycle is replayed, and one that is ambiguous for its cycle
\* says so: TECHNICAL_DESIGN.md:188, the graph "detects [...] cycles".
CyclesAreFound ==
  /\ phase \in {"order", "ordered"} => ~Cyclic
  /\ phase = "ambiguous" => (cycle # <<>> <=> Cyclic)

\* The search finds a cycle exactly when there is one, and what it finds is one.
CycleSearchIsExact == CycleIsReal /\ CyclesAreFound

\* Whenever a revision is replayed all those it revises have been.
ParentsFirst ==
  \A k \in DOMAIN ordered : \A p \in Parents(ordered[k]) : \E j \in 1..(k - 1) : ordered[j] = p

\* No revision is replayed twice, whichever ways lead to it.
OnceEach == \A j, k \in DOMAIN ordered : ordered[j] = ordered[k] => j = k

\* The order leaves no revision out: with one head and no cycle all of them are
\* below the head, although _topological_order only looks below it.
AllReplayed == phase = "ordered" => {ordered[k] : k \in DOMAIN ordered} = Revisions

\* A revision follows all it revises, whichever ways lead to them, and only once,
\* and in the end none is left out (alembic_static.py:465).
ReplayedInOrder == ParentsFirst /\ OnceEach /\ AllReplayed

\* Both searches end, whatever the graph.
Terminates == <>(phase \in {"ambiguous", "ordered"})
=============================================================================
