--------------------------- MODULE MigrationProofs ---------------------------
(***************************************************************************)
(* RevisionGraph for every set of revisions and every number of parents: a *)
(* cycle that is reported is one, none is missed, and what is replayed is  *)
(* replayed once and after all it revises.  SchemaReplay for every set of  *)
(* tables and any number of statements: the replay is the database, or it  *)
(* says it is not, and the risks of an upgrade are reported.               *)
(***************************************************************************)
EXTENDS SchemaReplay, Integers, SequenceTheorems, FiniteSetTheorems, WellFoundedInduction,
        TLAPS

(***************************************************************************)
(* The inductive invariant                                                 *)
(***************************************************************************)

\* Each call in progress was made for the parent its caller is at.
Linked ==
  \A k \in 1..(Len(path) - 1) :
    /\ path[k].at <= Len(down[path[k].revision])
    /\ down[path[k].revision][path[k].at] = path[k + 1].revision

\* Revisions a walk up the graph from which need not end.
Doomed == UNION {S \in SUBSET Revisions : Closed(S)}

\* The parents that the calls of a stack have dealt with are all in D.
Behind(stack, D) ==
  \A k \in DOMAIN stack : \A i \in 1..(stack[k].at - 1) : down[stack[k].revision][i] \in D

Safe == (Revisions \cup Unknown) \ Doomed
Replayed == {ordered[j] : j \in DOMAIN ordered}

\* What the search has left behind is on no cycle and leads to none.
Explored ==
  phase = "cycle?" =>
    /\ cycle = <<>> /\ seen = {} /\ ordered = <<>>
    /\ Behind(path, Safe)
    /\ \A r \in Revisions \ todo : r \in Doomed => path # <<>> /\ r = path[1].revision

\* What _visit has seen is in progress or replayed, never both, and the parents a
\* call has dealt with are replayed.
Replaying ==
  phase = "order" =>
    /\ MissingPredecessors = {}
    /\ \A r \in seen : InStack(r) \/ r \in Replayed
    /\ \A k \in DOMAIN path : path[k].revision \in seen \ Replayed
    /\ Replayed \subseteq seen
    /\ \A k, l \in DOMAIN path : path[k].revision = path[l].revision => k = l
    /\ Behind(path, Replayed)

IInv ==
  /\ TypeOK /\ Linked /\ Explored /\ Replaying
  /\ CycleIsReal /\ CyclesAreFound /\ ParentsFirst /\ OnceEach

(***************************************************************************)
(* Parents and cycles                                                      *)
(***************************************************************************)

\* A function on an initial interval is a sequence of its length.
LEMMA FunctionIsSeq ==
  ASSUME NEW S, NEW n \in Nat, NEW f \in [1..n -> S]
  PROVE  f \in Seq(S) /\ Len(f) = n
<1>1. f \in Seq(S)
  BY SeqDef
<1>2. Len(f) \in Nat /\ 1..Len(f) = 1..n
  BY <1>1, LenProperties
<1>3. Len(f) = n
  <2>1. CASE Len(f) < n
    BY <1>2, <2>1, n \in 1..n, n \notin 1..Len(f)
  <2>2. CASE Len(f) > n
    BY <1>2, <2>2, Len(f) \in 1..Len(f), Len(f) \notin 1..n
  <2>3. QED
    BY <1>2, <2>1, <2>2
<1>4. QED
  BY <1>1, <1>3

\* The index after one that is not the last.
LEMMA Successor ==
  ASSUME NEW n \in Nat, NEW k \in 1..n, k # n
  PROVE  k + 1 \in 1..n
OBVIOUS

\* The down_revisions of a revision are a short sequence of ids.
LEMMA DownIsSeq ==
  ASSUME TypeOK, NEW r \in Revisions
  PROVE  /\ Len(down[r]) \in Nat /\ Len(down[r]) <= MaxParents
         /\ DOMAIN down[r] = 1..Len(down[r])
         /\ \A i \in 1..Len(down[r]) : down[r][i] \in Revisions \cup Unknown
<1>1. down[r] \in DownRevisions
  BY DEF TypeOK
<1>2. PICK n \in 0..MaxParents : down[r] \in [1..n -> Revisions \cup Unknown]
  BY <1>1 DEF DownRevisions
<1>3. n \in Nat /\ n <= MaxParents
  BY MaxParentsAssumption
<1>4. Len(down[r]) = n
  BY <1>2, <1>3, FunctionIsSeq
<1>5. QED
  BY <1>2, <1>3, <1>4

\* The stack is a sequence of frames, and the innermost call is one.
LEMMA StackIsSeq ==
  ASSUME TypeOK
  PROVE  /\ path \in Seq(Frames) /\ Len(path) \in Nat /\ DOMAIN path = 1..Len(path)
         /\ \A k \in 1..Len(path) :
              /\ path[k] \in Frames /\ path[k].revision \in Revisions
              /\ path[k].at \in Nat \ {0}
              /\ path[k].at <= Len(down[path[k].revision]) + 1
         /\ path # <<>> => Len(path) \in 1..Len(path) /\ Top = path[Len(path)]
<1>1. path \in Seq(Frames) /\ Len(path) \in Nat /\ DOMAIN path = 1..Len(path)
  BY LenProperties DEF TypeOK
<1>2. \A k \in 1..Len(path) : path[k] \in Frames
  BY <1>1, ElementOfSeq
<1>3. \A k \in 1..Len(path) : path[k].revision \in Revisions /\ path[k].at \in Nat \ {0}
  BY <1>2, MaxParentsAssumption DEF Frames
<1>4. path # <<>> => Len(path) \in Nat \ {0}
  BY <1>1, EmptySeq
<1>5. QED
  BY <1>1, <1>2, <1>3, <1>4 DEF TypeOK, Top

\* A doomed revision has a doomed parent.
LEMMA DoomedParent ==
  ASSUME NEW r \in Doomed
  PROVE  r \in Revisions /\ \E p \in Parents(r) : p \in Doomed
<1>1. PICK S \in SUBSET Revisions : Closed(S) /\ r \in S
  BY DEF Doomed
<1>2. PICK p \in S : p \in Parents(r)
  BY <1>1 DEF Closed
<1>3. QED
  BY <1>1, <1>2 DEF Doomed

\* Without a doomed revision the graph has no cycle.
LEMMA CyclicIsDoomed == Cyclic => \E r \in Revisions : r \in Doomed
BY DEF Cyclic, Doomed

\* Revisions each of which revises the next, in a circle, are a cycle.
LEMMA CircleIsCyclic ==
  ASSUME NEW c \in Seq(Revisions), c # <<>>,
         \A k \in DOMAIN c : c[IF k = Len(c) THEN 1 ELSE k + 1] \in Parents(c[k])
  PROVE  Cyclic
<1>1. Len(c) \in Nat \ {0} /\ DOMAIN c = 1..Len(c)
  BY LenProperties, EmptySeq
<1> DEFINE S == {c[k] : k \in 1..Len(c)}
<1>2. S \subseteq Revisions
  BY <1>1, ElementOfSeq
<1>3. c[1] \in S
  BY <1>1
<1>4. Closed(S)
  <2>1. SUFFICES ASSUME NEW k \in 1..Len(c)
                 PROVE  \E p \in S : p \in Parents(c[k])
    BY DEF Closed
  <2>2. CASE k = Len(c)
    <3>1. k \in DOMAIN c
      BY <1>1
    <3>2. c[1] \in Parents(c[k])
      BY <2>2, <3>1
    <3>3. QED
      BY <1>3, <3>2
  <2>3. CASE k # Len(c)
    <3>1. k + 1 \in 1..Len(c)
      BY <1>1, <2>3, Successor
    <3>2. c[k + 1] \in S /\ c[k + 1] \in Parents(c[k])
      BY <1>1, <2>3, <3>1
    <3>3. QED
      BY <3>2
  <2>4. QED
    BY <2>2, <2>3
<1>5. QED
  BY <1>2, <1>3, <1>4 DEF Cyclic

\* The stack from a call whose revision is the parent the innermost call is at:
\* a cycle.
LEMMA StackFromIsCircle ==
  ASSUME TypeOK, Linked, AtParent,
         NEW first \in DOMAIN path, path[first].revision = Parent
  PROVE  LET c == StackFrom(first)
         IN  /\ c \in Seq(Revisions) /\ c # <<>>
             /\ \A k \in DOMAIN c : c[IF k = Len(c) THEN 1 ELSE k + 1] \in Parents(c[k])
<1> DEFINE n == Len(path) - first + 1
           e(j) == path[first + j - 1].revision
           c == [j \in 1..n |-> e(j)]
<1>1. first \in 1..Len(path) /\ Len(path) \in Nat /\ n \in Nat \ {0}
  BY StackIsSeq
<1>2. \A j \in 1..n : first + j - 1 \in 1..Len(path) /\ e(j) \in Revisions
  BY <1>1, StackIsSeq
<1>3. c \in [1..n -> Revisions]
  BY <1>2
<1>4. c \in Seq(Revisions) /\ Len(c) = n
  <2> HIDE DEF c, n
  <2> QED
    BY <1>1, <1>3, FunctionIsSeq
<1>5. DOMAIN c = 1..n
  BY <1>3
<1>6. Len(c) # 0
  BY <1>1, <1>4
<1>7. c # <<>>
  BY <1>6
<1>8. ASSUME NEW k \in 1..n
      PROVE  c[IF k = n THEN 1 ELSE k + 1] \in Parents(c[k])
  <2>1. CASE k = n
    <3>1. c[k] = Top.revision /\ c[1] = Parent
      BY <1>1, <2>1, StackIsSeq DEF AtParent
    <3>2. Top.revision \in Revisions /\ Top.at \in 1..Len(down[Top.revision])
      BY StackIsSeq, DownIsSeq DEF AtParent
    <3>3. Parent \in Parents(Top.revision)
      BY <3>2, DownIsSeq DEF Parent, Parents
    <3>4. QED
      BY <2>1, <3>1, <3>3
  <2>2. CASE k # n
    <3> DEFINE m == first + k - 1
    <3>1. m \in 1..(Len(path) - 1) /\ m \in 1..Len(path)
      BY <1>1, <2>2
    <3>2. k + 1 \in 1..n /\ c[k] = path[m].revision /\ c[k + 1] = path[m + 1].revision
      BY <1>1, <2>2
    <3>3. down[path[m].revision][path[m].at] = path[m + 1].revision
      BY <3>1 DEF Linked
    <3>4. path[m].revision \in Revisions /\ path[m].at \in 1..Len(down[path[m].revision])
      <4>1. path[m].revision \in Revisions /\ path[m].at \in Nat \ {0}
        BY <3>1, StackIsSeq
      <4>2. path[m].at <= Len(down[path[m].revision])
        BY <3>1 DEF Linked
      <4>3. Len(down[path[m].revision]) \in Nat
        BY <4>1, DownIsSeq
      <4>4. QED
        BY <4>1, <4>2, <4>3
    <3>5. path[m + 1].revision \in Parents(path[m].revision)
      BY <3>3, <3>4, DownIsSeq DEF Parents
    <3>6. QED
      BY <2>2, <3>2, <3>5
  <2>3. QED
    BY <2>1, <2>2
<1>9. StackFrom(first) = c
  BY DEF StackFrom
<1>10. QED
  BY <1>4, <1>5, <1>7, <1>8, <1>9

(***************************************************************************)
(* The call stack                                                          *)
(***************************************************************************)

\* A call is put on top.
LEMMA CallEffect ==
  ASSUME TypeOK, NEW r \in Revisions, Call(r)
  PROVE  /\ path' \in Seq(Frames) /\ path' # <<>> /\ Len(path') = Len(path) + 1
         /\ DOMAIN path' = 1..(Len(path) + 1)
         /\ \A k \in 1..Len(path) : path'[k] = path[k]
         /\ path'[Len(path) + 1] = [revision |-> r, at |-> 1]
<1>1. [revision |-> r, at |-> 1] \in Frames
  BY MaxParentsAssumption DEF Frames
<1>2. QED
  BY <1>1, StackIsSeq, AppendProperties, LenProperties DEF Call

\* The innermost call goes on with its next parent.
LEMMA NextParentEffect ==
  ASSUME TypeOK, AtParent, NextParent
  PROVE  /\ path' \in Seq(Frames) /\ path' # <<>> /\ Len(path') = Len(path)
         /\ DOMAIN path' = 1..Len(path)
         /\ \A k \in 1..(Len(path) - 1) : path'[k] = path[k]
         /\ path'[Len(path)] = [Top EXCEPT !.at = Top.at + 1]
<1>1. path # <<>> /\ Len(path) \in 1..Len(path) /\ Top = path[Len(path)] /\ Top \in Frames
  BY StackIsSeq DEF AtParent
<1>2. Top.revision \in Revisions /\ Top.at \in Nat \ {0} /\ Top.at <= Len(down[Top.revision])
  BY <1>1, StackIsSeq DEF AtParent
<1>3. Top.at + 1 \in 1..(MaxParents + 1)
  BY <1>2, DownIsSeq, MaxParentsAssumption
<1> DEFINE f == [Top EXCEPT !.at = Top.at + 1]
<1>4. f \in Frames
  BY <1>1, <1>3 DEF Frames
<1>5. path' = [path EXCEPT ![Len(path)] = f]
  BY <1>1 DEF NextParent
<1> HIDE DEF f
<1>6. /\ path' \in Seq(Frames) /\ Len(path') = Len(path)
      /\ \A j \in 1..Len(path) : path'[j] = IF j = Len(path) THEN f ELSE path[j]
  BY <1>1, <1>4, <1>5, StackIsSeq, ExceptSeq
<1>7. DOMAIN path' = 1..Len(path) /\ path' # <<>>
  BY <1>1, <1>6, LenProperties, EmptySeq
<1>8. QED
  BY <1>1, <1>6, <1>7, StackIsSeq DEF f

\* A sequence without its last element.
LEMMA ButLast ==
  ASSUME NEW S, NEW s \in Seq(S), s # <<>>
  PROVE  LET n == Len(s) - 1
             t == SubSeq(s, 1, n)
         IN  t \in Seq(S) /\ Len(t) = n /\ \A k \in 1..n : t[k] = s[k]
<1> DEFINE n == Len(s) - 1
           t == SubSeq(s, 1, n)
<1>1. n \in Nat /\ \A k \in 1..n : s[k] \in S
  BY EmptySeq, ElementOfSeq
<1>2. /\ t \in Seq(S) /\ Len(t) = IF 1 <= n THEN n - 1 + 1 ELSE 0
      /\ \A k \in 1..(n - 1 + 1) : t[k] = s[1 + k - 1]
  <2> HIDE DEF n
  <2> QED
    BY <1>1, SubSeqProperties
<1> HIDE DEF n, t
<1>3. \A k \in 1..n : k \in 1..(n - 1 + 1) /\ 1 + k - 1 = k
  BY <1>1
<1>4. Len(t) = n /\ \A k \in 1..n : t[k] = s[k]
  BY <1>1, <1>2, <1>3
<1>5. QED
  BY <1>2, <1>4 DEF n, t

\* The innermost call returns, and its caller goes on with its next parent.
LEMMA ReturnEffect ==
  ASSUME TypeOK, Linked, path # <<>>, Return
  PROVE  /\ path' \in Seq(Frames) /\ Len(path') = Len(path) - 1
         /\ DOMAIN path' = 1..(Len(path) - 1)
         /\ Len(path) = 1 => path' = <<>>
         /\ \A k \in 1..(Len(path) - 2) : path'[k] = path[k]
         /\ Len(path) # 1 =>
              LET k == Len(path) - 1
              IN  /\ k \in 1..(Len(path) - 1) /\ path' # <<>>
                  /\ path'[k] = [path[k] EXCEPT !.at = path[k].at + 1]
<1> DEFINE n == Len(path) - 1
           below == SubSeq(path, 1, n)
<1>1. Len(path) \in Nat \ {0} /\ n \in Nat /\ \A k \in 1..Len(path) : path[k] \in Frames
  BY StackIsSeq
<1>2. \A k \in 1..n : path[k] \in Frames
  BY <1>1
<1>3. below \in Seq(Frames) /\ Len(below) = n /\ \A k \in 1..n : below[k] = path[k]
  BY <1>1, StackIsSeq, ButLast
<1>4. CASE Len(path) = 1
  <2>1. below = <<>>
    BY <1>3, <1>4, EmptySeq
  <2>2. path' = <<>>
    BY <2>1 DEF Return
  <2>3. QED
    BY <1>4, <2>2, EmptySeq
<1>5. CASE Len(path) # 1
  <2>1. n \in 1..n /\ below # <<>>
    <3>1. n # 0 /\ Len(below) # 0
      BY <1>1, <1>3, <1>5
    <3>2. QED
      BY <1>1, <3>1
  <2>2. /\ path[n] \in Frames /\ path[n].revision \in Revisions /\ path[n].at \in Nat \ {0}
        /\ path[n].at <= Len(down[path[n].revision])
    <3>1. n \in 1..Len(path) /\ n \in 1..(Len(path) - 1)
      BY <1>1, <2>1
    <3> HIDE DEF n, below
    <3>2. path[n] \in Frames /\ path[n].revision \in Revisions /\ path[n].at \in Nat \ {0}
      BY <3>1, StackIsSeq
    <3>3. path[n].at <= Len(down[path[n].revision])
      BY <3>1 DEF Linked
    <3>4. QED
      BY <3>2, <3>3
  <2>3. path[n].at + 1 \in 1..(MaxParents + 1)
    BY <2>2, DownIsSeq, MaxParentsAssumption
  <2> DEFINE f == [path[n] EXCEPT !.at = path[n].at + 1]
  <2>4. f \in Frames
    BY <2>2, <2>3 DEF Frames
  <2>5. path' = [below EXCEPT ![n] = f]
    <3>1. below[n] = path[n]
      BY <1>3, <2>1
    <3>2. path' = [below EXCEPT ![n].at = @ + 1]
      BY <1>3, <2>1 DEF Return
    <3>3. path' = [below EXCEPT ![n] = [below[n] EXCEPT !.at = below[n].at + 1]]
      BY <3>2
    <3>4. QED
      BY <3>1, <3>3
  <2> HIDE DEF f, below
  <2>6. /\ path' \in Seq(Frames) /\ Len(path') = n
        /\ \A j \in 1..n : path'[j] = IF j = n THEN f ELSE below[j]
    BY <1>3, <2>1, <2>4, <2>5, ExceptSeq
  <2>7. DOMAIN path' = 1..n /\ path' # <<>>
    BY <2>1, <2>6, LenProperties, EmptySeq
  <2>8. path'[n] = f /\ \A k \in 1..(n - 1) : path'[k] = path[k]
    BY <1>3, <2>1, <2>6
  <2>9. Len(path) - 2 = n - 1 /\ n \in 1..(Len(path) - 1)
    BY <1>1, <2>1
  <2>10. QED
    BY <1>5, <2>6, <2>7, <2>8, <2>9 DEF f
<1>6. QED
  BY <1>4, <1>5

(***************************************************************************)
(* What every move on the stack keeps                                      *)
(***************************************************************************)

WithinParents(stack) ==
  \A k \in DOMAIN stack : stack[k].at <= Len(down[stack[k].revision]) + 1

LinkedStack(stack) ==
  \A k \in 1..(Len(stack) - 1) :
    /\ stack[k].at <= Len(down[stack[k].revision])
    /\ down[stack[k].revision][stack[k].at] = stack[k + 1].revision

\* A call for the parent the innermost call is at.
LEMMA CallKeeps ==
  ASSUME TypeOK, Linked, NEW r \in Revisions, Call(r),
         path = <<>> \/ (AtParent /\ Parent = r),
         NEW D, Behind(path, D)
  PROVE  WithinParents(path') /\ LinkedStack(path') /\ Behind(path', D)
<1> DEFINE n == Len(path)
<1>1. /\ n \in Nat /\ DOMAIN path = 1..n /\ DOMAIN path' = 1..(n + 1) /\ Len(path') = n + 1
      /\ \A k \in 1..n : path'[k] = path[k]
      /\ path'[n + 1].revision = r /\ path'[n + 1].at = 1
  <2>1. /\ n \in Nat /\ DOMAIN path = 1..n
        /\ DOMAIN path' = 1..(n + 1) /\ Len(path') = n + 1
        /\ \A k \in 1..n : path'[k] = path[k]
    BY CallEffect, StackIsSeq
  <2>2. path'[n + 1] = [revision |-> r, at |-> 1]
    BY CallEffect
  <2> HIDE DEF n
  <2>3. QED
    BY <2>1, <2>2
<1> HIDE DEF n
<1>2. \A k \in 1..(n + 1) : k \in 1..n \/ k = n + 1
  BY <1>1
<1>3. WithinParents(path')
  <2>1. 1 <= Len(down[r]) + 1
    BY DownIsSeq
  <2>2. \A k \in 1..n : path[k].at <= Len(down[path[k].revision]) + 1
    BY StackIsSeq DEF n
  <2>3. QED
    BY <1>1, <1>2, <2>1, <2>2 DEF WithinParents
<1>4. Behind(path', D)
  BY <1>1, <1>2 DEF Behind
<1>5. LinkedStack(path')
  <2>1. SUFFICES ASSUME NEW k \in 1..n
                 PROVE  /\ path'[k].at <= Len(down[path'[k].revision])
                        /\ down[path'[k].revision][path'[k].at] = path'[k + 1].revision
    BY <1>1 DEF LinkedStack
  <2>2. CASE k = n
    <3>1. path # <<>> /\ Top = path[n] /\ path'[k] = path[k] /\ path'[k + 1].revision = r
      BY <1>1, <2>2, StackIsSeq, EmptySeq DEF n
    <3>2. QED
      BY <2>2, <3>1 DEF AtParent, Parent
  <2>3. CASE k # n
    <3>1. k \in 1..(n - 1) /\ k + 1 \in 1..n
      BY <1>1, <2>3
    <3>2. QED
      BY <1>1, <3>1 DEF Linked, n
  <2>4. QED
    BY <2>2, <2>3
<1>6. QED
  BY <1>3, <1>4, <1>5

\* The innermost call goes on to its next parent.
LEMMA NextParentKeeps ==
  ASSUME TypeOK, Linked, AtParent, NextParent,
         NEW D, Behind(path, D), Parent \in D
  PROVE  WithinParents(path') /\ LinkedStack(path') /\ Behind(path', D)
<1> DEFINE n == Len(path)
<1>1. /\ n \in 1..n /\ n \in Nat /\ DOMAIN path = 1..n /\ DOMAIN path' = 1..n /\ Len(path') = n
      /\ \A k \in 1..(n - 1) : path'[k] = path[k]
      /\ Top = path[n] /\ Top \in Frames
      /\ path'[n] = [Top EXCEPT !.at = Top.at + 1]
  BY NextParentEffect, StackIsSeq DEF AtParent
<1>2. path'[n].revision = Top.revision /\ path'[n].at = Top.at + 1
  BY <1>1 DEF Frames
<1>3. Top.revision \in Revisions /\ Top.at \in Nat \ {0} /\ Top.at <= Len(down[Top.revision])
  BY <1>1, StackIsSeq DEF AtParent
<1>4. Len(down[Top.revision]) \in Nat
  BY <1>3, DownIsSeq
<1> HIDE DEF n
<1>5. \A k \in 1..n : k \in 1..(n - 1) \/ k = n
  BY <1>1
<1>6. WithinParents(path')
  <2>1. \A k \in 1..(n - 1) : path[k].at <= Len(down[path[k].revision]) + 1
    BY <1>1, StackIsSeq DEF n
  <2>2. Top.at + 1 <= Len(down[Top.revision]) + 1
    BY <1>3, <1>4
  <2>3. SUFFICES ASSUME NEW k \in 1..n
                 PROVE  path'[k].at <= Len(down[path'[k].revision]) + 1
    BY <1>1 DEF WithinParents
  <2>4. CASE k \in 1..(n - 1)
    BY <1>1, <2>1, <2>4
  <2>5. CASE k = n
    BY <1>2, <2>2, <2>5
  <2>6. QED
    BY <1>5, <2>4, <2>5
<1>7. Behind(path', D)
  <2>1. SUFFICES ASSUME NEW k \in 1..n, NEW i \in 1..(path'[k].at - 1)
                 PROVE  down[path'[k].revision][i] \in D
    BY <1>1 DEF Behind
  <2>2. CASE k = n
    <3>1. i \in 1..(Top.at - 1) \/ i = Top.at
      BY <1>2, <1>3, <2>2
    <3>2. QED
      BY <1>1, <1>2, <2>2, <3>1 DEF Behind, Parent
  <2>3. CASE k # n
    BY <1>1, <1>5, <2>3 DEF Behind
  <2>4. QED
    BY <2>2, <2>3
<1>8. LinkedStack(path')
  <2>1. SUFFICES ASSUME NEW k \in 1..(n - 1)
                 PROVE  /\ path'[k].at <= Len(down[path'[k].revision])
                        /\ down[path'[k].revision][path'[k].at] = path'[k + 1].revision
    BY <1>1 DEF LinkedStack
  <2>2. path'[k + 1].revision = path[k + 1].revision
    <3>1. k + 1 \in 1..n
      BY <1>1
    <3>2. QED
      BY <1>1, <1>2, <1>5, <3>1
  <2>3. QED
    BY <1>1, <2>2 DEF Linked, n
<1>9. QED
  BY <1>6, <1>7, <1>8

\* The innermost call returns.
LEMMA ReturnKeeps ==
  ASSUME TypeOK, Linked, path # <<>>, Return,
         NEW D, Behind(path, D), Top.revision \in D
  PROVE  /\ WithinParents(path') /\ LinkedStack(path') /\ Behind(path', D)
         /\ \A k \in DOMAIN path' : k \in 1..(Len(path) - 1) /\ path'[k].revision = path[k].revision
<1> DEFINE n == Len(path) - 1
<1>1. /\ n \in Nat /\ Len(path) = n + 1 /\ DOMAIN path = 1..(n + 1)
      /\ DOMAIN path' = 1..n /\ Len(path') = n /\ Top = path[n + 1]
      /\ \A k \in 1..(n - 1) : path'[k] = path[k]
      /\ n # 0 => path'[n] = [path[n] EXCEPT !.at = path[n].at + 1]
      /\ \A k \in 1..(n + 1) : path[k] \in Frames
  <2>1. Len(path) \in Nat \ {0}
    BY StackIsSeq
  <2>2. n \in Nat /\ Len(path) = n + 1 /\ (n # 0 <=> Len(path) # 1)
    BY <2>1
  <2>3. DOMAIN path' = 1..n /\ Len(path') = n
    BY ReturnEffect
  <2>4. \A k \in 1..(n - 1) : path'[k] = path[k]
    BY <2>2, ReturnEffect, n - 1 = Len(path) - 2
  <2>5. n # 0 => path'[n] = [path[n] EXCEPT !.at = path[n].at + 1]
    BY <2>2, ReturnEffect
  <2>6. /\ DOMAIN path = 1..Len(path) /\ Top = path[Len(path)]
        /\ \A k \in 1..Len(path) : path[k] \in Frames
    BY StackIsSeq
  <2> HIDE DEF n
  <2>7. QED
    BY <2>2, <2>3, <2>4, <2>5, <2>6
<1>2. ASSUME n # 0
      PROVE  /\ path'[n].revision = path[n].revision /\ path'[n].at = path[n].at + 1
             /\ path[n].revision \in Revisions /\ path[n].at \in Nat \ {0}
             /\ path[n].at <= Len(down[path[n].revision])
             /\ down[path[n].revision][path[n].at] = Top.revision
  <2>1. n \in 1..n /\ n \in 1..(n + 1)
    BY <1>1, <1>2
  <2>2. path[n] \in Frames /\ path[n].revision \in Revisions /\ path[n].at \in Nat \ {0}
    BY <1>1, <2>1, StackIsSeq
  <2>3. path'[n].revision = path[n].revision /\ path'[n].at = path[n].at + 1
    BY <1>1, <1>2, <2>2 DEF Frames
  <2>4. QED
    BY <1>1, <2>1, <2>2, <2>3 DEF Linked
<1> HIDE DEF n
<1>3. \A k \in 1..n : k \in 1..(n - 1) \/ (k = n /\ n # 0)
  BY <1>1
<1>4. WithinParents(path')
  <2>1. \A k \in 1..(n - 1) : path[k].at <= Len(down[path[k].revision]) + 1
    BY <1>1, StackIsSeq
  <2>2. n # 0 => path[n].at + 1 <= Len(down[path[n].revision]) + 1
    BY <1>2, DownIsSeq
  <2>3. QED
    BY <1>1, <1>2, <1>3, <2>1, <2>2 DEF WithinParents
<1>5. Behind(path', D)
  <2>1. SUFFICES ASSUME NEW k \in 1..n, NEW i \in 1..(path'[k].at - 1)
                 PROVE  down[path'[k].revision][i] \in D
    BY <1>1 DEF Behind
  <2>2. k \in DOMAIN path
    BY <1>1
  <2>3. CASE k \in 1..(n - 1)
    BY <1>1, <2>2, <2>3 DEF Behind
  <2>4. CASE k = n /\ n # 0
    <3>1. i \in 1..(path[n].at - 1) \/ i = path[n].at
      BY <1>2, <2>4
    <3>2. QED
      BY <1>2, <2>2, <2>4, <3>1 DEF Behind
  <2>5. QED
    BY <1>3, <2>3, <2>4
<1>6. \A k \in 1..n : path'[k].revision = path[k].revision
  BY <1>1, <1>2, <1>3
<1>7. LinkedStack(path')
  <2>1. SUFFICES ASSUME NEW k \in 1..(n - 1)
                 PROVE  /\ path'[k].at <= Len(down[path'[k].revision])
                        /\ down[path'[k].revision][path'[k].at] = path'[k + 1].revision
    BY <1>1 DEF LinkedStack
  <2>2. k \in 1..n /\ k + 1 \in 1..n
    BY <1>1
  <2>3. path'[k] = path[k] /\ path'[k + 1].revision = path[k + 1].revision
    BY <1>1, <1>6, <2>2
  <2>4. QED
    BY <1>1, <2>2, <2>3 DEF Linked
<1>8. QED
  BY <1>1, <1>4, <1>5, <1>6, <1>7

(***************************************************************************)
(* Every step keeps the invariant                                          *)
(***************************************************************************)

\* What depends on the graph alone.
LEMMA GraphStable ==
  ASSUME UNCHANGED down
  PROVE  /\ Doomed' = Doomed /\ Safe' = Safe /\ (Cyclic' <=> Cyclic)
         /\ MissingPredecessors' = MissingPredecessors
         /\ \A r \in Revisions : Parents(r)' = Parents(r)
BY DEF Doomed, Safe, Cyclic, Closed, MissingPredecessors, Parents

\* A step of the search reports nothing and replays nothing.
LEMMA SearchStep ==
  ASSUME IInv, phase = "cycle?", UNCHANGED <<down, phase, cycle, seen, ordered>>
  PROVE  Replaying' /\ CycleIsReal' /\ CyclesAreFound' /\ ParentsFirst' /\ OnceEach'
<1>1. cycle' = <<>> /\ ordered' = <<>>
  BY DEF IInv, Explored
<1>2. ~(\E k \in DOMAIN ordered' : TRUE)
  BY <1>1
<1>3. QED
  BY <1>1, <1>2 DEF Replaying, CycleIsReal, CyclesAreFound, ParentsFirst, OnceEach

\* A step that moves on the stack, and is otherwise within the types.
LEMMA MoveStep ==
  ASSUME TypeOK, UNCHANGED <<down, cycle>>, path' \in Seq(Frames),
         WithinParents(path'), LinkedStack(path'),
         phase' \in {"cycle?", "order", "ordered", "ambiguous"}, todo' \subseteq Revisions,
         seen' \subseteq Revisions, ordered' \in Seq(Revisions)
  PROVE  TypeOK' /\ Linked'
BY DEF TypeOK, WithinParents, LinkedStack, Linked

LEMMA StartWalkStep == IInv /\ StartWalk => IInv'
<1> SUFFICES ASSUME IInv, StartWalk PROVE IInv'
  OBVIOUS
<1>1. TypeOK /\ Linked /\ Explored
  BY DEF IInv
<1>2. PICK start \in todo : Call(start) /\ todo' = todo \ {start}
  BY DEF StartWalk
<1>3. start \in Revisions /\ path = <<>> /\ phase = "cycle?"
  BY <1>1 DEF TypeOK, StartWalk
<1>4. Behind(path, Safe)
  BY <1>1, <1>3 DEF Explored
<1>5. WithinParents(path') /\ LinkedStack(path') /\ Behind(path', Safe)
  BY <1>1, <1>2, <1>3, <1>4, CallKeeps
<1>6. path' \in Seq(Frames) /\ path' # <<>> /\ path'[1].revision = start
  <2>1. Len(path) = 0
    BY <1>3
  <2>2. path'[1] = [revision |-> start, at |-> 1]
    BY <1>1, <1>2, <1>3, <2>1, CallEffect
  <2>3. QED
    BY <1>1, <1>2, <1>3, <2>2, CallEffect
<1>7. TypeOK' /\ Linked'
  BY <1>1, <1>2, <1>5, <1>6, MoveStep DEF TypeOK, StartWalk
<1>8. Explored'
  <2>1. Behind(path, Safe)'
    BY <1>5, GraphStable DEF Behind, StartWalk
  <2>2. \A r \in Revisions \ todo' : r \in Doomed => r = start
    BY <1>1, <1>2, <1>3 DEF Explored
  <2>3. QED
    BY <1>1, <1>3, <1>6, <2>1, <2>2, GraphStable DEF Explored, StartWalk
<1>9. QED
  BY <1>3, <1>7, <1>8, SearchStep DEF IInv, StartWalk

LEMMA WalkParentStep == IInv /\ WalkParent => IInv'
<1> SUFFICES ASSUME IInv, WalkParent PROVE IInv'
  OBVIOUS
<1>1. TypeOK /\ Linked /\ Explored /\ phase = "cycle?" /\ AtParent
  BY DEF IInv, WalkParent
<1>2. Behind(path, Safe) /\ path # <<>>
  BY <1>1 DEF Explored, AtParent
<1>3. /\ path' \in Seq(Frames) /\ path' # <<>> /\ path'[1].revision = path[1].revision
      /\ WithinParents(path') /\ LinkedStack(path') /\ Behind(path', Safe)
  <2>1. Len(path) \in Nat \ {0}
    BY <1>1, <1>2, StackIsSeq
  <2>2. CASE Parent \in Revisions
    <3>1. Call(Parent)
      BY <2>2 DEF WalkParent
    <3>2. path'[1] = path[1]
      <4>1. 1 \in 1..Len(path)
        BY <2>1
      <4>2. QED
        BY <1>1, <2>2, <3>1, <4>1, CallEffect
    <3>3. QED
      BY <1>1, <1>2, <2>2, <3>1, <3>2, CallEffect, CallKeeps
  <2>3. CASE Parent \notin Revisions
    <3>1. NextParent
      BY <2>3 DEF WalkParent
    <3>2. /\ Top = path[Len(path)] /\ Top.revision \in Revisions /\ Top \in Frames
          /\ Top.at \in 1..Len(down[Top.revision])
      BY <1>1, <1>2, StackIsSeq, DownIsSeq DEF AtParent
    <3>3. Parent \in Safe
      BY <1>1, <2>3, <3>2, DownIsSeq, DoomedParent DEF Safe, Parent
    <3>4. path'[1].revision = path[1].revision
      <4>1. CASE Len(path) = 1
        BY <1>1, <3>1, <3>2, <4>1, NextParentEffect DEF Frames
      <4>2. CASE Len(path) # 1
        BY <1>1, <2>1, <3>1, <4>2, NextParentEffect
      <4>3. QED
        BY <4>1, <4>2
    <3>5. QED
      BY <1>1, <1>2, <3>1, <3>3, <3>4, NextParentEffect, NextParentKeeps
  <2>4. QED
    BY <2>2, <2>3
<1>4. TypeOK' /\ Linked'
  BY <1>1, <1>3, MoveStep DEF TypeOK, WalkParent
<1>5. Explored'
  <2>1. Behind(path, Safe)'
    BY <1>3, GraphStable DEF Behind, WalkParent
  <2>2. QED
    BY <1>1, <1>3, <2>1, GraphStable DEF Explored, WalkParent
<1>6. QED
  BY <1>1, <1>4, <1>5, SearchStep DEF IInv, WalkParent

LEMMA WalkBackStep == IInv /\ WalkBack => IInv'
<1> SUFFICES ASSUME IInv, WalkBack PROVE IInv'
  OBVIOUS
<1>1. /\ TypeOK /\ Linked /\ Explored /\ phase = "cycle?"
      /\ path # <<>> /\ ~AtParent /\ Return
  BY DEF IInv, WalkBack
<1>2. Behind(path, Safe)
  BY <1>1 DEF Explored
<1>3. Top.revision \in Safe
  <2>1. /\ Len(path) \in DOMAIN path /\ Top = path[Len(path)] /\ Top.revision \in Revisions
        /\ Top.at \in Nat /\ Top.at = Len(down[Top.revision]) + 1
    <3>1. /\ Len(path) \in DOMAIN path /\ Top = path[Len(path)] /\ Top.revision \in Revisions
          /\ Top.at \in Nat /\ Top.at <= Len(down[Top.revision]) + 1
      BY <1>1, StackIsSeq
    <3>2. Len(down[Top.revision]) \in Nat
      BY <1>1, <3>1, DownIsSeq
    <3>3. ~(Top.at <= Len(down[Top.revision]))
      BY <1>1 DEF AtParent
    <3>4. QED
      BY <3>1, <3>2, <3>3
  <2>2. \A i \in 1..Len(down[Top.revision]) : down[Top.revision][i] \in Safe
    <3>1. \A i \in 1..(path[Len(path)].at - 1) : down[path[Len(path)].revision][i] \in Safe
      BY <1>2, <2>1 DEF Behind
    <3>2. \A i \in 1..(Top.at - 1) : down[Top.revision][i] \in Safe
      BY <2>1, <3>1
    <3>3. Top.at - 1 = Len(down[Top.revision])
      <4>1. Len(down[Top.revision]) \in Nat
        BY <1>1, <2>1, DownIsSeq
      <4>2. QED
        BY <2>1, <4>1
    <3>4. QED
      BY <3>2, <3>3
  <2>3. Parents(Top.revision) \subseteq Safe
    BY <1>1, <2>1, <2>2, DownIsSeq DEF Parents
  <2>4. QED
    BY <2>1, <2>3, DoomedParent DEF Safe
<1>4. /\ path' \in Seq(Frames) /\ WithinParents(path') /\ LinkedStack(path')
      /\ Behind(path', Safe)
  BY <1>1, <1>2, <1>3, ReturnEffect, ReturnKeeps
<1>5. TypeOK' /\ Linked'
  BY <1>1, <1>4, MoveStep DEF TypeOK, WalkBack
<1>6. \A r \in Revisions \ todo : r \in Doomed => path' # <<>> /\ r = path'[1].revision
  <2>1. SUFFICES ASSUME NEW r \in Revisions \ todo, r \in Doomed
                 PROVE  path' # <<>> /\ r = path'[1].revision
    OBVIOUS
  <2>2. r = path[1].revision /\ r # Top.revision
    BY <1>1, <1>3, <2>1 DEF Explored, Safe
  <2>3. Len(path) # 1
    BY <2>2 DEF Top
  <2>4. 1 \in DOMAIN path' /\ path' # <<>>
    BY <1>1, <2>3, StackIsSeq, ReturnEffect
  <2>5. path'[1].revision = path[1].revision
    BY <1>1, <1>2, <1>3, <2>4, ReturnKeeps
  <2>6. QED
    BY <2>2, <2>4, <2>5
<1>7. Explored'
  <2>1. Behind(path, Safe)'
    BY <1>4, GraphStable DEF Behind, WalkBack
  <2>2. QED
    BY <1>1, <1>6, <2>1, GraphStable DEF Explored, WalkBack
<1>8. QED
  BY <1>1, <1>5, <1>7, SearchStep DEF IInv, WalkBack

LEMMA CloseCycleStep == IInv /\ CloseCycle => IInv'
<1> SUFFICES ASSUME IInv, CloseCycle PROVE IInv'
  OBVIOUS
<1>1. /\ TypeOK /\ Linked /\ Explored /\ AtParent /\ phase = "cycle?"
      /\ path' = <<>> /\ phase' = "ambiguous" /\ UNCHANGED <<down, todo, seen, ordered>>
  BY DEF IInv, CloseCycle
<1>2. PICK first \in DOMAIN path : path[first].revision = Parent /\ cycle' = StackFrom(first)
  BY DEF CloseCycle
<1>3. /\ cycle' \in Seq(Revisions) /\ cycle' # <<>>
      /\ \A k \in DOMAIN cycle' :
           cycle'[IF k = Len(cycle') THEN 1 ELSE k + 1] \in Parents(cycle'[k])
  BY <1>1, <1>2, StackFromIsCircle
<1>4. Cyclic'
  BY <1>1, <1>3, CircleIsCyclic, GraphStable
<1>5. CycleIsReal'
  BY <1>1, <1>3 DEF CycleIsReal, Parents
<1>6. path' \in Seq(Frames) /\ Len(path') = 0 /\ DOMAIN path' = {}
  BY <1>1, EmptySeq
<1>7. TypeOK' /\ Linked'
  BY <1>1, <1>3, <1>6 DEF TypeOK, Linked
<1>8. ParentsFirst' /\ OnceEach'
  <2>1. ParentsFirst /\ OnceEach
    BY DEF IInv
  <2>2. QED
    BY <1>1, <2>1 DEF ParentsFirst, OnceEach, Parents
<1>9. QED
  BY <1>1, <1>3, <1>4, <1>5, <1>7, <1>8 DEF IInv, Explored, Replaying, CyclesAreFound

LEMMA JudgeStep == IInv /\ Judge => IInv'
<1> SUFFICES ASSUME IInv, Judge PROVE IInv'
  OBVIOUS
<1>1. /\ TypeOK /\ Linked /\ Explored /\ phase = "cycle?" /\ path = <<>> /\ todo = {}
      /\ UNCHANGED <<down, todo, cycle, ordered>>
  BY DEF IInv, Judge
<1>2. cycle = <<>> /\ seen = {} /\ ordered = <<>>
  BY <1>1 DEF Explored
<1>3. ~Cyclic'
  <2>1. ~Cyclic
    BY <1>1, CyclicIsDoomed DEF Explored
  <2>2. QED
    BY <1>1, <2>1, GraphStable
<1>4. ~(\E k \in DOMAIN ordered' : TRUE)
  BY <1>1, <1>2
<1>5. CycleIsReal' /\ CyclesAreFound' /\ ParentsFirst' /\ OnceEach'
  BY <1>1, <1>2, <1>3, <1>4 DEF CycleIsReal, CyclesAreFound, ParentsFirst, OnceEach
<1>6. CASE ~(MissingPredecessors = {} /\ Cardinality(Heads) = 1)
  <2>1. phase' = "ambiguous" /\ UNCHANGED <<path, seen>>
    BY <1>6 DEF Judge
  <2>2. TypeOK' /\ Linked'
    BY <1>1, <2>1 DEF TypeOK, Linked
  <2>3. QED
    BY <1>5, <2>1, <2>2 DEF IInv, Explored, Replaying
<1>7. CASE MissingPredecessors = {} /\ Cardinality(Heads) = 1
  <2>1. phase' = "order"
    BY <1>7 DEF Judge
  <2>2. PICK head \in Heads : Call(head) /\ seen' = {head}
    BY <1>7 DEF Judge
  <2>3. head \in Revisions
    BY DEF Heads
  <2>4. Behind(path, Replayed)
    BY <1>1 DEF Behind
  <2>5. WithinParents(path') /\ LinkedStack(path') /\ Behind(path', Replayed)
    BY <1>1, <2>2, <2>3, <2>4, CallKeeps
  <2>6. /\ path' \in Seq(Frames) /\ DOMAIN path' = {1}
        /\ path'[1].revision = head
    <3>1. Len(path) = 0
      BY <1>1
    <3>2. path'[1] = [revision |-> head, at |-> 1] /\ DOMAIN path' = 1..1
      BY <1>1, <2>2, <2>3, <3>1, CallEffect
    <3>3. QED
      BY <1>1, <2>2, <2>3, <3>2, CallEffect
  <2>7. TypeOK' /\ Linked'
    BY <1>1, <2>1, <2>2, <2>3, <2>5, <2>6, MoveStep DEF TypeOK
  <2>8. Replayed' = {}
    BY <1>4 DEF Replayed
  <2>9. Replaying'
    <3>1. Behind(path, Replayed)'
      BY <1>1, <2>5 DEF Behind, Replayed
    <3>2. MissingPredecessors' = {}
      BY <1>1, <1>7, GraphStable
    <3>3. \A r \in seen' : InStack(r)'
      BY <2>2, <2>6 DEF InStack
    <3>4. QED
      BY <2>2, <2>6, <2>8, <3>1, <3>2, <3>3 DEF Replaying
  <2>10. QED
    BY <1>5, <2>1, <2>7, <2>9 DEF IInv, Explored
<1>8. QED
  BY <1>6, <1>7

\* In the replay a parent that was seen is replayed: were it still in progress,
\* the stack would close a cycle.
LEMMA SeenIsReplayed ==
  ASSUME IInv, phase = "order", AtParent, Parent \in seen
  PROVE  Parent \in Replayed
<1>1. TypeOK /\ Linked /\ ~Cyclic
  BY DEF IInv, CyclesAreFound
<1>2. ~InStack(Parent)
  <2>1. SUFFICES ASSUME NEW first \in DOMAIN path, path[first].revision = Parent PROVE FALSE
    BY DEF InStack
  <2>2. QED
    BY <1>1, <2>1, StackFromIsCircle, CircleIsCyclic
<1>3. QED
  BY <1>2 DEF IInv, Replaying

\* In the replay every parent has its module.
LEMMA ParentIsKnown ==
  ASSUME IInv, phase = "order", AtParent
  PROVE  Parent \in Revisions
<1>1. TypeOK /\ MissingPredecessors = {} /\ path # <<>>
  BY DEF IInv, Replaying, AtParent
<1>2. /\ Top.revision \in Revisions /\ Top.at \in Nat \ {0}
      /\ Top.at <= Len(down[Top.revision])
  BY <1>1, StackIsSeq DEF AtParent
<1>3. Top.at \in DOMAIN down[Top.revision]
  BY <1>1, <1>2, DownIsSeq
<1>4. Parent \in Parents(Top.revision)
  BY <1>3 DEF Parent, Parents
<1>5. Parent \in UNION {Parents(r) : r \in Revisions}
  BY <1>2, <1>4
<1>6. QED
  BY <1>1, <1>5 DEF MissingPredecessors

\* A step of the replay that appends nothing.
LEMMA ReplayStep ==
  ASSUME IInv, phase \in {"order", "ordered"}, phase' \in {"order", "ordered"},
         UNCHANGED <<down, cycle, ordered>>
  PROVE  /\ Explored' /\ CycleIsReal' /\ CyclesAreFound' /\ ParentsFirst' /\ OnceEach'
         /\ Replayed' = Replayed
<1>1. ~Cyclic'
  BY GraphStable DEF IInv, CyclesAreFound
<1>2. QED
  BY <1>1 DEF IInv, Explored, CycleIsReal, CyclesAreFound, ParentsFirst, OnceEach, Parents,
              Replayed

LEMMA VisitParentStep == IInv /\ VisitParent => IInv'
<1> SUFFICES ASSUME IInv, VisitParent PROVE IInv'
  OBVIOUS
<1>1. /\ TypeOK /\ Linked /\ Replaying /\ phase = "order" /\ AtParent /\ path # <<>>
      /\ UNCHANGED <<down, phase, todo, cycle, ordered>>
  BY DEF IInv, VisitParent, AtParent
<1>2. Parent \in Revisions
  BY <1>1, ParentIsKnown
<1>3. /\ Explored' /\ CycleIsReal' /\ CyclesAreFound' /\ ParentsFirst' /\ OnceEach'
      /\ Replayed' = Replayed /\ MissingPredecessors' = {}
  BY <1>1, ReplayStep, GraphStable DEF Replaying
<1>4. /\ DOMAIN path = 1..Len(path) /\ Len(path) \in Nat \ {0}
      /\ Top = path[Len(path)] /\ Top \in Frames
  BY <1>1, StackIsSeq
<1>5. CASE Parent \in seen
  <2>1. NextParent /\ UNCHANGED seen
    BY <1>5 DEF VisitParent
  <2>2. Behind(path, Replayed) /\ Parent \in Replayed
    BY <1>1, <1>5, SeenIsReplayed DEF Replaying
  <2>3. /\ path' \in Seq(Frames) /\ DOMAIN path' = DOMAIN path
        /\ WithinParents(path') /\ LinkedStack(path') /\ Behind(path', Replayed)
    BY <1>1, <1>4, <2>1, <2>2, NextParentEffect, NextParentKeeps
  <2>4. TypeOK' /\ Linked'
    BY <1>1, <2>1, <2>3, MoveStep DEF TypeOK
  <2>5. \A k \in DOMAIN path : path'[k].revision = path[k].revision
    <3>1. path'[Len(path)].revision = path[Len(path)].revision
      BY <1>1, <1>4, <2>1, NextParentEffect DEF Frames
    <3>2. \A k \in 1..(Len(path) - 1) : path'[k] = path[k]
      BY <1>1, <2>1, NextParentEffect
    <3>3. \A k \in DOMAIN path : k \in 1..(Len(path) - 1) \/ k = Len(path)
      BY <1>4
    <3>4. QED
      BY <3>1, <3>2, <3>3
  <2>6. Behind(path, Replayed)'
    BY <1>1, <1>3, <2>3 DEF Behind
  <2>7. Replaying'
    BY <1>1, <1>3, <2>1, <2>3, <2>5, <2>6 DEF Replaying, InStack
  <2>8. QED
    BY <1>3, <2>4, <2>7 DEF IInv
<1>6. CASE Parent \notin seen
  <2>1. Call(Parent) /\ seen' = seen \cup {Parent}
    BY <1>6 DEF VisitParent
  <2>2. Behind(path, Replayed)
    BY <1>1 DEF Replaying
  <2>3. WithinParents(path') /\ LinkedStack(path') /\ Behind(path', Replayed)
    BY <1>1, <1>2, <2>1, <2>2, CallKeeps
  <2>4. /\ path' \in Seq(Frames) /\ \A k \in DOMAIN path : path'[k] = path[k]
        /\ DOMAIN path' = DOMAIN path \cup {Len(path) + 1} /\ Len(path) + 1 \notin DOMAIN path
        /\ path'[Len(path) + 1].revision = Parent
    <3>1. path'[Len(path) + 1] = [revision |-> Parent, at |-> 1]
      BY <1>1, <1>2, <2>1, CallEffect
    <3>2. /\ path' \in Seq(Frames) /\ \A k \in 1..Len(path) : path'[k] = path[k]
          /\ DOMAIN path' = 1..(Len(path) + 1)
      BY <1>1, <1>2, <2>1, CallEffect
    <3>3. /\ 1..(Len(path) + 1) = 1..Len(path) \cup {Len(path) + 1}
          /\ Len(path) + 1 \notin 1..Len(path)
      BY <1>4
    <3>4. QED
      BY <1>4, <3>1, <3>2, <3>3
  <2>5. TypeOK' /\ Linked'
    BY <1>1, <1>2, <2>1, <2>3, <2>4, MoveStep DEF TypeOK
  <2>6. Behind(path, Replayed)'
    BY <1>1, <1>3, <2>3 DEF Behind
  <2>7. \A k \in DOMAIN path : path[k].revision # Parent
    BY <1>1, <1>6 DEF Replaying
  <2>8. Replaying'
    <3>1. \A r \in seen' : InStack(r)' \/ r \in Replayed
      BY <1>1, <2>1, <2>4 DEF Replaying, InStack
    <3>2. \A k \in DOMAIN path' : path'[k].revision \in seen' \ Replayed
      BY <1>1, <1>6, <2>1, <2>4 DEF Replaying
    <3>3. \A k, l \in DOMAIN path' : path'[k].revision = path'[l].revision => k = l
      BY <1>1, <2>4, <2>7 DEF Replaying
    <3>4. Replayed \subseteq seen'
      BY <1>1, <2>1 DEF Replaying
    <3>5. QED
      BY <1>3, <2>6, <3>1, <3>2, <3>3, <3>4 DEF Replaying
  <2>9. QED
    BY <1>3, <2>5, <2>8 DEF IInv
<1>7. QED
  BY <1>5, <1>6

LEMMA FinishVisitStep == IInv /\ FinishVisit => IInv'
<1> SUFFICES ASSUME IInv, FinishVisit PROVE IInv'
  OBVIOUS
<1> DEFINE top == Top.revision
           m == Len(ordered) + 1
<1>1. /\ TypeOK /\ Linked /\ Replaying /\ ParentsFirst /\ OnceEach /\ CyclesAreFound /\ CycleIsReal
      /\ phase = "order" /\ path # <<>> /\ ~AtParent /\ Return
      /\ ordered' = Append(ordered, top) /\ UNCHANGED <<down, phase, todo, cycle, seen>>
  BY DEF IInv, FinishVisit
<1>2. /\ Len(path) \in DOMAIN path /\ DOMAIN path = 1..Len(path) /\ Len(path) \in Nat
      /\ top = path[Len(path)].revision /\ top \in Revisions
      /\ Top.at \in Nat /\ Top.at <= Len(down[top]) + 1 /\ Top = path[Len(path)]
  BY <1>1, StackIsSeq
<1>3. /\ ordered \in Seq(Revisions) /\ Len(ordered) \in Nat /\ DOMAIN ordered = 1..Len(ordered)
      /\ ordered' \in Seq(Revisions) /\ DOMAIN ordered' = 1..m
      /\ \A j \in 1..Len(ordered) : ordered'[j] = ordered[j]
      /\ ordered'[m] = top
  <2>1. ordered \in Seq(Revisions)
    BY <1>1 DEF TypeOK
  <2>2. QED
    BY <1>1, <1>2, <2>1, AppendProperties, LenProperties
<1>4. Parents(top) \subseteq Replayed
  <2>1. Len(down[top]) \in Nat /\ DOMAIN down[top] = 1..Len(down[top])
    BY <1>1, <1>2, DownIsSeq
  <2>2. Top.at = Len(down[top]) + 1
    BY <1>1, <1>2, <2>1 DEF AtParent
  <2>3. \A i \in 1..Len(down[top]) : down[top][i] \in Replayed
    BY <1>1, <1>2, <2>1, <2>2 DEF Replaying, Behind
  <2>4. QED
    BY <2>1, <2>3 DEF Parents
<1> HIDE DEF top, m
<1>5. top \notin Replayed /\ top \in seen
  BY <1>1, <1>2 DEF Replaying
<1>6. /\ m \notin 1..Len(ordered) /\ m \in 1..m
      /\ \A j \in 1..m : j \in 1..Len(ordered) \/ j = m
      /\ \A j \in 1..Len(ordered) : j \in 1..m
  BY <1>3 DEF m
<1>7. Replayed' = Replayed \cup {top}
  BY <1>3, <1>6 DEF Replayed
<1>8. Behind(path, Replayed \cup {top})
  BY <1>1 DEF Replaying, Behind
<1>9. /\ path' \in Seq(Frames) /\ WithinParents(path') /\ LinkedStack(path')
      /\ Behind(path', Replayed \cup {top})
      /\ \A k \in DOMAIN path' : k \in 1..(Len(path) - 1) /\ path'[k].revision = path[k].revision
      /\ DOMAIN path' = 1..(Len(path) - 1)
  BY <1>1, <1>8, ReturnEffect, ReturnKeeps DEF top
<1>10. TypeOK' /\ Linked'
  BY <1>1, <1>3, <1>9, MoveStep DEF TypeOK
<1>11. Replaying'
  <2>1. \A k \in DOMAIN path' : k \in DOMAIN path /\ k # Len(path)
    BY <1>2, <1>9
  <2>2. \A r \in seen : InStack(r)' \/ r \in Replayed'
    <3>1. SUFFICES ASSUME NEW r \in seen, r \notin Replayed, r # top PROVE InStack(r)'
      BY <1>7
    <3>2. PICK k \in DOMAIN path : path[k].revision = r
      BY <1>1, <3>1 DEF Replaying, InStack
    <3>3. k # Len(path)
      BY <1>2, <3>1, <3>2
    <3>4. k \in DOMAIN path'
      BY <1>2, <1>9, <3>3
    <3>5. QED
      BY <1>9, <3>2, <3>4 DEF InStack
  <2>3. \A k \in DOMAIN path' : path'[k].revision \in seen \ Replayed'
    <3>1. SUFFICES ASSUME NEW k \in DOMAIN path' PROVE path'[k].revision \in seen \ Replayed'
      OBVIOUS
    <3>2. path[k].revision \in seen \ Replayed /\ path[k].revision # top
      BY <1>1, <1>2, <2>1 DEF Replaying
    <3>3. QED
      BY <1>7, <1>9, <3>2
  <2>4. Replayed' \subseteq seen
    BY <1>1, <1>5, <1>7 DEF Replaying
  <2>5. \A k, l \in DOMAIN path' : path'[k].revision = path'[l].revision => k = l
    BY <1>1, <1>9, <2>1 DEF Replaying
  <2>6. Behind(path, Replayed)'
    BY <1>1, <1>7, <1>9 DEF Behind
  <2>7. MissingPredecessors' = {}
    BY <1>1, GraphStable DEF Replaying
  <2>8. QED
    BY <1>1, <2>2, <2>3, <2>4, <2>5, <2>6, <2>7 DEF Replaying
<1>12. ParentsFirst'
  <2>1. SUFFICES ASSUME NEW k \in 1..m, NEW q \in Parents(ordered'[k])
                 PROVE  \E j \in 1..(k - 1) : ordered'[j] = q
    <3>1. \A k \in 1..m : Parents(ordered'[k]) = Parents(ordered[k])'
      BY <1>1 DEF Parents
    <3>2. QED
      BY <1>3, <3>1 DEF ParentsFirst
  <2>2. CASE k = m
    <3>1. PICK j \in DOMAIN ordered : ordered[j] = q
      BY <1>3, <1>4, <2>1, <2>2 DEF Replayed
    <3>2. j \in 1..(k - 1)
      BY <1>3, <2>2, <3>1 DEF m
    <3>3. QED
      BY <1>3, <3>1, <3>2
  <2>3. CASE k # m
    <3>1. k \in DOMAIN ordered /\ ordered'[k] = ordered[k]
      BY <1>3, <1>6, <2>3
    <3>2. PICK j \in 1..(k - 1) : ordered[j] = q
      BY <1>1, <2>1, <3>1 DEF ParentsFirst
    <3>3. j \in 1..Len(ordered)
      BY <1>3, <3>1, <3>2
    <3>4. QED
      BY <1>3, <3>2, <3>3
  <2>4. QED
    BY <2>2, <2>3
<1>13. OnceEach'
  <2>1. \A j \in 1..Len(ordered) : ordered[j] # top
    BY <1>3, <1>5 DEF Replayed
  <2>2. \A j, k \in 1..Len(ordered) : ordered[j] = ordered[k] => j = k
    BY <1>1, <1>3 DEF OnceEach
  <2>3. \A j, k \in 1..m : ordered'[j] = ordered'[k] => j = k
    BY <1>3, <1>6, <2>1, <2>2
  <2>4. QED
    BY <1>3, <2>3 DEF OnceEach
<1>14. CycleIsReal' /\ CyclesAreFound' /\ Explored'
  <2>1. ~Cyclic'
    BY <1>1, GraphStable DEF CyclesAreFound
  <2>2. QED
    BY <1>1, <2>1 DEF CycleIsReal, CyclesAreFound, Explored, Parents
<1>15. QED
  BY <1>10, <1>11, <1>12, <1>13, <1>14 DEF IInv

LEMMA OrderedStep == IInv /\ Ordered => IInv'
<1> SUFFICES ASSUME IInv, Ordered PROVE IInv'
  OBVIOUS
<1>1. /\ phase = "order" /\ phase' = "ordered" /\ path = <<>>
      /\ UNCHANGED <<down, todo, path, cycle, seen, ordered>>
  BY DEF Ordered
<1>2. TypeOK' /\ Linked'
  BY <1>1 DEF IInv, TypeOK, Linked
<1>3. Replaying'
  BY <1>1 DEF Replaying
<1>4. QED
  BY <1>1, <1>2, <1>3, ReplayStep DEF IInv

\* A state is left as it is.
LEMMA StutterStep == IInv /\ UNCHANGED vars => IInv'
<1> SUFFICES ASSUME IInv, UNCHANGED vars PROVE IInv'
  OBVIOUS
<1>1. UNCHANGED <<down, phase, todo, path, cycle, seen, ordered>>
  BY DEF vars
<1>2. TypeOK' /\ Linked' /\ CycleIsReal' /\ CyclesAreFound' /\ ParentsFirst' /\ OnceEach'
  BY <1>1, GraphStable
     DEF IInv, TypeOK, Linked, CycleIsReal, CyclesAreFound, ParentsFirst, OnceEach, Parents
<1>3. Explored' /\ Replaying'
  <2>1. Explored /\ Replaying
    BY DEF IInv
  <2>2. Replayed' = Replayed /\ (\A r \in seen : InStack(r)' = InStack(r))
    BY <1>1 DEF Replayed, InStack
  <2>3. Behind(path, Safe)' = Behind(path, Safe) /\ Behind(path, Replayed)' = Behind(path, Replayed)
    BY <1>1, <2>2, GraphStable DEF Behind
  <2>4. QED
    BY <1>1, <2>1, <2>2, <2>3, GraphStable DEF Explored, Replaying
<1>4. QED
  BY <1>2, <1>3 DEF IInv

LEMMA InitHolds == Init => IInv
<1> SUFFICES ASSUME Init PROVE IInv
  OBVIOUS
<1>1. /\ path = <<>> /\ cycle = <<>> /\ ordered = <<>> /\ seen = {} /\ phase = "cycle?"
      /\ todo = Revisions /\ down \in [Revisions -> DownRevisions]
  BY DEF Init
<1>2. /\ path \in Seq(Frames) /\ cycle \in Seq(Revisions) /\ ordered \in Seq(Revisions)
      /\ DOMAIN path = {} /\ DOMAIN cycle = {} /\ DOMAIN ordered = {} /\ Len(path) = 0
  BY <1>1, EmptySeq
<1>3. TypeOK /\ Linked
  BY <1>1, <1>2 DEF TypeOK, Linked
<1>4. Explored /\ Replaying
  BY <1>1, <1>2 DEF Explored, Replaying, Behind
<1>5. CycleIsReal /\ CyclesAreFound /\ ParentsFirst /\ OnceEach
  BY <1>1, <1>2 DEF CycleIsReal, CyclesAreFound, ParentsFirst, OnceEach
<1>6. QED
  BY <1>3, <1>4, <1>5 DEF IInv

\* The inductive invariant holds throughout.
LEMMA StepHolds == IInv /\ [Next]_vars => IInv'
BY StartWalkStep, WalkParentStep, WalkBackStep, CloseCycleStep, JudgeStep,
   VisitParentStep, FinishVisitStep, OrderedStep, StutterStep DEF Next

\* The invariant the theorems below follow from.
THEOREM Invariance == Spec => []IInv
BY InitHolds, StepHolds, PTL DEF Spec

(***************************************************************************)
(* Theorems                                                                *)
(***************************************************************************)

\* The variables keep their types.
THEOREM TypeCorrect == Spec => []TypeOK
<1>1. IInv => TypeOK
  BY DEF IInv
<1>2. QED
  BY <1>1, Invariance, PTL

\* _find_cycle is exact: a graph with a cycle is never replayed and its cycle is
\* reported, and what is reported is one.
THEOREM CycleSearch == Spec => []CycleSearchIsExact
<1>1. IInv => CycleSearchIsExact
  BY DEF IInv, CycleSearchIsExact
<1>2. QED
  BY <1>1, Invariance, PTL

\* _topological_order lists a revision once, after those it revises.
THEOREM ReplayOrder == Spec => [](ParentsFirst /\ OnceEach)
<1>1. IInv => ParentsFirst /\ OnceEach
  BY DEF IInv
<1>2. QED
  BY <1>1, Invariance, PTL

(***************************************************************************)
(* The replay keeps to the search                                          *)
(***************************************************************************)

\* Running the upgrades takes no step of the search away and adds none.
THEOREM ReplayFollowsSearch == ReplaySpec => Init /\ [][Next]_vars
<1>1. ReplayInit => Init
  BY DEF ReplayInit
<1>2. [ReplayNext]_<<vars, replayVars>> => [Next]_vars
  BY DEF ReplayNext, NextRevision, RunStatement
<1>3. QED
  BY <1>1, <1>2, PTL DEF ReplaySpec

\* Whatever upgrades are run, cycles are found exactly and the order is one to replay in.
THEOREM ReplaySearch ==
  ReplaySpec => [](TypeOK /\ CycleSearchIsExact /\ ParentsFirst /\ OnceEach)
<1>1. IInv => TypeOK /\ CycleSearchIsExact /\ ParentsFirst /\ OnceEach
  BY DEF IInv, CycleSearchIsExact
<1>2. QED
  BY <1>1, ReplayFollowsSearch, InitHolds, StepHolds, PTL

(***************************************************************************)
(* The replay is whole                                                     *)
(***************************************************************************)

\* A replay begins with the only head, and all that was seen is replayed in the end.
HeadFacts ==
  /\ phase \in {"order", "ordered"} =>
       Cardinality(Heads) = 1 /\ \E head \in Heads : head \in seen
  /\ phase = "ordered" => seen \subseteq Replayed

LEMMA HeadInit == Init => HeadFacts
BY DEF Init, HeadFacts

LEMMA HeadStep == IInv /\ HeadFacts /\ [Next]_vars => HeadFacts'
<1> SUFFICES ASSUME IInv, HeadFacts, [Next]_vars PROVE HeadFacts'
  OBVIOUS
<1>1. Heads' = Heads
  BY DEF Next, StartWalk, WalkParent, WalkBack, CloseCycle, Judge, VisitParent, FinishVisit,
         Ordered, vars, Heads, Parents
<1>2. CASE StartWalk \/ WalkParent \/ WalkBack \/ CloseCycle
  <2>1. phase' \notin {"order", "ordered"}
    BY <1>2 DEF StartWalk, WalkParent, WalkBack, CloseCycle
  <2>2. QED
    BY <2>1 DEF HeadFacts
<1>3. CASE Judge
  <2>1. phase' = "ambiguous"
        \/ (phase' = "order" /\ Cardinality(Heads) = 1 /\ \E head \in Heads : head \in seen')
    BY <1>3 DEF Judge
  <2>2. QED
    BY <1>1, <2>1 DEF HeadFacts
<1>4. CASE VisitParent \/ FinishVisit
  <2>1. phase = "order" /\ phase' = "order" /\ seen \subseteq seen'
    BY <1>4 DEF VisitParent, FinishVisit
  <2>2. QED
    BY <1>1, <2>1 DEF HeadFacts
<1>5. CASE Ordered
  <2>1. phase = "order" /\ path = <<>> /\ seen' = seen /\ ordered' = ordered
    BY <1>5 DEF Ordered
  <2>2. \A r \in seen : ~InStack(r)
    BY <2>1 DEF InStack
  <2>3. seen \subseteq Replayed
    BY <2>1, <2>2 DEF IInv, Replaying
  <2>4. QED
    BY <1>1, <2>1, <2>3 DEF HeadFacts, Replayed
<1>6. CASE UNCHANGED vars
  BY <1>1, <1>6 DEF vars, HeadFacts, Replayed
<1>7. QED
  BY <1>2, <1>3, <1>4, <1>5, <1>6 DEF Next

\* A finite set of revisions each of which is revised by one of them has a cycle:
\* in a smallest such set, each also revises one of them, or it could be left out.
LEMMA RevisedInCircle ==
  ASSUME NEW U \in SUBSET Revisions, IsFiniteSet(U), U # {},
         \A r \in U : \E child \in U : r \in Parents(child)
  PROVE  Cyclic
<1> DEFINE R == StrictSubsetOrdering(U)
           Revised(S) == \A r \in S : \E child \in S : r \in Parents(child)
           T == {S \in SUBSET U : S # {} /\ Revised(S)}
<1>1. T \subseteq FiniteSubsetsOf(U) /\ T # {}
  BY FS_Subset DEF FiniteSubsetsOf
<1>2. \E x \in T : \A y \in T : ~(<<y, x>> \in R)
  <2> HIDE DEF T
  <2>1. IsWellFoundedOn(R, FiniteSubsetsOf(U))
    BY FS_StrictSubsetOrderingWellFounded
  <2>2. QED
    BY <1>1, <2>1, WFMin
<1>3. PICK S \in T : \A y \in T : ~(<<y, S>> \in R)
  BY <1>2
<1>4. ASSUME NEW r \in S, \A p \in S : p \notin Parents(r) PROVE FALSE
  <2> DEFINE Y == S \ {r}
  <2>1. PICK child \in S : r \in Parents(child)
    BY <1>3
  <2>2. child \in Y
    BY <1>4, <2>1
  <2>3. ASSUME NEW q \in Y PROVE \E c \in Y : q \in Parents(c)
    <3>1. PICK c \in S : q \in Parents(c)
      BY <1>3, <2>3
    <3>2. c # r
      BY <1>4, <2>3, <3>1
    <3>3. QED
      BY <3>1, <3>2
  <2>4. Y \in T
    BY <2>2, <2>3
  <2>5. <<Y, S>> \in R
    BY <1>3, <1>4, <2>4 DEF StrictSubsetOrdering
  <2>6. QED
    BY <1>3, <2>4, <2>5
<1>5. Closed(S)
  BY <1>4 DEF Closed
<1>6. QED
  BY <1>3, <1>5 DEF Cyclic

\* A set with one element has no other.
LEMMA OnlyOne ==
  ASSUME NEW S, IsFiniteSet(S), Cardinality(S) = 1, NEW x \in S, NEW y \in S
  PROVE  x = y
<1>1. IsFiniteSet(S \ {x}) /\ Cardinality(S \ {x}) = 1 - 1
  BY FS_RemoveElement
<1>2. S \ {x} = {}
  BY <1>1, FS_EmptySet
<1>3. QED
  BY <1>2

\* What is left out of a replay is no head, as the only one is replayed, and what
\* revises it is left out too, as a replay has the parents of all it has.
LEMMA NothingLeftOut ==
  ASSUME IsFiniteSet(Revisions), IInv, HeadFacts
  PROVE  AllReplayed
<1> SUFFICES ASSUME phase = "ordered" PROVE Replayed = Revisions
  BY DEF AllReplayed, Replayed
<1> DEFINE U == Revisions \ Replayed
<1>1. Replayed \subseteq Revisions
  BY ElementOfSeq, LenProperties DEF IInv, TypeOK, Replayed
<1>2. Heads \subseteq Revisions /\ IsFiniteSet(Heads) /\ IsFiniteSet(U)
  BY FS_Subset DEF Heads
<1>3. PICK head \in Heads : head \in Replayed
  BY DEF HeadFacts
<1>4. \A r \in Heads : r = head
  BY <1>2, OnlyOne DEF HeadFacts
<1>5. ASSUME NEW r \in U PROVE \E child \in U : r \in Parents(child)
  <2>1. r \notin Heads
    BY <1>3, <1>4
  <2>2. PICK child \in Revisions : r \in Parents(child)
    BY <2>1 DEF Heads
  <2>3. ASSUME child \in Replayed PROVE FALSE
    <3>1. PICK k \in DOMAIN ordered : ordered[k] = child
      BY <2>3 DEF Replayed
    <3>2. PICK j \in 1..(k - 1) : ordered[j] = r
      BY <2>2, <3>1 DEF IInv, ParentsFirst
    <3>3. k \in 1..Len(ordered) /\ Len(ordered) \in Nat /\ DOMAIN ordered = 1..Len(ordered)
      BY <3>1, LenProperties DEF IInv, TypeOK
    <3>4. j \in DOMAIN ordered
      BY <3>3
    <3>5. QED
      BY <3>2, <3>4 DEF Replayed
  <2>4. QED
    BY <2>2, <2>3
<1>6. ~Cyclic
  BY DEF IInv, CyclesAreFound
<1>7. U = {}
  <2> HIDE DEF U
  <2>1. U \in SUBSET Revisions
    BY DEF U
  <2>2. QED
    BY <1>2, <1>5, <1>6, <2>1, RevisedInCircle
<1>8. QED
  BY <1>1, <1>7

\* The order puts every revision after those it revises and leaves none out, however
\* many there are, and whatever upgrades are run in it.
THEOREM WholeReplay ==
  ASSUME IsFiniteSet(Revisions)
  PROVE  (Spec => []ReplayedInOrder) /\ (ReplaySpec => []ReplayedInOrder)
<1>1. IInv /\ HeadFacts => ReplayedInOrder
  BY NothingLeftOut DEF IInv, ReplayedInOrder
<1>2. Spec => []ReplayedInOrder
  BY <1>1, InitHolds, StepHolds, HeadInit, HeadStep, PTL DEF Spec
<1>3. ReplaySpec => []ReplayedInOrder
  BY <1>1, ReplayFollowsSearch, InitHolds, StepHolds, HeadInit, HeadStep, PTL
<1>4. QED
  BY <1>2, <1>3

(***************************************************************************)
(* The database                                                            *)
(***************************************************************************)

\* A table of the database; only one with rows has columns with old values.
IsRelation(r) ==
  /\ r = [columns |-> r.columns, required |-> r.required, old |-> r.old, aged |-> r.aged]
  /\ r.old # {} => r.aged

AreTables(T) ==
  /\ T = [t \in DOMAIN T |-> T[t]]
  /\ \A t \in DOMAIN T : IsRelation(T[t])

IsDatabase(db) ==
  /\ db = [tables |-> db.tables, constraints |-> db.constraints, indexes |-> db.indexes]
  /\ AreTables(db.tables)

\* Taking tables away leaves the others as they were.
LEMMA WithoutTable ==
  ASSUME NEW T, AreTables(T), NEW S
  PROVE  /\ AreTables(Without(T, S)) /\ DOMAIN Without(T, S) = DOMAIN T \ S
         /\ \A u \in DOMAIN T \ S : Without(T, S)[u] = T[u]
BY DEF AreTables, Without

\* Changing a table leaves the others as they were.
LEMMA AlterTable ==
  ASSUME NEW T, AreTables(T), NEW t \in DOMAIN T, NEW r, IsRelation(r)
  PROVE  LET U == [T EXCEPT ![t] = r] IN
         /\ AreTables(U) /\ DOMAIN U = DOMAIN T
         /\ U[t] = r /\ \A u \in DOMAIN T \ {t} : U[u] = T[u]
BY DEF AreTables

\* The operations of a statement.
Operations == {"create_table", "drop_table", "create_index", "rename_table", "add_column",
               "drop_column", "alter_column", "create_constraint", "drop_constraint",
               "drop_index"}

\* What a statement is made of.
LEMMA StatementOps ==
  ASSUME NEW s \in Statements
  PROVE  /\ s.op \in Operations
         /\ s.op # "drop_index" => s.table \in Tables
         /\ s.op = "rename_table" => s.to \in Tables
         /\ s.op = "alter_column" => s.change \in {"name", "type", "required", "nullable"}
         /\ s.op = "add_column" => s.required \in BOOLEAN
         /\ s.op = "create_table" => s.key \in {{"id"}, {"id", "x"}} /\ s.stated \in BOOLEAN /\ s.inline \in BOOLEAN
         /\ s.op = "drop_column" => s.column \in Columns
         /\ s.op = "create_constraint" => s.kind \in Kinds
BY DEF Statements, Operations

\* The tables a statement needs, and those it must not find.
LEMMA AcceptedTable ==
  ASSUME NEW s \in Statements, Accepted(s)
  PROVE  /\ s.op = "create_table" => ~Exists(s.table)
         /\ s.op \in {"drop_table", "rename_table", "add_column", "drop_column", "alter_column",
                      "create_constraint", "create_index"} => Exists(s.table)
         /\ s.op = "rename_table" => ~Exists(s.to)
<1>1. CASE s.op = "create_table"
  BY <1>1 DEF Accepted
<1>2. CASE s.op = "drop_table"
  BY <1>2 DEF Accepted
<1>3. CASE s.op = "rename_table"
  BY <1>3 DEF Accepted
<1>4. CASE s.op = "add_column"
  BY <1>4 DEF Accepted
<1>5. CASE s.op = "drop_column"
  BY <1>5 DEF Accepted, Has
<1>6. CASE s.op = "alter_column"
  BY <1>6 DEF Accepted, Has
<1>7. CASE s.op = "create_constraint"
  BY <1>7 DEF Accepted, Has
<1>8. CASE s.op = "create_index"
  BY <1>8 DEF Accepted, Has
<1>9. QED
  BY <1>1, <1>2, <1>3, <1>4, <1>5, <1>6, <1>7, <1>8, StatementOps DEF Operations

\* The table is older than the upgrade.
Older(db, t) == t \in DOMAIN db.tables /\ db.tables[t].aged

\* The operations that change the columns of one table of the database.
Describing == {"add_column", "drop_column", "alter_column", "create_constraint"}

\* A statement on columns leaves a table a table, as old as it was.
LEMMA DescribedRelation ==
  ASSUME NEW s, s.op \in Describing, s.op = "alter_column" => s.change \in {"name", "type", "required", "nullable"}, NEW r, IsRelation(r)
  PROVE  IsRelation(Described(s, r)) /\ Described(s, r).aged = r.aged
<1>1. CASE s.op = "add_column"
  BY <1>1 DEF Described, IsRelation
<1>2. CASE s.op = "drop_column"
  BY <1>2 DEF Described, IsRelation
<1>3. CASE s.op = "alter_column" /\ s.change = "name"
  BY <1>3 DEF Described, IsRelation, Renamed
<1>4. CASE s.op = "alter_column" /\ s.change = "required"
  BY <1>4 DEF Described, IsRelation
<1>5. CASE s.op = "alter_column" /\ s.change = "nullable"
  BY <1>5 DEF Described, IsRelation
<1>6. CASE s.op = "alter_column" /\ s.change = "type"
  BY <1>6 DEF Described, IsRelation
<1>7. CASE s.op = "create_constraint"
  BY <1>7 DEF Described, IsRelation
<1>8. QED
  BY <1>1, <1>2, <1>3, <1>4, <1>5, <1>6, <1>7 DEF Describing

\* In the database it changes that table alone.
LEMMA ExecutedDescription ==
  ASSUME NEW db, IsDatabase(db), NEW s \in Statements, s.op \in Describing, s.table \in DOMAIN db.tables
  PROVE  LET new == Executed(db, s) IN
         /\ new = [tables |-> new.tables, constraints |-> new.constraints, indexes |-> new.indexes]
         /\ new.tables = [db.tables EXCEPT ![s.table] = Described(s, db.tables[s.table])]
<1> DEFINE r == Described(s, db.tables[s.table])
<1>0. /\ db = [tables |-> db.tables, constraints |-> db.constraints, indexes |-> db.indexes]
      /\ db.tables = [t \in DOMAIN db.tables |-> db.tables[t]]
  BY DEF IsDatabase, AreTables
<1>1. CASE s.op = "add_column"
  BY <1>0, <1>1 DEF Executed
<1>2. CASE s.op = "drop_column"
  BY <1>0, <1>2 DEF Executed
<1>3. CASE s.op = "alter_column" /\ s.change = "name"
  BY <1>0, <1>3 DEF Executed
<1>4. CASE s.op = "alter_column" /\ s.change # "name"
  BY <1>0, <1>4 DEF Executed
<1>5. CASE s.op = "create_constraint"
  BY <1>0, <1>5 DEF Executed
<1>6. QED
  BY <1>1, <1>2, <1>3, <1>4, <1>5 DEF Describing

\* What the other statements do to the tables of the database.
LEMMA ExecutedOthers ==
  ASSUME NEW db, IsDatabase(db), NEW s \in Statements
  PROVE  LET new == Executed(db, s) IN
         /\ new = [tables |-> new.tables, constraints |-> new.constraints, indexes |-> new.indexes]
         /\ s.op = "create_table" => new.tables = Put(db.tables, s.table, Relation({"id", "x"}, s.key))
         /\ s.op = "drop_table" => new.tables = Without(db.tables, {s.table})
         /\ s.op = "rename_table" =>
              new.tables = Put(Without(db.tables, {s.table}), s.to, db.tables[s.table])
         /\ s.op \in {"create_index", "drop_index", "drop_constraint"} => new.tables = db.tables
<1>0. /\ db = [tables |-> db.tables, constraints |-> db.constraints, indexes |-> db.indexes]
      /\ db.tables = [t \in DOMAIN db.tables |-> db.tables[t]]
  BY DEF IsDatabase, AreTables
<1>1. CASE s.op = "create_table"
  BY <1>0, <1>1 DEF Executed
<1>2. CASE s.op = "drop_table"
  BY <1>0, <1>2 DEF Executed
<1>3. CASE s.op = "rename_table"
  BY <1>0, <1>3 DEF Executed
<1>4. CASE s.op = "create_index"
  BY <1>0, <1>4 DEF Executed
<1>5. CASE s.op = "drop_index"
  BY <1>0, <1>5 DEF Executed
<1>6. CASE s.op = "drop_constraint"
  BY <1>0, <1>6 DEF Executed
<1>7. CASE s.op \in Describing
  BY <1>0, <1>7, StatementOps DEF Executed, Describing
<1>8. QED
  BY <1>1, <1>2, <1>3, <1>4, <1>5, <1>6, <1>7, StatementOps DEF Operations, Describing


\* No statement makes a table older, but a name may become an older one's.
LEMMA ExecutedTables ==
  ASSUME IsDatabase(database), NEW s \in Statements, Accepted(s)
  PROVE  LET new == Executed(database, s) IN
         /\ IsDatabase(new)
         /\ \A t \in DOMAIN database.tables :
              t \in DOMAIN new.tables \/ (s.op \in {"drop_table", "rename_table"} /\ t = s.table)
         /\ \A t : Older(new, t) => Older(database, t) \/ (s.op = "rename_table" /\ t = s.to)
<1> DEFINE new == Executed(database, s)
           T == database.tables
<1>1. AreTables(T)
  BY DEF IsDatabase
<1>2. new = [tables |-> new.tables, constraints |-> new.constraints, indexes |-> new.indexes]
  BY ExecutedOthers
<1>3. SUFFICES
        /\ AreTables(new.tables)
        /\ \A t \in DOMAIN T :
             t \in DOMAIN new.tables \/ (s.op \in {"drop_table", "rename_table"} /\ t = s.table)
        /\ \A t \in DOMAIN new.tables :
             \/ t \in DOMAIN T /\ new.tables[t].aged = T[t].aged
             \/ ~new.tables[t].aged \/ (s.op = "rename_table" /\ t = s.to)
  BY <1>2 DEF IsDatabase, Older
<1>4. CASE s.op = "create_table"
  <2> DEFINE r == Relation({"id", "x"}, s.key)
             N == new.tables
  <2>1. N = Put(T, s.table, r) /\ s.table \notin DOMAIN T
    BY <1>4, ExecutedOthers, AcceptedTable DEF Exists
  <2>2. IsRelation(r) /\ ~r.aged
    BY DEF IsRelation, Relation
  <2>3. s.op # "rename_table"
    BY <1>4
  <2> HIDE DEF N, T, r
  <2>4. /\ AreTables(N) /\ DOMAIN N = DOMAIN T \cup {s.table}
        /\ N[s.table] = r /\ \A u \in DOMAIN T \ {s.table} : N[u] = T[u]
    BY <1>1, <2>1, <2>2 DEF AreTables, Put
  <2>5. \A t \in DOMAIN N : (t \in DOMAIN T /\ N[t].aged = T[t].aged) \/ ~N[t].aged
    BY <2>1, <2>2, <2>4
  <2>6. QED
    BY <2>4, <2>5 DEF N
<1>5. CASE s.op = "drop_table"
  <2> DEFINE N == new.tables
  <2>1. N = Without(T, {s.table})
    BY <1>5, ExecutedOthers
  <2> HIDE DEF N, T
  <2>2. /\ AreTables(N) /\ DOMAIN N = DOMAIN T \ {s.table}
        /\ \A u \in DOMAIN T \ {s.table} : N[u] = T[u]
    BY <1>1, <2>1, WithoutTable
  <2>3. /\ \A t \in DOMAIN T : t \in DOMAIN N \/ t = s.table
        /\ \A t \in DOMAIN N : t \in DOMAIN T /\ N[t].aged = T[t].aged
    BY <2>2
  <2>4. QED
    BY <1>5, <2>2, <2>3 DEF N
<1>6. CASE s.op = "rename_table"
  <2> DEFINE U == Without(T, {s.table})
             N == new.tables
             r == T[s.table]
  <2>1. N = Put(U, s.to, r) /\ s.table \in DOMAIN T
    BY <1>6, ExecutedOthers, AcceptedTable DEF Exists
  <2> HIDE DEF N, T
  <2>2. AreTables(U) /\ DOMAIN U = DOMAIN T \ {s.table} /\ \A u \in DOMAIN U : U[u] = T[u]
    BY <1>1, WithoutTable
  <2>3. IsRelation(r)
    BY <1>1, <2>1 DEF AreTables
  <2> HIDE DEF U, r
  <2>4. /\ AreTables(N) /\ DOMAIN N = DOMAIN U \cup {s.to}
        /\ \A u \in DOMAIN U \ {s.to} : N[u] = U[u]
    BY <2>1, <2>2, <2>3 DEF AreTables, Put
  <2>5. /\ \A t \in DOMAIN T : t \in DOMAIN N \/ t = s.table
        /\ \A t \in DOMAIN N : (t \in DOMAIN T /\ N[t].aged = T[t].aged) \/ t = s.to
    BY <2>2, <2>4
  <2>6. QED
    BY <1>6, <2>4, <2>5 DEF N
<1>7. CASE s.op \in Describing
  <2> DEFINE r == Described(s, T[s.table])
  <2>1. s.table \in DOMAIN T
    BY <1>7, AcceptedTable DEF Exists, Describing
  <2>2. new.tables = [T EXCEPT ![s.table] = r]
    BY <1>7, <2>1, ExecutedDescription
  <2>3. IsRelation(r) /\ r.aged = T[s.table].aged
    BY <1>1, <1>7, <2>1, DescribedRelation, StatementOps DEF AreTables
  <2> HIDE DEF new, T, r
  <2>4. QED
    BY <1>1, <2>1, <2>2, <2>3, AlterTable
<1>8. CASE s.op \in {"create_index", "drop_index", "drop_constraint"}
  <2>1. new.tables = T
    BY <1>8, ExecutedOthers
  <2> HIDE DEF new
  <2>2. QED
    BY <1>1, <2>1
<1>9. QED
  BY <1>4, <1>5, <1>6, <1>7, <1>8, StatementOps DEF Operations, Describing

(***************************************************************************)
(* The risks                                                               *)
(***************************************************************************)

\* A statement, where it stands and whether it runs.
Entries == [s : Statements, place : Places, runs : BOOLEAN]

\* The upgrade has freed the name of the table.
Freed(t) ==
  \E k \in DOMAIN upgrade :
    upgrade[k].s.op \in {"drop_table", "rename_table"} /\ upgrade[k].s.table = t

\* What an effect is known by: its statement's risk, its table, which is there until its
\* name is freed, and the excuse there is for it if the upgrade creates a table of that name.
Told(e) ==
  /\ e.at \in DOMAIN upgrade
  /\ e.kind \in Category(upgrade[e.at]) \/ Unrecognized(upgrade[e.at])
  /\ upgrade[e.at].s.op = "drop_table"
       \/ Exists(upgrade[e.at].s.table) \/ Freed(upgrade[e.at].s.table)
  /\ upgrade[e.at].s.table \in CreatedTables =>
       upgrade[e.at].s.op = "drop_table" \/ Shared(upgrade[e.at].s.table)

\* The inductive invariant for the risks: of a name the upgrade creates there is a table
\* without older rows, unless two tables share the name.
RiskInv ==
  /\ upgrade \in Seq(Entries)
  /\ IsDatabase(database)
  /\ \A t \in CreatedTables : (Exists(t) /\ ~Aged(t)) \/ Shared(t)
  /\ \A e \in effects : Told(e)

\* The upgrade with a statement more.
LEMMA Appended ==
  ASSUME upgrade \in Seq(Entries), NEW e \in Entries, upgrade' = Append(upgrade, e)
  PROVE  /\ upgrade' \in Seq(Entries)
         /\ DOMAIN upgrade' = DOMAIN upgrade \cup {Len(upgrade) + 1}
         /\ \A k \in DOMAIN upgrade : upgrade'[k] = upgrade[k] /\ k # Len(upgrade) + 1
         /\ upgrade'[Len(upgrade) + 1] = e
  OBVIOUS

\* What is created, freed or shared stays so.
LEMMA AppendedSeen ==
  ASSUME upgrade \in Seq(Entries), NEW e \in Entries, upgrade' = Append(upgrade, e)
  PROVE  /\ CreatedTables \subseteq CreatedTables'
         /\ \A t \in CreatedTables' : t \in CreatedTables \/ (e.s.op = "create_table" /\ t = e.s.table)
         /\ \A t : Freed(t) => Freed(t)'
         /\ e.s.op \in {"drop_table", "rename_table"} => Freed(e.s.table)'
         /\ \A t \in CreatedTables' : Freed(t)' => Shared(t)'
         /\ \A t : Shared(t) => Shared(t)'
         /\ e.s.op = "create_table" /\ ~e.runs /\ e.s.table \in CreatedTables' => Shared(e.s.table)'
<1> DEFINE n == Len(upgrade) + 1
<1>1. /\ DOMAIN upgrade' = DOMAIN upgrade \cup {n}
      /\ \A k \in DOMAIN upgrade : upgrade'[k] = upgrade[k]
      /\ upgrade'[n] = e
  BY Appended
<1> HIDE DEF n
<1>2. Seen' \subseteq Seen \cup {n} /\ Seen \subseteq Seen' /\ Seen \subseteq DOMAIN upgrade
  BY <1>1 DEF Seen
<1>3. CreatedTables \subseteq CreatedTables'
  BY <1>1, <1>2 DEF CreatedTables
<1>4. \A t \in CreatedTables' : t \in CreatedTables \/ (e.s.op = "create_table" /\ t = e.s.table)
  BY <1>1, <1>2 DEF CreatedTables
<1>5. \A t : Freed(t) => Freed(t)'
  BY <1>1 DEF Freed
<1>6. e.s.op \in {"drop_table", "rename_table"} => Freed(e.s.table)'
  BY <1>1 DEF Freed
<1>7. \A t \in CreatedTables' : Freed(t)' => Shared(t)'
  BY <1>1 DEF Freed, Shared
<1>8. \A t : Shared(t) => Shared(t)'
  BY <1>1, <1>3 DEF Shared
<1>9. e.s.op = "create_table" /\ ~e.runs /\ e.s.table \in CreatedTables' => Shared(e.s.table)'
  BY <1>1 DEF Shared
<1>10. QED
  BY <1>3, <1>4, <1>5, <1>6, <1>7, <1>8, <1>9

\* A table is there until a statement frees its name, and a table made or renamed is not
\* older than it was.
LEMMA StaysUntilFreed ==
  ASSUME IsDatabase(database), upgrade \in Seq(Entries), NEW e \in Entries,
         upgrade' = Append(upgrade, e), e.runs => Accepted(e.s),
         database' = IF e.runs THEN Executed(database, e.s) ELSE database, NEW t
  PROVE  /\ Exists(t) => Exists(t)' \/ Freed(t)'
         /\ Exists(t) /\ ~Aged(t) => (Exists(t)' /\ ~Aged(t)') \/ Freed(t)'
<1>1. CASE ~e.runs
  <2>1. database' = database
    BY <1>1
  <2>2. Exists(t)' = Exists(t) /\ Aged(t)' = Aged(t)
    BY <2>1 DEF Exists, Aged
  <2>3. QED
    BY <2>2
<1>2. CASE e.runs
  <2>1. e.s \in Statements /\ Accepted(e.s) /\ database' = Executed(database, e.s)
    BY <1>2 DEF Entries
  <2>2. Exists(t) => Exists(t)' \/ (e.s.op \in {"drop_table", "rename_table"} /\ t = e.s.table)
    BY <2>1, ExecutedTables DEF Exists
  <2>3. Aged(t)' /\ Exists(t) => Aged(t) \/ (e.s.op = "rename_table" /\ t = e.s.to)
    BY <2>1, ExecutedTables DEF Aged, Exists, Older
  <2>4. e.s.op = "rename_table" => ~Exists(e.s.to)
    BY <2>1, AcceptedTable, StatementOps DEF Accepted
  <2>5. QED
    BY <2>2, <2>3, <2>4, AppendedSeen
<1>3. QED
  BY <1>1, <1>2 DEF Entries

\* Effects are risks assess_migration knows, or ones it does not recognize, on tables that
\* have rows.
LEMMA EffectOf ==
  ASSUME IsDatabase(database), NEW e \in Entries, Accepted(e.s), NEW c \in Effect(e.s)
  PROVE  /\ c \in Category(e) \/ Unrecognized(e)
         /\ Aged(e.s.table)
         /\ e.s.op \in {"drop_table", "drop_column", "create_constraint", "add_column",
                        "alter_column", "create_index"}
<1> DEFINE s == e.s
<1>0. s \in Statements /\ e.place \in Places
  BY DEF Entries
<1>1. CASE c = "destructive" /\ s.op = "drop_table" /\ Aged(s.table)
  BY <1>1 DEF Category
<1>2. CASE c = "destructive" /\ s.op = "drop_column" /\ s.column \in database.tables[s.table].old
  <2>1. s.table \in DOMAIN database.tables
    BY <1>0, <1>2, AcceptedTable DEF Exists
  <2>2. database.tables[s.table].aged
    BY <1>2, <2>1 DEF IsDatabase, AreTables, IsRelation
  <2>3. QED
    BY <1>2, <2>1, <2>2 DEF Aged, Exists, Category
<1>3. CASE c = "constraint" /\ Validates(s)
  <2>1. CASE s.op = "create_constraint"
    BY <1>3, <2>1 DEF Validates, Category, Unrecognized
  <2>2. CASE s.op = "add_column" /\ s.required
    BY <1>3, <2>2 DEF Validates, Category, Unrecognized
  <2>3. CASE s.op = "alter_column" /\ s.change = "required"
    BY <1>3, <2>3 DEF Validates, Unrecognized
  <2>4. QED
    BY <1>3, <2>1, <2>2, <2>3 DEF Validates
<1>4. CASE c = "type_change" /\ s.op = "alter_column" /\ s.change = "type" /\ Aged(s.table)
  BY <1>4 DEF Category
<1>5. CASE c = "index" /\ s.op = "create_index" /\ Aged(s.table)
  BY <1>5 DEF Category
<1>6. QED
  BY <1>1, <1>2, <1>3, <1>4, <1>5 DEF Effect, Destroys

\* A statement tells of its own effects, and leaves the others told of.
LEMMA RunStatementKeepsRisks == RiskInv /\ RunStatement => RiskInv'
<1> SUFFICES ASSUME RiskInv, RunStatement PROVE RiskInv'
  OBVIOUS
<1>1. PICK s \in Statements, place \in Places, runs \in BOOLEAN :
        /\ Accepted(s) \/ (~runs /\ s.op = "create_table")
        /\ upgrade' = Append(upgrade, [s |-> s, place |-> place, runs |-> runs])
        /\ database' = IF runs THEN Executed(database, s) ELSE database
        /\ effects' = effects \cup
             {[at |-> Len(upgrade) + 1, kind |-> c] : c \in IF runs THEN Effect(s) ELSE {}}
  BY DEF RunStatement
<1> DEFINE e == [s |-> s, place |-> place, runs |-> runs]
           n == Len(upgrade) + 1
<1>2. /\ e \in Entries /\ e.s = s /\ e.runs = runs /\ upgrade' = Append(upgrade, e)
      /\ e.runs => Accepted(e.s)
      /\ database' = IF e.runs THEN Executed(database, e.s) ELSE database
  BY <1>1 DEF Entries
<1>3. upgrade \in Seq(Entries) /\ IsDatabase(database)
  BY DEF RiskInv
<1>4. /\ upgrade' \in Seq(Entries) /\ n \in DOMAIN upgrade' /\ upgrade'[n] = e
      /\ \A k \in DOMAIN upgrade : k \in DOMAIN upgrade' /\ upgrade'[k] = upgrade[k]
  BY <1>2, <1>3, Appended
<1>5. IsDatabase(database')
  BY <1>1, <1>3, ExecutedTables
<1>6. \A x \in effects' : x \in effects \/ (runs /\ x.at = n /\ x.kind \in Effect(s))
  BY <1>1
<1> HIDE DEF e, n
<1>7. ASSUME NEW t \in CreatedTables'
      PROVE  (Exists(t)' /\ ~Aged(t)') \/ Shared(t)'
  <2>1. CASE t \in CreatedTables
    <3>1. CASE Shared(t)
      BY <1>2, <1>3, <3>1, AppendedSeen
    <3>2. CASE Exists(t) /\ ~Aged(t)
      <4>1. (Exists(t)' /\ ~Aged(t)') \/ Freed(t)'
        BY <1>2, <1>3, <3>2, StaysUntilFreed
      <4>2. QED
        BY <1>2, <1>3, <1>7, <4>1, AppendedSeen
    <3>3. QED
      BY <2>1, <3>1, <3>2 DEF RiskInv
  <2>2. CASE t \notin CreatedTables
    <3>1. s.op = "create_table" /\ t = s.table
      BY <1>2, <1>3, <1>7, <2>2, AppendedSeen
    <3>2. CASE ~runs
      BY <1>2, <1>3, <1>7, <3>1, <3>2, AppendedSeen
    <3>3. CASE runs
      <4>1. Accepted(s) /\ ~Exists(t) /\ database' = Executed(database, s)
        BY <1>1, <3>1, <3>3, AcceptedTable
      <4>2. Exists(t)'
        <5>1. Executed(database, s).tables = Put(database.tables, s.table, Relation({"id", "x"}, s.key))
          BY <1>3, <3>1, ExecutedOthers DEF IsDatabase
        <5>2. QED
          BY <3>1, <4>1, <5>1 DEF Exists, Put
      <4>3. ~Aged(t)'
        BY <1>3, <3>1, <4>1, ExecutedTables DEF Aged, Exists, Older
      <4>4. QED
        BY <4>2, <4>3
    <3>4. QED
      BY <3>2, <3>3
  <2>3. QED
    BY <2>1, <2>2
<1>8. ASSUME NEW x \in effects
      PROVE  Told(x)'
  <2>1. Told(x)
    BY <1>8 DEF RiskInv
  <2>0. PICK w : w = upgrade[x.at]
    OBVIOUS
  <2>8. PICK t : t = w.s.table
    OBVIOUS
  <2>2. x.at \in DOMAIN upgrade' /\ upgrade'[x.at] = w
    BY <1>4, <2>0, <2>1 DEF Told
  <2>3. /\ x.kind \in Category(w) \/ Unrecognized(w)
        /\ w.s.op = "drop_table" \/ Exists(t) \/ Freed(t)
        /\ t \in CreatedTables => w.s.op = "drop_table" \/ Shared(t)
    BY <2>0, <2>8, <2>1 DEF Told
  <2>4. w.s.op = "drop_table" \/ Exists(t)' \/ Freed(t)'
    BY <1>2, <1>3, <2>3, AppendedSeen, StaysUntilFreed
  <2>5. ASSUME t \in CreatedTables', w.s.op # "drop_table" PROVE Shared(t)'
    <3>1. CASE t \in CreatedTables
      BY <1>2, <1>3, <2>3, <2>5, <3>1, AppendedSeen
    <3>2. CASE t \notin CreatedTables
      <4>1. s.op = "create_table" /\ t = s.table
        BY <1>2, <1>3, <2>5, <3>2, AppendedSeen
      <4>2. CASE ~runs
        BY <1>2, <1>3, <2>5, <4>1, <4>2, AppendedSeen
      <4>3. CASE runs
        <5>1. ~Exists(t)
          BY <1>1, <4>1, <4>3, AcceptedTable
        <5>2. Freed(t)'
          BY <1>2, <1>3, <2>3, <2>5, <5>1, AppendedSeen
        <5>3. QED
          BY <1>2, <1>3, <2>5, <5>2, AppendedSeen
      <4>4. QED
        BY <4>2, <4>3
    <3>3. QED
      BY <3>1, <3>2
  <2>6. /\ x.kind \in Category(upgrade'[x.at]) \/ Unrecognized(upgrade'[x.at])
        /\ upgrade'[x.at].s.table = t /\ upgrade'[x.at].s.op = w.s.op
    BY <2>2, <2>3, <2>8
  <2>7. QED
    BY <2>2, <2>4, <2>5, <2>6 DEF Told
<1>9. ASSUME NEW x \in effects', runs, x.at = n, x.kind \in Effect(s)
      PROVE  Told(x)'
  <2>1. /\ x.kind \in Category(e) \/ Unrecognized(e)
        /\ Aged(s.table)
        /\ s.op \in {"drop_table", "drop_column", "create_constraint", "add_column",
                     "alter_column", "create_index"}
    BY <1>1, <1>2, <1>3, <1>9, EffectOf
  <2>2. Exists(s.table)
    BY <2>1 DEF Aged
  <2>3. Exists(s.table)' \/ Freed(s.table)'
    BY <1>2, <1>3, <2>2, StaysUntilFreed
  <2>4. s.table \in CreatedTables' => Shared(s.table)'
    <3>1. s.table \in CreatedTables' => s.table \in CreatedTables
      BY <1>2, <1>3, <2>1, AppendedSeen
    <3>2. s.table \in CreatedTables => Shared(s.table)
      BY <2>1 DEF RiskInv
    <3>3. QED
      BY <1>2, <1>3, <3>1, <3>2, AppendedSeen
  <2>5. x.at \in DOMAIN upgrade' /\ upgrade'[x.at] = e
    BY <1>4, <1>9
  <2>6. /\ x.kind \in Category(upgrade'[x.at]) \/ Unrecognized(upgrade'[x.at])
        /\ upgrade'[x.at].s.table = s.table
    BY <1>2, <2>1, <2>5
  <2>7. QED
    BY <2>3, <2>4, <2>5, <2>6 DEF Told
<1>10. \A x \in effects' : Told(x)'
  BY <1>6, <1>8, <1>9
<1>11. QED
  BY <1>4, <1>5, <1>7, <1>10 DEF RiskInv

\* With the next revision every row there is becomes older than the upgrade.
LEMMA AgedDatabase ==
  ASSUME IsDatabase(database), NextRevision
  PROVE  /\ IsDatabase(database')
         /\ database'.constraints = database.constraints /\ database'.indexes = database.indexes
         /\ DOMAIN database'.tables = DOMAIN database.tables
         /\ \A t \in DOMAIN database.tables :
              /\ database'.tables[t].columns = database.tables[t].columns
              /\ database'.tables[t].required = database.tables[t].required
<1> DEFINE aged(t) == [database.tables[t] EXCEPT !.old = database.tables[t].columns, !.aged = TRUE]
           T == [t \in DOMAIN database.tables |-> aged(t)]
<1>1. database' = [tables |-> T, constraints |-> database.constraints, indexes |-> database.indexes]
  BY DEF NextRevision, IsDatabase
<1>2. ASSUME NEW t \in DOMAIN database.tables
      PROVE  /\ IsRelation(aged(t)) /\ aged(t).columns = database.tables[t].columns
             /\ aged(t).required = database.tables[t].required
  <2> DEFINE r == database.tables[t]
  <2>1. r = [columns |-> r.columns, required |-> r.required, old |-> r.old, aged |-> r.aged]
    BY DEF IsDatabase, AreTables, IsRelation
  <2>2. aged(t) = [r EXCEPT !.old = r.columns, !.aged = TRUE]
    OBVIOUS
  <2> HIDE DEF aged, r
  <2>3. IsRelation(aged(t)) /\ aged(t).columns = r.columns /\ aged(t).required = r.required
    BY <2>1, <2>2 DEF IsRelation
  <2>4. QED
    BY <2>3 DEF r
<1> HIDE DEF aged
<1>3. AreTables(T)
  BY <1>2 DEF AreTables
<1>4. DOMAIN T = DOMAIN database.tables /\ \A t \in DOMAIN T : T[t] = aged(t)
  OBVIOUS
<1> HIDE DEF T
<1>5. IsDatabase(database') /\ database'.tables = T
  BY <1>1, <1>3 DEF IsDatabase
<1>6. QED
  BY <1>1, <1>2, <1>4, <1>5

\* The next upgrade starts with nothing to tell.
LEMMA NextRevisionKeepsRisks == RiskInv /\ NextRevision => RiskInv'
<1> SUFFICES ASSUME RiskInv, NextRevision PROVE RiskInv'
  OBVIOUS
<1>1. upgrade' = <<>> /\ effects' = {}
  BY DEF NextRevision
<1>2. upgrade' \in Seq(Entries) /\ CreatedTables' = {} /\ effects' = {}
  <2>1. Seen' = {}
    BY <1>1 DEF Seen
  <2>2. QED
    BY <1>1, <2>1 DEF CreatedTables
<1>3. IsDatabase(database')
  BY AgedDatabase DEF RiskInv
<1>4. QED
  BY <1>2, <1>3 DEF RiskInv

\* The first state has no upgrade.
LEMMA RisksInit == ReplayInit => RiskInv
<1> SUFFICES ASSUME ReplayInit PROVE RiskInv
  OBVIOUS
<1>1. upgrade \in Seq(Entries) /\ CreatedTables = {} /\ effects = {}
  BY DEF ReplayInit, CreatedTables, Seen
<1>2. IsDatabase(database)
  BY DEF ReplayInit, IsDatabase, AreTables
<1>3. QED
  BY <1>1, <1>2 DEF RiskInv

\* The search of the graph changes nothing of this.
LEMMA RisksStutter == RiskInv /\ UNCHANGED replayVars => RiskInv'
<1> SUFFICES ASSUME RiskInv, UNCHANGED replayVars PROVE RiskInv'
  OBVIOUS
<1>1. upgrade' = upgrade /\ database' = database /\ effects' = effects
  BY DEF replayVars
<1>2. /\ CreatedTables' = CreatedTables
      /\ \A t : Aged(t)' = Aged(t) /\ Exists(t)' = Exists(t) /\ Shared(t)' = Shared(t)
      /\ \A e : Told(e)' = Told(e)
  BY <1>1 DEF CreatedTables, Seen, Aged, Exists, Told, Freed, Shared
<1>3. QED
  BY <1>1, <1>2 DEF RiskInv

\* What is told of is in the report.
LEMMA ToldIsReported == RiskInv => RisksAreReported
<1> SUFFICES ASSUME RiskInv, NEW e \in effects
             PROVE  LET written == upgrade[e.at] IN
                      \/ e.kind \in RisksOf(e.at) \/ e.at \notin Seen
                      \/ Unrecognized(written)
                      \/ written.s.op # "drop_table" /\ Shared(written.s.table)
  BY DEF RisksAreReported
<1>1. Told(e)
  BY DEF RiskInv
<1>2. CASE Suppressed(upgrade[e.at])
  BY <1>1, <1>2 DEF Told, Suppressed
<1>3. CASE e.at \in Seen /\ ~Suppressed(upgrade[e.at])
  BY <1>1, <1>3 DEF Told, RisksOf, Reported
<1>4. QED
  BY <1>2, <1>3

\* Every statement that destroys, validates, rewrites or locks what is older than its upgrade
\* is reported with its risk, or one of the named excuses holds (assess_migration).
THEOREM RisksReported == ReplaySpec => []RisksAreReported
<1>1. RiskInv /\ [ReplayNext]_<<vars, replayVars>> => RiskInv'
  BY RunStatementKeepsRisks, NextRevisionKeepsRisks, RisksStutter DEF ReplayNext
<1>2. QED
  BY RisksInit, <1>1, ToldIsReported, PTL DEF ReplaySpec

(***************************************************************************)
(* The schema                                                              *)
(***************************************************************************)

IsFunction(f) == f = [n \in DOMAIN f |-> f[n]]
IsDescription(q) == q = [columns |-> q.columns, required |-> q.required]

\* The replayed schema has the fields of SchemaState.
IsSchema(r) ==
  /\ r = [tables |-> r.tables, constraints |-> r.constraints, indexes |-> r.indexes,
          unsupported |-> r.unsupported]
  /\ IsFunction(r.tables)
  /\ \A t \in DOMAIN r.tables : IsDescription(r.tables[t])

\* What _apply makes of a table it knows.
Redescribed(s, q) ==
  CASE s.op = "add_column" ->
         [columns |-> q.columns \cup {"y"},
          required |-> (q.required \ {"y"}) \cup {c \in {"y"} : s.required}]
    [] s.op = "drop_column" ->
         [columns |-> q.columns \ {s.column}, required |-> q.required \ {s.column}]
    [] s.op = "alter_column" /\ "x" \in q.columns /\ s.change = "name" ->
         [columns |-> Renamed(q.columns, "x", "y"), required |-> Renamed(q.required \ {"y"}, "x", "y")]
    [] s.op = "alter_column" /\ "x" \in q.columns /\ s.change = "required" ->
         [columns |-> q.columns, required |-> q.required \cup {"x"}]
    [] s.op = "alter_column" /\ "x" \in q.columns /\ s.change = "nullable" ->
         [columns |-> q.columns, required |-> q.required \ {"x"}]
    [] OTHER -> q

\* The operations with which _apply changes one table.
OfColumns == {"add_column", "drop_column", "alter_column"}

\* _apply on columns changes one table, if it knows it.
LEMMA AppliedColumns ==
  ASSUME NEW r, IsSchema(r), NEW s \in Statements, s.op \in OfColumns
  PROVE  LET new == Applied(r, s) IN
         /\ new = [tables |-> new.tables, constraints |-> r.constraints, indexes |-> r.indexes,
                   unsupported |-> new.unsupported]
         /\ new.unsupported = r.unsupported \/ new.unsupported = TRUE
         /\ s.table \notin DOMAIN r.tables => new.tables = r.tables
         /\ s.table \in DOMAIN r.tables =>
              new.tables = [r.tables EXCEPT ![s.table] = Redescribed(s, r.tables[s.table])]
<1>0. /\ r = [tables |-> r.tables, constraints |-> r.constraints, indexes |-> r.indexes,
              unsupported |-> r.unsupported]
      /\ r.tables = [t \in DOMAIN r.tables |-> r.tables[t]]
  BY DEF IsSchema, IsFunction
<1>1. CASE s.op = "add_column"
  BY <1>0, <1>1 DEF Applied, AddColumn, Known, Redescribed
<1>2. CASE s.op = "drop_column"
  BY <1>0, <1>2 DEF Applied, DropColumn, Known, Redescribed
<1>3. CASE s.op = "alter_column"
  <2>0. Applied(r, s) = AlterColumn(r, s)
    BY <1>3 DEF Applied
  <2>1. CASE s.table \notin DOMAIN r.tables
    BY <1>0, <2>0, <2>1 DEF AlterColumn, Known
  <2>2. CASE s.table \in DOMAIN r.tables /\ "x" \notin r.tables[s.table].columns
    <3>1. Redescribed(s, r.tables[s.table]) = r.tables[s.table]
      BY <1>3, <2>2 DEF Redescribed
    <3>2. Applied(r, s) = r
      BY <2>0, <2>2 DEF AlterColumn, Known
    <3>3. QED
      BY <1>0, <2>2, <3>1, <3>2
  <2>3. CASE s.table \in DOMAIN r.tables /\ "x" \in r.tables[s.table].columns
    <3> DEFINE q == r.tables[s.table]
    <3>1. CASE s.change = "name"
      BY <1>0, <1>3, <2>0, <2>3, <3>1 DEF AlterColumn, Known, Redescribed
    <3>2. CASE s.change = "required"
      BY <1>0, <1>3, <2>0, <2>3, <3>2 DEF AlterColumn, Known, Redescribed
    <3>3. CASE s.change = "nullable"
      BY <1>0, <1>3, <2>0, <2>3, <3>3 DEF AlterColumn, Known, Redescribed
    <3>4. CASE s.change = "type"
      <4>1. Redescribed(s, q) = q
        BY <1>3, <3>4 DEF Redescribed
      <4>2. Applied(r, s) = r
        BY <2>0, <3>4 DEF AlterColumn
      <4>3. QED
        BY <1>0, <2>3, <4>1, <4>2
    <3>5. QED
      BY <1>3, <3>1, <3>2, <3>3, <3>4, StatementOps
  <2>4. QED
    BY <2>1, <2>2, <2>3
<1>4. QED
  BY <1>1, <1>2, <1>3 DEF OfColumns

\* What _apply makes of the tables for the other statements.
LEMMA AppliedOthers ==
  ASSUME NEW r, IsSchema(r), NEW s \in Statements, s.op \notin OfColumns
  PROVE  LET new == Applied(r, s) IN
         /\ new = [tables |-> new.tables, constraints |-> new.constraints, indexes |-> new.indexes,
                   unsupported |-> r.unsupported]
         /\ s.op = "create_table" =>
              new.tables = Put(r.tables, s.table, [columns |-> {"id", "x"}, required |-> {c \in s.key : s.stated}])
         /\ s.op = "drop_table" => new.tables = Without(r.tables, {s.table})
         /\ s.op = "rename_table" =>
              new.tables = IF s.table \in DOMAIN r.tables
                             THEN Put(Without(r.tables, {s.table}), s.to, r.tables[s.table])
                             ELSE r.tables
         /\ s.op \notin {"create_table", "drop_table", "rename_table"} => new.tables = r.tables
<1>0. r = [tables |-> r.tables, constraints |-> r.constraints, indexes |-> r.indexes,
           unsupported |-> r.unsupported]
  BY DEF IsSchema
<1>1. CASE s.op = "create_table"
  BY <1>0, <1>1 DEF Applied, CreateTable
<1>2. CASE s.op = "drop_table"
  BY <1>0, <1>2 DEF Applied, DropTable
<1>3. CASE s.op = "rename_table"
  BY <1>0, <1>3 DEF Applied, RenamedTable, Known
<1>4. CASE s.op = "create_constraint"
  BY <1>0, <1>4 DEF Applied, CreateConstraint
<1>5. CASE s.op = "drop_constraint"
  BY <1>0, <1>5 DEF Applied
<1>6. CASE s.op = "create_index"
  BY <1>0, <1>6 DEF Applied
<1>7. CASE s.op = "drop_index"
  BY <1>0, <1>7 DEF Applied
<1>8. QED
  BY <1>1, <1>2, <1>3, <1>4, <1>5, <1>6, <1>7, StatementOps DEF Operations, OfColumns

\* What _apply makes of the constraints and indexes.
LEMMA AppliedConstraints ==
  ASSUME NEW r, IsSchema(r), NEW s \in Statements, s.op \notin OfColumns
  PROVE  LET new == Applied(r, s) IN
         /\ s.op = "create_table" =>
              new.constraints = Put(r.constraints, ReplayedKey(s.table),
                Constraint("primary", s.table, IF "x" \in s.key THEN {"x"} ELSE {"id"}, NoTable))
         /\ s.op = "drop_table" => new.constraints = Without(r.constraints, On(r.constraints, s.table))
         /\ s.op = "create_constraint" =>
              new.constraints = Put(r.constraints, K,
                Constraint(s.kind, s.table, IF s.kind = "check" THEN {} ELSE {"x"},
                           IF s.kind = "foreign" THEN Target(s.table) ELSE NoTable))
         /\ s.op = "drop_constraint" => new.constraints = Without(r.constraints, {s.name})
         /\ s.op \notin {"create_table", "drop_table", "create_constraint", "drop_constraint"} =>
              new.constraints = r.constraints
         /\ s.op = "drop_table" => new.indexes = Without(r.indexes, On(r.indexes, s.table))
         /\ s.op = "create_index" =>
              new.indexes = Put(r.indexes, I, Constraint("index", s.table, {"x"}, NoTable))
         /\ s.op = "drop_index" => new.indexes = Without(r.indexes, {I})
         /\ s.op \notin {"drop_table", "create_index", "drop_index"} => new.indexes = r.indexes
<1>0. r = [tables |-> r.tables, constraints |-> r.constraints, indexes |-> r.indexes,
           unsupported |-> r.unsupported]
  BY DEF IsSchema
<1>1. CASE s.op = "create_table"
  BY <1>0, <1>1 DEF Applied, CreateTable
<1>2. CASE s.op = "drop_table"
  BY <1>0, <1>2 DEF Applied, DropTable
<1>3. CASE s.op = "rename_table"
  BY <1>0, <1>3 DEF Applied, RenamedTable, Known
<1>4. CASE s.op = "create_constraint"
  BY <1>0, <1>4 DEF Applied, CreateConstraint
<1>5. CASE s.op = "drop_constraint"
  BY <1>0, <1>5 DEF Applied
<1>6. CASE s.op = "create_index"
  BY <1>0, <1>6 DEF Applied
<1>7. CASE s.op = "drop_index"
  BY <1>0, <1>7 DEF Applied
<1>8. QED
  BY <1>1, <1>2, <1>3, <1>4, <1>5, <1>6, <1>7, StatementOps DEF Operations, OfColumns

\* _apply leaves a schema a schema.
LEMMA AppliedSchema ==
  ASSUME NEW r, IsSchema(r), NEW s \in Statements
  PROVE  IsSchema(Applied(r, s))
<1> DEFINE new == Applied(r, s)
           R == r.tables
           N == new.tables
<1>0. /\ IsFunction(R)
      /\ \A t \in DOMAIN R : IsDescription(R[t])
  BY DEF IsSchema
<1>1. ASSUME s.op \in OfColumns PROVE IsSchema(new)
  <2>1. /\ new = [tables |-> N, constraints |-> r.constraints, indexes |-> r.indexes,
                  unsupported |-> new.unsupported]
        /\ N = R \/ (s.table \in DOMAIN R /\ N = [R EXCEPT ![s.table] = Redescribed(s, R[s.table])])
    BY <1>1, AppliedColumns
  <2>2. ASSUME NEW q, IsDescription(q) PROVE IsDescription(Redescribed(s, q))
    <3>1. CASE s.op = "add_column"
      BY <2>2, <3>1 DEF Redescribed, IsDescription
    <3>2. CASE s.op = "drop_column"
      BY <2>2, <3>2 DEF Redescribed, IsDescription
    <3>3. CASE s.op = "alter_column" /\ "x" \in q.columns /\ s.change = "name"
      BY <2>2, <3>3 DEF Redescribed, IsDescription
    <3>4. CASE s.op = "alter_column" /\ "x" \in q.columns /\ s.change = "required"
      BY <2>2, <3>4 DEF Redescribed, IsDescription
    <3>5. CASE s.op = "alter_column" /\ "x" \in q.columns /\ s.change = "nullable"
      BY <2>2, <3>5 DEF Redescribed, IsDescription
    <3>6. CASE s.op = "alter_column" /\ ("x" \notin q.columns \/ s.change = "type")
      BY <2>2, <3>6 DEF Redescribed
    <3>7. QED
      BY <1>1, <3>1, <3>2, <3>3, <3>4, <3>5, <3>6, StatementOps DEF OfColumns
  <2> HIDE DEF R, N
  <2>3. IsFunction(N) /\ \A t \in DOMAIN N : IsDescription(N[t])
    BY <1>0, <2>1, <2>2 DEF IsFunction
  <2> HIDE DEF new
  <2>4. /\ new = [tables |-> new.tables, constraints |-> new.constraints, indexes |-> new.indexes,
                  unsupported |-> new.unsupported]
    BY <2>1 DEF N
  <2>5. QED
    BY <1>0, <2>3, <2>4 DEF IsSchema, N
<1>2. ASSUME s.op \notin OfColumns PROVE IsSchema(new)
  <2>1. new = [tables |-> N, constraints |-> new.constraints, indexes |-> new.indexes,
               unsupported |-> r.unsupported]
    BY <1>2, AppliedOthers
  <2>3. IsFunction(N) /\ \A t \in DOMAIN N : IsDescription(N[t])
    <3>1. CASE s.op = "create_table"
      <4> DEFINE q == [columns |-> {"id", "x"}, required |-> {c \in s.key : s.stated}]
      <4>1. N = Put(R, s.table, q)
        BY <1>2, <3>1, AppliedOthers
      <4>2. IsDescription(q)
        BY DEF IsDescription
      <4> HIDE DEF N, R, q
      <4>3. QED
        BY <1>0, <4>1, <4>2 DEF Put, IsFunction
    <3>2. CASE s.op = "drop_table"
      <4>1. N = Without(R, {s.table})
        BY <1>2, <3>2, AppliedOthers
      <4> HIDE DEF N, R
      <4>2. QED
        BY <1>0, <4>1 DEF Without, IsFunction
    <3>3. CASE s.op = "rename_table" /\ s.table \in DOMAIN R
      <4>1. N = Put(Without(R, {s.table}), s.to, R[s.table])
        BY <1>2, <3>3, AppliedOthers
      <4> HIDE DEF N, R
      <4>2. QED
        BY <1>0, <3>3, <4>1 DEF Put, Without, IsFunction
    <3>4. CASE s.op \notin {"create_table", "drop_table", "rename_table"} \/ N = R
      <4>1. N = R
        BY <1>2, <3>4, AppliedOthers
      <4>2. QED
        BY <1>0, <4>1
    <3>5. s.op = "rename_table" => s.table \in DOMAIN R \/ N = R
      BY <1>2, AppliedOthers
    <3>6. QED
      BY <3>1, <3>2, <3>3, <3>4, <3>5
  <2> HIDE DEF new
  <2>4. QED
    BY <2>1, <2>3 DEF IsSchema
<1>3. QED
  BY <1>1, <1>2

(***************************************************************************)
(* The tables                                                              *)
(***************************************************************************)

\* The replay has the columns of the tables T, none required that is not in T, and, if it
\* is exact, all that are.
Agree(R, T, accurate) ==
  /\ DOMAIN R = DOMAIN T
  /\ \A t \in DOMAIN T :
       /\ R[t].columns = T[t].columns /\ T[t].required \subseteq T[t].columns
       /\ R[t].required \subseteq T[t].required
       /\ accurate => R[t].required = T[t].required

\* The same for one table.
Same(q, r, accurate) ==
  /\ q.columns = r.columns /\ r.required \subseteq r.columns /\ q.required \subseteq r.required
  /\ accurate => q.required = r.required

\* A statement on columns does the same to a table of the replay and of the database.
LEMMA SameAfter ==
  ASSUME NEW s \in Statements, s.op \in OfColumns, Accepted(s),
         NEW r, IsRelation(r), r = database.tables[s.table],
         NEW q, NEW accurate \in BOOLEAN, Same(q, r, accurate)
  PROVE  Same(Redescribed(s, q), Described(s, r), accurate)
<1>1. CASE s.op = "add_column"
  <2>1. "y" \notin r.columns
    BY <1>1 DEF Accepted, Has
  <2> DEFINE S == {c \in {"y"} : s.required}
  <2>2. Redescribed(s, q) = [columns |-> q.columns \cup {"y"}, required |-> (q.required \ {"y"}) \cup S]
    BY <1>1 DEF Redescribed
  <2>3. /\ Described(s, r).columns = r.columns \cup {"y"}
        /\ Described(s, r).required = r.required \cup S
    BY <1>1 DEF Described, IsRelation
  <2>4. S \subseteq {"y"}
    OBVIOUS
  <2> HIDE DEF S
  <2>5. q.columns = r.columns /\ r.required \subseteq r.columns /\ (accurate => q.required = r.required)
    BY DEF Same
  <2>6. accurate => q.required \ {"y"} = r.required
    BY <2>1, <2>5
  <2>7. accurate => Redescribed(s, q).required = Described(s, r).required
    BY <2>2, <2>3, <2>6
  <2>10. Redescribed(s, q).required \subseteq Described(s, r).required
    <3>1. q.required \subseteq r.required
      BY DEF Same
    <3>2. QED
      BY <2>2, <2>3, <3>1
  <2>8. /\ Redescribed(s, q).columns = Described(s, r).columns
        /\ Described(s, r).required \subseteq Described(s, r).columns
    <3>1. Redescribed(s, q).columns = Described(s, r).columns
      BY <2>2, <2>3, <2>5
    <3>2. r.required \cup S \subseteq r.columns \cup {"y"}
      BY <2>4, <2>5
    <3>3. QED
      BY <2>3, <3>1, <3>2
  <2>9. QED
    BY <2>7, <2>8, <2>10 DEF Same
<1>2. CASE s.op = "drop_column"
  BY <1>2 DEF Same, Redescribed, Described, IsRelation
<1>3. CASE s.op = "alter_column"
  <2>1. "x" \in r.columns /\ "x" \in q.columns
    BY <1>3 DEF Accepted, Has, Same
  <2>2. CASE s.change = "name"
    <3>1. "y" \notin r.columns
      BY <1>3, <2>2 DEF Accepted, Has, Exists
    <3>2. /\ Redescribed(s, q) = [columns |-> Renamed(q.columns, "x", "y"),
                                  required |-> Renamed(q.required \ {"y"}, "x", "y")]
          /\ Described(s, r).columns = Renamed(r.columns, "x", "y")
          /\ Described(s, r).required = Renamed(r.required, "x", "y")
      BY <1>3, <2>1, <2>2 DEF Redescribed, Described, IsRelation
    <3>3. accurate => q.required \ {"y"} = r.required
      BY <3>1 DEF Same
    <3>4. Renamed(r.required, "x", "y") \subseteq Renamed(r.columns, "x", "y")
      BY DEF Same, Renamed
    <3>5. q.columns = r.columns
      BY DEF Same
    <3>6. accurate => Redescribed(s, q).required = Described(s, r).required
      <4>1. SUFFICES ASSUME accurate PROVE Redescribed(s, q).required = Described(s, r).required
        OBVIOUS
      <4>2. q.required \ {"y"} = r.required
        BY <3>3, <4>1
      <4>3. Renamed(q.required \ {"y"}, "x", "y") = Renamed(r.required, "x", "y")
        BY <4>2
      <4>4. QED
        BY <3>2, <4>3
    <3>7. Redescribed(s, q).columns = Described(s, r).columns
      BY <3>2, <3>5
    <3>8. Described(s, r).required \subseteq Described(s, r).columns
      BY <3>2, <3>4
    <3>9. Redescribed(s, q).required \subseteq Described(s, r).required
      <4>1. q.required \subseteq r.required
        BY DEF Same
      <4>2. Renamed(q.required \ {"y"}, "x", "y") \subseteq Renamed(r.required, "x", "y")
        BY <4>1 DEF Renamed
      <4>3. QED
        BY <3>2, <4>2
    <3>10. QED
      BY <3>6, <3>7, <3>8, <3>9 DEF Same
  <2>3. CASE s.change = "required"
    BY <1>3, <2>1, <2>3 DEF Same, Redescribed, Described, IsRelation
  <2>4. CASE s.change = "nullable"
    BY <1>3, <2>1, <2>4 DEF Same, Redescribed, Described, IsRelation
  <2>5. CASE s.change = "type"
    BY <1>3, <2>1, <2>5 DEF Same, Redescribed, Described
  <2>6. QED
    BY <1>3, <2>2, <2>3, <2>4, <2>5, StatementOps
<1>4. QED
  BY <1>1, <1>2, <1>3 DEF OfColumns

\* Both make the same of the tables.
LEMMA TablesAfter ==
  ASSUME IsDatabase(database), IsSchema(replayed),
         NEW accurate \in BOOLEAN, Agree(replayed.tables, database.tables, accurate),
         NEW s \in Statements, Accepted(s)
  PROVE  Agree(Applied(replayed, s).tables, Executed(database, s).tables,
               accurate /\ ~Approximated(s))
<1> DEFINE R == replayed.tables
           T == database.tables
           N == Applied(replayed, s).tables
           U == Executed(database, s).tables
           still == accurate /\ ~Approximated(s)
<1>0. Agree(R, T, accurate) /\ (still => accurate) /\ AreTables(T)
  BY DEF IsDatabase
<1>1. CASE s.op = "create_table"
  <2> DEFINE q == [columns |-> {"id", "x"}, required |-> {c \in s.key : s.stated}]
             r == Relation({"id", "x"}, s.key)
  <2>1. N = Put(R, s.table, q) /\ U = Put(T, s.table, r)
    <3>1. N = Put(R, s.table, q)
      BY <1>1, AppliedOthers DEF OfColumns
    <3>2. U = Put(T, s.table, r)
      BY <1>1, ExecutedOthers
    <3>3. QED
      BY <3>1, <3>2
  <2>2. /\ q.columns = r.columns /\ r.required \subseteq r.columns
        /\ q.required \subseteq r.required /\ (still => q.required = r.required)
    <3>1. q.columns = r.columns /\ r.required = s.key /\ r.required \subseteq r.columns
      BY <1>1, StatementOps DEF Relation
    <3>2. still => s.stated
      BY <1>1 DEF Approximated
    <3>3. QED
      BY <3>1, <3>2
  <2> HIDE DEF N, U, R, T, q, r, still
  <2>3. Agree(N, U, still)
    BY <1>0, <2>1, <2>2 DEF Agree, Put
  <2>4. QED
    BY <2>3 DEF N, U, still
<1>2. CASE s.op = "drop_table"
  <2>1. N = Without(R, {s.table}) /\ U = Without(T, {s.table})
    BY <1>2, AppliedOthers, ExecutedOthers DEF OfColumns
  <2> HIDE DEF N, U, R, T, still
  <2>2. Agree(N, U, still)
    BY <1>0, <2>1 DEF Agree, Without
  <2>3. QED
    BY <2>2 DEF N, U, still
<1>3. CASE s.op = "rename_table"
  <2>1. s.table \in DOMAIN R
    BY <1>0, <1>3, AcceptedTable DEF Agree, Exists
  <2>2. N = Put(Without(R, {s.table}), s.to, R[s.table]) /\ U = Put(Without(T, {s.table}), s.to, T[s.table])
    BY <1>3, <2>1, AppliedOthers, ExecutedOthers DEF OfColumns
  <2> HIDE DEF N, U, R, T, still
  <2>3. Agree(N, U, still)
    BY <1>0, <2>1, <2>2 DEF Agree, Put, Without
  <2>4. QED
    BY <2>3 DEF N, U, still
<1>4. CASE s.op \in OfColumns
  <2> DEFINE q == R[s.table]
             r == T[s.table]
  <2>1. s.table \in DOMAIN T /\ s.table \in DOMAIN R
    BY <1>0, <1>4, AcceptedTable DEF Agree, Exists, OfColumns
  <2>2. /\ N = [R EXCEPT ![s.table] = Redescribed(s, q)]
        /\ U = [T EXCEPT ![s.table] = Described(s, r)]
    <3>1. s.op \in Describing
      BY <1>4 DEF OfColumns, Describing
    <3>2. N = [R EXCEPT ![s.table] = Redescribed(s, q)]
      BY <1>4, <2>1, AppliedColumns
    <3>3. U = [T EXCEPT ![s.table] = Described(s, r)]
      BY <2>1, <3>1, ExecutedDescription
    <3>4. QED
      BY <3>2, <3>3
  <2>3. Same(q, r, accurate) /\ IsRelation(r)
    BY <1>0, <2>1 DEF Agree, Same, AreTables
  <2>4. Same(Redescribed(s, q), Described(s, r), accurate)
    BY <1>4, <2>3, SameAfter
  <2> HIDE DEF N, U, R, T, q, r, still
  <2>5. Agree(N, U, still)
    BY <1>0, <2>1, <2>2, <2>4 DEF Agree, Same
  <2>6. QED
    BY <2>5 DEF N, U, still
<1>5. CASE s.op = "create_constraint"
  <2> DEFINE r == T[s.table]
  <2>1. s.table \in DOMAIN T /\ "x" \in r.columns
    BY <1>5 DEF Accepted, Has, Exists
  <2>2. N = R /\ U = [T EXCEPT ![s.table] = Described(s, r)] /\ IsRelation(r)
    BY <1>0, <1>5, <2>1, AppliedOthers, ExecutedDescription DEF OfColumns, Describing, AreTables
  <2>3. Described(s, r).columns = r.columns /\ Described(s, r).required = r.required \cup {c \in {"x"} : s.kind = "primary"}
    BY <1>5, <2>2 DEF Described, IsRelation
  <2>4. still => s.kind # "primary"
    BY <1>5 DEF Approximated
  <2> HIDE DEF N, U, R, T, r, still
  <2>5. Agree(N, U, still)
    BY <1>0, <2>1, <2>2, <2>3, <2>4 DEF Agree, r
  <2>6. QED
    BY <2>5 DEF N, U, still
<1>6. CASE s.op \in {"create_index", "drop_index", "drop_constraint"}
  <2>1. N = R /\ U = T
    BY <1>6, AppliedOthers, ExecutedOthers DEF OfColumns
  <2>2. QED
    BY <1>0, <2>1 DEF Agree
<1>7. QED
  BY <1>1, <1>2, <1>3, <1>4, <1>5, <1>6, StatementOps DEF Operations, OfColumns

(***************************************************************************)
(* The constraints and indexes                                             *)
(***************************************************************************)

\* The name the replay gives to what the database has.
ReplayName(d) == IF d.name = K THEN K ELSE ReplayedKey(d.table)

\* A constraint of the database, with the name of a key or of a migration.
IsConstraint(d) ==
  /\ d = [name |-> d.name, kind |-> d.kind, table |-> d.table, columns |-> d.columns,
          referenced |-> d.referenced]
  /\ d.name = K \/ d.name = DefaultKey(d.table)

\* The replayed constraints C are the database's D, one by one, and are of its tables.
Matched(C, D, tables) ==
  /\ \A d \in D : IsConstraint(d) /\ d.table \in tables
  /\ \A d \in D : \A e \in D : ReplayName(d) = ReplayName(e) => d = e
  /\ \A d \in D : ReplayName(d) \in DOMAIN C /\ C[ReplayName(d)] = Shape(d)
  /\ \A n \in DOMAIN C : \E d \in D : n = ReplayName(d)

\* The replayed indexes X are the database's D.
MatchedIndexes(X, D) ==
  /\ \A d \in D : d = Shape(d)
  /\ \A d \in D : \E n \in DOMAIN X : X[n] = d
  /\ \A n \in DOMAIN X : n = I /\ X[n] \in D

\* The names the replay gives to keys are not those migrations give to constraints.
LEMMA Names ==
  ASSUME NEW d, NEW t
  PROVE  /\ K # ReplayedKey(t) /\ K # DefaultKey(t)
         /\ d.name = K => ReplayName(d) = K
         /\ d.name = DefaultKey(t) => ReplayName(d) = ReplayedKey(d.table)
         /\ ReplayName(d) = K => d.name = K
<1>1. K # ReplayedKey(t)
  BY DEF K, ReplayedKey
<1>2. K # DefaultKey(t)
  BY DEF K, DefaultKey
<1>3. K # ReplayedKey(d.table)
  BY DEF K, ReplayedKey
<1>4. QED
  BY <1>1, <1>2, <1>3 DEF ReplayName

\* The key of another table has another name.
LEMMA KeysDiffer ==
  ASSUME NEW t, NEW u, ReplayedKey(t) = ReplayedKey(u)
  PROVE  t = u
BY DEF ReplayedKey

\* The replay notes the table of a constraint.
LEMMA ShapeOf ==
  ASSUME NEW d
  PROVE  Shape(d).table = d.table
BY DEF Shape, Constraint

\* A constraint with a name of its own is added to both.
LEMMA AddedConstraint ==
  ASSUME NEW C, NEW D, NEW tables, Matched(C, D, tables),
         NEW new, IsConstraint(new), NEW more, tables \subseteq more, new.table \in more,
         \A d \in D : ReplayName(d) # ReplayName(new)
  PROVE  Matched(Put(C, ReplayName(new), Shape(new)), D \cup {new}, more)
<1> DEFINE P == Put(C, ReplayName(new), Shape(new))
           E == D \cup {new}
<1>1. /\ DOMAIN P = DOMAIN C \cup {ReplayName(new)} /\ P[ReplayName(new)] = Shape(new)
      /\ \A n \in DOMAIN C \ {ReplayName(new)} : P[n] = C[n]
  BY DEF Put
<1> HIDE DEF P
<1>2. \A d \in E : IsConstraint(d) /\ d.table \in more
  BY DEF Matched
<1>3. \A d \in E : \A e \in E : ReplayName(d) = ReplayName(e) => d = e
  BY DEF Matched
<1>4. \A d \in E : ReplayName(d) \in DOMAIN P /\ P[ReplayName(d)] = Shape(d)
  BY <1>1 DEF Matched
<1>5. \A n \in DOMAIN P : \E d \in E : n = ReplayName(d)
  BY <1>1 DEF Matched
<1> HIDE DEF E
<1>6. Matched(P, E, more)
  BY <1>2, <1>3, <1>4, <1>5 DEF Matched
<1>7. QED
  BY <1>6 DEF P, E

\* What is left when the constraints that are gone are taken from both.
LEMMA RemovedConstraints ==
  ASSUME NEW C, NEW D, NEW tables, Matched(C, D, tables), NEW E, E \subseteq D, NEW S,
         \A d \in D : d \in E <=> ReplayName(d) \notin S,
         NEW fewer, \A d \in E : d.table \in fewer
  PROVE  Matched(Without(C, S), E, fewer)
<1> DEFINE P == Without(C, S)
<1>1. DOMAIN P = DOMAIN C \ S /\ \A n \in DOMAIN P : P[n] = C[n]
  BY DEF Without
<1> HIDE DEF P
<1>2. /\ \A d \in E : IsConstraint(d) /\ d.table \in fewer
      /\ \A d \in E : \A e \in E : ReplayName(d) = ReplayName(e) => d = e
  BY DEF Matched
<1>3. \A d \in E : ReplayName(d) \in DOMAIN P /\ P[ReplayName(d)] = Shape(d)
  BY <1>1 DEF Matched
<1>4. \A n \in DOMAIN P : \E d \in E : n = ReplayName(d)
  BY <1>1 DEF Matched
<1>5. Matched(P, E, fewer)
  BY <1>2, <1>3, <1>4 DEF Matched
<1>6. QED
  BY <1>5 DEF P

\* Constraints go with their table, found by the table the replay noted of them.
LEMMA ConstraintsOf ==
  ASSUME NEW C, NEW D, NEW tables, Matched(C, D, tables), NEW t
  PROVE  Matched(Without(C, On(C, t)), {d \in D : d.table # t}, tables \ {t})
<1> DEFINE E == {d \in D : d.table # t}
           S == On(C, t)
<1>1. \A d \in D : d \in E <=> ReplayName(d) \notin S
  BY ShapeOf DEF Matched, On
<1>2. E \subseteq D /\ \A d \in E : d.table \in tables \ {t}
  BY DEF Matched
<1> HIDE DEF E, S
<1>3. Matched(Without(C, S), E, tables \ {t})
  BY <1>1, <1>2, RemovedConstraints
<1>4. QED
  BY <1>3 DEF E, S

\* The only constraint with the name goes from both.
LEMMA ConstraintNamed ==
  ASSUME NEW C, NEW D, NEW tables, Matched(C, D, tables), NEW t,
         NEW c \in D, c.name = K, c.table = t
  PROVE  Matched(Without(C, {K}), {d \in D : ~(d.name = K /\ d.table = t)}, tables)
<1> DEFINE E == {d \in D : ~(d.name = K /\ d.table = t)}
           S == {K}
<1>1. ASSUME NEW d \in D PROVE d \in E <=> ReplayName(d) \notin S
  <2>1. d.name = K => d = c
    BY Names DEF Matched
  <2>2. QED
    BY <2>1, Names
<1>2. E \subseteq D /\ \A d \in E : d.table \in tables
  BY DEF Matched
<1> HIDE DEF E, S
<1>3. Matched(Without(C, S), E, tables)
  BY <1>1, <1>2, RemovedConstraints
<1>4. QED
  BY <1>3 DEF E, S

\* Indexes go with their table too.
LEMMA IndexesOf ==
  ASSUME NEW X, NEW D, MatchedIndexes(X, D), NEW t
  PROVE  MatchedIndexes(Without(X, On(X, t)), {d \in D : d.table # t})
<1> DEFINE E == {d \in D : d.table # t}
           P == Without(X, On(X, t))
<1>1. DOMAIN P = {n \in DOMAIN X : X[n].table # t} /\ \A n \in DOMAIN P : P[n] = X[n]
  BY DEF Without, On
<1> HIDE DEF P
<1>2. MatchedIndexes(P, E)
  BY <1>1 DEF MatchedIndexes
<1>3. QED
  BY <1>2 DEF P

(***************************************************************************)
(* The database's side                                                     *)
(***************************************************************************)

\* What the statements do to the constraints and indexes of the database.
LEMMA ExecutedConstraints ==
  ASSUME NEW db, IsDatabase(db), NEW s \in Statements
  PROVE  LET new == Executed(db, s) IN
         /\ s.op = "create_table" /\ ~s.inline => new.constraints = db.constraints
              \cup {Named(DefaultKey(s.table), Constraint("primary", s.table, s.key, NoTable))}
         /\ s.op = "drop_table" =>
              /\ new.constraints = {d \in db.constraints : d.table # s.table}
              /\ new.indexes = {d \in db.indexes : d.table # s.table}
         /\ s.op = "rename_table" =>
              /\ new.constraints = RenameTable(db.constraints, s.table, s.to)
              /\ new.indexes = RenameTable(db.indexes, s.table, s.to)
         /\ s.op = "drop_column" =>
              /\ new.constraints = KeepWithout(db.constraints, s.table, s.column)
              /\ new.indexes = KeepWithout(db.indexes, s.table, s.column)
         /\ s.op = "alter_column" /\ s.change = "name" =>
              /\ new.constraints = RenameColumn(db.constraints, s.table, "x", "y")
              /\ new.indexes = RenameColumn(db.indexes, s.table, "x", "y")
         /\ s.op = "create_constraint" => new.constraints = db.constraints
              \cup {Named(K, Constraint(s.kind, s.table, {"x"},
                      IF s.kind = "foreign" THEN Target(s.table) ELSE NoTable))}
         /\ s.op = "drop_constraint" =>
              new.constraints = {d \in db.constraints : ~(d.name = s.name /\ d.table = s.table)}
         /\ s.op = "create_index" => new.indexes = {Constraint("index", s.table, {"x"}, NoTable)}
         /\ s.op = "drop_index" => new.indexes = {}
         /\ s.op \in {"create_index", "drop_index", "add_column"} \/ (s.op = "alter_column" /\ s.change # "name") =>
              new.constraints = db.constraints
         /\ s.op \in {"create_table", "add_column", "create_constraint", "drop_constraint"}
              \/ (s.op = "alter_column" /\ s.change # "name") => new.indexes = db.indexes
<1>0. db = [tables |-> db.tables, constraints |-> db.constraints, indexes |-> db.indexes]
  BY DEF IsDatabase
<1>1. CASE s.op = "create_table"
  <2> DEFINE key == Named(DefaultKey(s.table), Constraint("primary", s.table, s.key, NoTable))
             keys == {Named(<<t, "fkey">>, Constraint("foreign", t, {"x"}, Target(t))) :
                        t \in {u \in {s.table} : s.inline}}
  <2>1. Executed(db, s) = [db EXCEPT !.tables = Put(@, s.table, Relation({"id", "x"}, s.key)),
                                     !.constraints = @ \cup {key} \cup keys]
    BY <1>1 DEF Executed
  <2>2. ~s.inline => keys = {}
    OBVIOUS
  <2> HIDE DEF key, keys
  <2>3. Executed(db, s).constraints = db.constraints \cup {key} \cup keys /\ Executed(db, s).indexes = db.indexes
    BY <1>0, <2>1
  <2>4. ~s.inline => Executed(db, s).constraints = db.constraints \cup {key}
    BY <2>2, <2>3
  <2>5. QED
    BY <1>1, <2>3, <2>4 DEF key
<1>2. CASE s.op = "drop_table"
  BY <1>0, <1>2 DEF Executed
<1>3. CASE s.op = "rename_table"
  BY <1>0, <1>3 DEF Executed
<1>4. CASE s.op = "drop_column"
  BY <1>0, <1>4 DEF Executed
<1>5. CASE s.op = "alter_column" /\ s.change = "name"
  BY <1>0, <1>5 DEF Executed
<1>6. CASE s.op = "alter_column" /\ s.change # "name"
  BY <1>0, <1>6 DEF Executed
<1>7. CASE s.op = "add_column"
  BY <1>0, <1>7 DEF Executed
<1>8. CASE s.op = "create_constraint"
  BY <1>0, <1>8 DEF Executed
<1>9. CASE s.op = "drop_constraint"
  BY <1>0, <1>9 DEF Executed
<1>10. CASE s.op = "create_index"
  BY <1>0, <1>10 DEF Executed
<1>11. CASE s.op = "drop_index"
  BY <1>0, <1>11 DEF Executed
<1>12. QED
  BY <1>1, <1>2, <1>3, <1>4, <1>5, <1>6, <1>7, <1>8, <1>9, <1>10, <1>11, StatementOps DEF Operations

\* A table without constraints is renamed without changing any.
LEMMA RenamedElsewhere ==
  ASSUME NEW S, NEW t, NEW n, \A d \in S : d.table # t /\ d.referenced # t,
         \/ \A d \in S : IsConstraint(d)
         \/ \A d \in S : d = Shape(d)
  PROVE  RenameTable(S, t, n) = S
<1>1. ASSUME NEW d \in S
      PROVE  [d EXCEPT !.table = IF @ = t THEN n ELSE @,
                       !.referenced = IF @ = t THEN n ELSE @] = d
  <2>1. CASE IsConstraint(d)
    BY <1>1, <2>1 DEF IsConstraint
  <2>2. CASE d = Shape(d)
    BY <1>1, <2>2 DEF Shape, Constraint
  <2>3. QED
    BY <1>1, <2>1, <2>2
<1> DEFINE same(d) == [d EXCEPT !.table = IF @ = t THEN n ELSE @,
                                !.referenced = IF @ = t THEN n ELSE @]
<1>2. RenameTable(S, t, n) = {same(d) : d \in S} /\ \A d \in S : same(d) = d
  BY <1>1 DEF RenameTable
<1> HIDE DEF same
<1>3. QED
  BY <1>2

\* Renaming a column no constraint of the table has changes none.
LEMMA ColumnElsewhere ==
  ASSUME NEW S, NEW t, NEW c, NEW n, \A d \in S : d.table = t => c \notin d.columns,
         \/ \A d \in S : IsConstraint(d)
         \/ \A d \in S : d = Shape(d)
  PROVE  RenameColumn(S, t, c, n) = S
<1>1. ASSUME NEW d \in S, d.table = t
      PROVE  [d EXCEPT !.columns = Renamed(@, c, n)] = d
  <2>1. Renamed(d.columns, c, n) = d.columns
    BY <1>1 DEF Renamed
  <2>2. QED
    BY <1>1, <2>1 DEF IsConstraint, Shape, Constraint
<1>2. QED
  BY <1>1 DEF RenameColumn

\* A statement the replay does not approximate does the same to both.
LEMMA ConstraintsAfter ==
  ASSUME IsDatabase(database), IsSchema(replayed),
         Matched(replayed.constraints, database.constraints, DOMAIN database.tables),
         MatchedIndexes(replayed.indexes, database.indexes),
         NEW s \in Statements, Accepted(s), ~Approximated(s)
  PROVE  LET r == Applied(replayed, s)
             db == Executed(database, s) IN
         /\ Matched(r.constraints, db.constraints, DOMAIN db.tables)
         /\ MatchedIndexes(r.indexes, db.indexes)
<1> DEFINE r == Applied(replayed, s)
           db == Executed(database, s)
           C == replayed.constraints
           D == database.constraints
           X == replayed.indexes
           E == database.indexes
           names == DOMAIN database.tables
<1>0. Matched(C, D, names) /\ MatchedIndexes(X, E) /\ AreTables(database.tables)
  BY DEF IsDatabase
<1>1. CASE s.op = "create_table"
  <2> DEFINE new == Named(DefaultKey(s.table), Constraint("primary", s.table, {"id"}, NoTable))
  <2>1. s.key = {"id"} /\ ~s.inline /\ s.table \notin names
    BY <1>1, AcceptedTable, StatementOps DEF Approximated, Exists
  <2>2. db.constraints = D \cup {new} /\ db.indexes = E
    <3> DEFINE key == Named(DefaultKey(s.table), Constraint("primary", s.table, s.key, NoTable))
    <3>0. ~s.inline
      BY <2>1
    <3>1. db.constraints = D \cup {key} /\ db.indexes = E
      <4>1. db.constraints = D \cup {key}
        BY <1>1, <3>0, ExecutedConstraints
      <4>2. db.indexes = E
        BY <1>1, ExecutedConstraints
      <4>3. QED
        BY <4>1, <4>2
    <3>2. key = new
      BY <2>1
    <3> HIDE DEF key, new, db
    <3>3. QED
      BY <3>1, <3>2
  <2>3. IsConstraint(new) /\ new.table = s.table /\ new.name = DefaultKey(s.table)
    BY DEF IsConstraint, Named, Constraint
  <2>4. Shape(new) = Constraint("primary", s.table, {"id"}, NoTable)
    BY DEF Shape, Named, Constraint
  <2>5. ReplayName(new) = ReplayedKey(s.table)
    BY <2>3, Names
  <2>6. r.constraints = Put(C, ReplayName(new), Shape(new)) /\ r.indexes = X
    <3>1. r.constraints = Put(C, ReplayedKey(s.table),
            Constraint("primary", s.table, IF "x" \in s.key THEN {"x"} ELSE {"id"}, NoTable))
      BY <1>1, AppliedConstraints DEF OfColumns
    <3>2. r.indexes = X
      BY <1>1, AppliedConstraints DEF OfColumns
    <3>3. "x" \notin s.key
      BY <2>1
    <3>4. QED
      BY <2>4, <2>5, <3>1, <3>2, <3>3
  <2>7. names \subseteq DOMAIN db.tables /\ s.table \in DOMAIN db.tables
    <3>1. db.tables = Put(database.tables, s.table, Relation({"id", "x"}, s.key))
      BY <1>1, ExecutedOthers
    <3>2. QED
      BY <3>1 DEF Put
  <2>8. \A d \in D : ReplayName(d) # ReplayName(new)
    BY <1>0, <2>1, <2>5, Names, KeysDiffer DEF Matched, ReplayName
  <2> HIDE DEF new, r, db, C, D, X, E, names
  <2>9. Matched(r.constraints, db.constraints, DOMAIN db.tables)
    BY <1>0, <2>2, <2>3, <2>6, <2>7, <2>8, AddedConstraint
  <2>10. MatchedIndexes(r.indexes, db.indexes)
    BY <1>0, <2>2, <2>6
  <2>11. QED
    BY <2>9, <2>10 DEF r, db
<1>2. CASE s.op = "drop_table"
  <2>1. /\ r.constraints = Without(C, On(C, s.table)) /\ r.indexes = Without(X, On(X, s.table))
        /\ db.constraints = {d \in D : d.table # s.table} /\ db.indexes = {d \in E : d.table # s.table}
    <3>1. r.constraints = Without(C, On(C, s.table)) /\ r.indexes = Without(X, On(X, s.table))
      BY <1>2, AppliedConstraints DEF OfColumns
    <3>2. db.constraints = {d \in D : d.table # s.table} /\ db.indexes = {d \in E : d.table # s.table}
      BY <1>2, ExecutedConstraints
    <3>3. QED
      BY <3>1, <3>2
  <2>2. DOMAIN db.tables = names \ {s.table}
    <3>1. db.tables = Without(database.tables, {s.table})
      BY <1>2, ExecutedOthers
    <3>2. QED
      BY <3>1 DEF Without
  <2> HIDE DEF r, db, C, D, X, E, names
  <2>3. Matched(r.constraints, db.constraints, DOMAIN db.tables)
    BY <1>0, <2>1, <2>2, ConstraintsOf
  <2>4. MatchedIndexes(r.indexes, db.indexes)
    BY <1>0, <2>1, IndexesOf
  <2>5. QED
    BY <2>3, <2>4 DEF r, db
<1>3. CASE s.op = "rename_table"
  <2>1. r.constraints = C /\ r.indexes = X
    BY <1>3, AppliedConstraints DEF OfColumns
  <2>2. /\ db.constraints = RenameTable(D, s.table, s.to)
        /\ db.indexes = RenameTable(E, s.table, s.to)
    BY <1>3, ExecutedConstraints
  <2>3. /\ \A d \in D : d.table # s.table /\ d.referenced # s.table
        /\ \A d \in E : d.table # s.table /\ d.referenced # s.table
    BY <1>3 DEF Approximated, Dependents
  <2>4. names \ {s.table} \subseteq DOMAIN db.tables
    <3>1. db.tables = Put(Without(database.tables, {s.table}), s.to, database.tables[s.table])
      BY <1>3, ExecutedOthers
    <3>2. QED
      BY <3>1 DEF Put, Without
  <2> HIDE DEF r, db, C, D, X, E, names
  <2>5. db.constraints = D
    BY <1>0, <2>2, <2>3, RenamedElsewhere DEF Matched
  <2>6. db.indexes = E
    BY <1>0, <2>2, <2>3, RenamedElsewhere DEF MatchedIndexes
  <2>7. Matched(r.constraints, db.constraints, DOMAIN db.tables)
    BY <1>0, <2>1, <2>3, <2>4, <2>5 DEF Matched
  <2>8. QED
    BY <1>0, <2>1, <2>6, <2>7 DEF r, db
<1>4. CASE s.op \in OfColumns
  <2>1. r.constraints = C /\ r.indexes = X
    <3> HIDE DEF r
    <3>1. r = [tables |-> r.tables, constraints |-> C, indexes |-> X, unsupported |-> r.unsupported]
      BY <1>4, AppliedColumns DEF r
    <3> HIDE DEF C, X
    <3>2. QED
      BY <3>1
  <2>2. DOMAIN db.tables = names
    <3>1. s.table \in names
      BY <1>4, AcceptedTable DEF OfColumns, Exists
    <3>2. db.tables = [database.tables EXCEPT ![s.table] = Described(s, database.tables[s.table])]
      BY <1>4, <3>1, ExecutedDescription DEF OfColumns, Describing
    <3>3. QED
      BY <3>2
  <2>3. db.constraints = D /\ db.indexes = E
    <3>1. CASE s.op = "add_column" \/ (s.op = "alter_column" /\ s.change # "name")
      BY <3>1, ExecutedConstraints
    <3>2. CASE s.op = "drop_column"
      <4>1. /\ db.constraints = KeepWithout(D, s.table, s.column)
            /\ db.indexes = KeepWithout(E, s.table, s.column)
        BY <3>2, ExecutedConstraints
      <4>2. /\ \A d \in D : d.table = s.table => s.column \notin d.columns
            /\ \A d \in E : d.table = s.table => s.column \notin d.columns
        BY <3>2 DEF Approximated, Dependents
      <4> HIDE DEF r, db, C, D, X, E, names
      <4>3. KeepWithout(D, s.table, s.column) = D
        BY <4>2 DEF KeepWithout
      <4>4. KeepWithout(E, s.table, s.column) = E
        BY <4>2 DEF KeepWithout
      <4>5. QED
        BY <4>1, <4>3, <4>4
    <3>3. CASE s.op = "alter_column" /\ s.change = "name"
      <4>1. /\ db.constraints = RenameColumn(D, s.table, "x", "y")
            /\ db.indexes = RenameColumn(E, s.table, "x", "y")
        BY <3>3, ExecutedConstraints
      <4>2. /\ \A d \in D : d.table = s.table => "x" \notin d.columns
            /\ \A d \in E : d.table = s.table => "x" \notin d.columns
        BY <3>3 DEF Approximated, Dependents
      <4> HIDE DEF r, db, C, D, X, E, names
      <4>3. QED
        BY <1>0, <4>1, <4>2, ColumnElsewhere DEF Matched, MatchedIndexes
    <3>4. QED
      BY <1>4, <3>1, <3>2, <3>3 DEF OfColumns
  <2>4. QED
    BY <1>0, <2>1, <2>2, <2>3
<1>5. CASE s.op = "create_constraint"
  <2> DEFINE other == IF s.kind = "foreign" THEN Target(s.table) ELSE NoTable
             new == Named(K, Constraint(s.kind, s.table, {"x"}, other))
  <2>1. (\A d \in D : d.name # K) /\ s.table \in names
    BY <1>5 DEF Approximated, Accepted, Has, Exists
  <2>2. db.constraints = D \cup {new} /\ db.indexes = E
    BY <1>5, ExecutedConstraints
  <2>3. IsConstraint(new) /\ new.table = s.table /\ new.name = K
    BY DEF IsConstraint, Named, Constraint
  <2>4. Shape(new) = Constraint(s.kind, s.table, IF s.kind = "check" THEN {} ELSE {"x"}, other)
    BY DEF Shape, Named, Constraint
  <2>5. ReplayName(new) = K
    BY <2>3 DEF ReplayName
  <2>6. r.constraints = Put(C, ReplayName(new), Shape(new)) /\ r.indexes = X
    <3>1. r.constraints = Put(C, K, Constraint(s.kind, s.table, IF s.kind = "check" THEN {} ELSE {"x"}, other))
      BY <1>5, AppliedConstraints DEF OfColumns
    <3>2. r.indexes = X
      BY <1>5, AppliedConstraints DEF OfColumns
    <3>3. QED
      BY <2>4, <2>5, <3>1, <3>2
  <2>7. DOMAIN db.tables = names
    <3>1. db.tables = [database.tables EXCEPT ![s.table] = Described(s, database.tables[s.table])]
      BY <1>5, <2>1, ExecutedDescription DEF Describing
    <3>2. QED
      BY <3>1
  <2>8. \A d \in D : ReplayName(d) # ReplayName(new)
    BY <2>1, <2>5, Names
  <2> HIDE DEF new, other, r, db, C, D, X, E, names
  <2>9. Matched(r.constraints, db.constraints, DOMAIN db.tables)
    BY <1>0, <2>1, <2>2, <2>3, <2>6, <2>7, <2>8, AddedConstraint
  <2>10. QED
    BY <1>0, <2>2, <2>6, <2>9 DEF r, db
<1>6. CASE s.op = "drop_constraint"
  <2>1. s.name = K
    BY <1>6 DEF Approximated
  <2>2. r.constraints = Without(C, {K}) /\ r.indexes = X
    BY <1>6, <2>1, AppliedConstraints DEF OfColumns
  <2>3. db.constraints = {d \in D : ~(d.name = K /\ d.table = s.table)} /\ db.indexes = E
    BY <1>6, <2>1, ExecutedConstraints
  <2>4. DOMAIN db.tables = names
    BY <1>6, ExecutedOthers
  <2>5. PICK c \in D : c.name = K /\ c.table = s.table
    BY <1>6, <2>1 DEF Accepted
  <2> HIDE DEF r, db, C, D, X, E, names
  <2>6. Matched(r.constraints, db.constraints, DOMAIN db.tables)
    BY <1>0, <2>2, <2>3, <2>4, <2>5, ConstraintNamed
  <2>7. QED
    BY <1>0, <2>2, <2>3, <2>6 DEF r, db
<1>7. CASE s.op = "create_index"
  <2> DEFINE new == Constraint("index", s.table, {"x"}, NoTable)
  <2>1. r.constraints = C /\ r.indexes = Put(X, I, new)
    BY <1>7, AppliedConstraints DEF OfColumns
  <2>2. db.constraints = D /\ db.indexes = {new} /\ db.tables = database.tables
    <3>1. db.constraints = D /\ db.indexes = {new}
      BY <1>7, ExecutedConstraints
    <3>2. QED
      BY <1>7, <3>1, ExecutedOthers
  <2>3. DOMAIN X = {}
    BY <1>0, <1>7 DEF Accepted, MatchedIndexes
  <2>4. new = Shape(new)
    BY DEF Shape, Constraint
  <2> HIDE DEF new, r, db, C, D, X, E
  <2>5. MatchedIndexes(r.indexes, db.indexes)
    BY <2>1, <2>2, <2>3, <2>4 DEF MatchedIndexes, Put
  <2>6. QED
    BY <1>0, <2>1, <2>2, <2>5 DEF r, db
<1>8. CASE s.op = "drop_index"
  <2>1. r.constraints = C /\ r.indexes = Without(X, {I})
    BY <1>8, AppliedConstraints DEF OfColumns
  <2>2. db.constraints = D /\ db.indexes = {} /\ db.tables = database.tables
    <3>1. db.constraints = D /\ db.indexes = {}
      BY <1>8, ExecutedConstraints
    <3>2. QED
      BY <1>8, <3>1, ExecutedOthers
  <2> HIDE DEF r, db, C, D, X, E
  <2>3. MatchedIndexes(r.indexes, db.indexes)
    BY <1>0, <2>1, <2>2 DEF MatchedIndexes, Without
  <2>4. QED
    BY <1>0, <2>1, <2>2, <2>3 DEF r, db
<1>9. QED
  BY <1>1, <1>2, <1>3, <1>4, <1>5, <1>6, <1>7, <1>8, StatementOps DEF Operations, OfColumns

\* The inductive invariant for the replay.
ReplayInv ==
  /\ IsDatabase(database) /\ IsSchema(replayed) /\ exact \in BOOLEAN
  /\ ~raised /\ ~replayed.unsupported =>
       /\ Agree(replayed.tables, database.tables, exact)
       /\ exact => /\ Matched(replayed.constraints, database.constraints, DOMAIN database.tables)
                   /\ MatchedIndexes(replayed.indexes, database.indexes)

\* A statement applied keeps replay and database together; any other is reported.
LEMMA RunStatementKeepsReplay == ReplayInv /\ RunStatement => ReplayInv'
<1> SUFFICES ASSUME ReplayInv, RunStatement PROVE ReplayInv'
  OBVIOUS
<1>1. PICK s \in Statements, place \in Places, runs \in BOOLEAN :
        /\ place # "nested" => runs
        /\ runs => Accepted(s)
        /\ database' = IF runs THEN Executed(database, s) ELSE database
        /\ place = "direct" => replayed' = Applied(replayed, s)
        /\ place = "keyword" => replayed' = replayed
        /\ place \in {"nested", "hidden"} => replayed' = [replayed EXCEPT !.unsupported = TRUE]
        /\ raised' = (raised \/ place = "keyword")
        /\ exact' = (exact /\ ~Approximated(s))
  BY DEF RunStatement
<1>2. IsDatabase(database) /\ IsSchema(replayed) /\ exact \in BOOLEAN
  BY DEF ReplayInv
<1>3. IsDatabase(database') /\ exact' \in BOOLEAN
  BY <1>1, <1>2, ExecutedTables
<1>7. CASE place = "keyword"
  BY <1>1, <1>2, <1>3, <1>7 DEF ReplayInv
<1>4. CASE place \in {"nested", "hidden"}
  <2>1. replayed' = [tables |-> replayed.tables, constraints |-> replayed.constraints,
                     indexes |-> replayed.indexes, unsupported |-> TRUE]
    BY <1>1, <1>2, <1>4 DEF IsSchema
  <2>2. IsSchema(replayed')
    BY <1>2, <2>1 DEF IsSchema
  <2>3. QED
    BY <1>3, <2>1, <2>2 DEF ReplayInv
<1>5. CASE place = "direct"
  <2>1. database' = Executed(database, s) /\ replayed' = Applied(replayed, s)
    BY <1>1, <1>5
  <2>2. IsSchema(replayed')
    BY <1>2, <2>1, AppliedSchema
  <2>3. replayed'.unsupported = replayed.unsupported \/ replayed'.unsupported = TRUE
    <3>1. CASE s.op \in OfColumns
      BY <1>2, <2>1, <3>1, AppliedColumns
    <3>2. CASE s.op \notin OfColumns
      <4>1. Applied(replayed, s).unsupported = replayed.unsupported
        <5> DEFINE new == Applied(replayed, s)
        <5>1. new = [tables |-> new.tables, constraints |-> new.constraints,
                     indexes |-> new.indexes, unsupported |-> replayed.unsupported]
          BY <1>2, <3>2, AppliedOthers
        <5> HIDE DEF new
        <5>2. new.unsupported = replayed.unsupported
          BY <5>1
        <5>3. QED
          BY <5>2 DEF new
      <4>2. QED
        BY <2>1, <4>1
    <3>3. QED
      BY <3>1, <3>2
  <2>4. ASSUME ~raised', ~replayed'.unsupported
        PROVE  /\ Agree(replayed'.tables, database'.tables, exact')
               /\ exact' => /\ Matched(replayed'.constraints, database'.constraints,
                                       DOMAIN database'.tables)
                            /\ MatchedIndexes(replayed'.indexes, database'.indexes)
    <3>1. /\ Agree(replayed.tables, database.tables, exact)
          /\ exact => /\ Matched(replayed.constraints, database.constraints, DOMAIN database.tables)
                      /\ MatchedIndexes(replayed.indexes, database.indexes)
      BY <1>1, <2>3, <2>4 DEF ReplayInv
    <3>2. Agree(Applied(replayed, s).tables, Executed(database, s).tables, exact /\ ~Approximated(s))
      BY <1>1, <1>2, <1>5, <3>1, TablesAfter
    <3>3. ASSUME exact, ~Approximated(s)
          PROVE  /\ Matched(Applied(replayed, s).constraints, Executed(database, s).constraints,
                            DOMAIN Executed(database, s).tables)
                 /\ MatchedIndexes(Applied(replayed, s).indexes, Executed(database, s).indexes)
      BY <1>1, <1>2, <1>5, <3>1, <3>3, ConstraintsAfter
    <3>4. QED
      BY <1>1, <2>1, <3>2, <3>3
  <2>5. QED
    BY <1>3, <2>2, <2>4 DEF ReplayInv
<1>6. QED
  BY <1>4, <1>5, <1>7 DEF Places

\* The next revision changes neither.
LEMMA NextRevisionKeepsReplay == ReplayInv /\ NextRevision => ReplayInv'
<1> SUFFICES ASSUME ReplayInv, NextRevision PROVE ReplayInv'
  OBVIOUS
<1>1. replayed' = replayed /\ exact' = exact /\ raised' = raised
  BY DEF NextRevision
<1>2. /\ IsDatabase(database')
      /\ database'.constraints = database.constraints /\ database'.indexes = database.indexes
      /\ DOMAIN database'.tables = DOMAIN database.tables
      /\ \A t \in DOMAIN database.tables :
           /\ database'.tables[t].columns = database.tables[t].columns
           /\ database'.tables[t].required = database.tables[t].required
  BY AgedDatabase DEF ReplayInv
<1>3. Agree(replayed.tables, database.tables, exact) => Agree(replayed.tables, database'.tables, exact)
  BY <1>2 DEF Agree
<1>4. QED
  BY <1>1, <1>2, <1>3 DEF ReplayInv

\* Both start empty.
LEMMA ReplayStarts == ReplayInit => ReplayInv
<1> SUFFICES ASSUME ReplayInit PROVE ReplayInv
  OBVIOUS
<1>1. /\ database = [tables |-> <<>>, constraints |-> {}, indexes |-> {}] /\ exact = TRUE
      /\ replayed = [tables |-> <<>>, constraints |-> <<>>, indexes |-> <<>>, unsupported |-> FALSE]
  BY DEF ReplayInit
<1>2. IsDatabase(database)
  BY <1>1 DEF IsDatabase, AreTables
<1>3. IsSchema(replayed)
  BY <1>1 DEF IsSchema, IsFunction
<1>4. /\ database.constraints = {} /\ database.indexes = {} /\ DOMAIN database.tables = {}
      /\ DOMAIN replayed.tables = {} /\ DOMAIN replayed.constraints = {} /\ DOMAIN replayed.indexes = {}
  BY <1>1
<1>5. /\ Agree(replayed.tables, database.tables, exact)
      /\ Matched(replayed.constraints, database.constraints, DOMAIN database.tables)
      /\ MatchedIndexes(replayed.indexes, database.indexes)
  BY <1>4 DEF Agree, Matched, MatchedIndexes
<1>6. QED
  BY <1>1, <1>2, <1>3, <1>5 DEF ReplayInv

\* The invariant says what the property asks.
LEMMA MatchedIsTheDatabase == ReplayInv => ReplayIsTheDatabase
<1> SUFFICES ASSUME ReplayInv, ~raised, ~replayed.unsupported PROVE ReplayIsTheDatabase
  BY DEF ReplayIsTheDatabase
<1>1. Agree(replayed.tables, database.tables, exact)
  BY DEF ReplayInv
<1>2. ASSUME exact
      PROVE  /\ {replayed.constraints[n] : n \in DOMAIN replayed.constraints}
                  = {Shape(d) : d \in database.constraints}
             /\ {replayed.indexes[n] : n \in DOMAIN replayed.indexes}
                  = {Shape(d) : d \in database.indexes}
  <2>1. /\ Matched(replayed.constraints, database.constraints, DOMAIN database.tables)
        /\ MatchedIndexes(replayed.indexes, database.indexes)
    BY <1>2 DEF ReplayInv
  <2>2. {replayed.constraints[n] : n \in DOMAIN replayed.constraints}
           = {Shape(d) : d \in database.constraints}
    <3>1. \A d \in database.constraints :
            \E n \in DOMAIN replayed.constraints : replayed.constraints[n] = Shape(d)
      BY <2>1 DEF Matched
    <3>2. \A n \in DOMAIN replayed.constraints :
            \E d \in database.constraints : replayed.constraints[n] = Shape(d)
      BY <2>1 DEF Matched
    <3>3. QED
      BY <3>1, <3>2
  <2>3. {replayed.indexes[n] : n \in DOMAIN replayed.indexes} = {Shape(d) : d \in database.indexes}
    <3>1. \A d \in database.indexes :
            \E n \in DOMAIN replayed.indexes : replayed.indexes[n] = Shape(d)
      BY <2>1 DEF MatchedIndexes
    <3>2. \A n \in DOMAIN replayed.indexes :
            \E d \in database.indexes : replayed.indexes[n] = Shape(d)
      BY <2>1 DEF MatchedIndexes
    <3>3. QED
      BY <3>1, <3>2
  <2>4. QED
    BY <2>2, <2>3
<1>3. QED
  BY <1>1, <1>2 DEF ReplayIsTheDatabase, SameSchema, Agree

\* Unless it says it could not read something, the replay has the tables and columns of
\* the database, and with no approximated statement its constraints and indexes (_apply).
THEOREM ReplayedSchema == ReplaySpec => []ReplayIsTheDatabase
<1>1. ReplayInv /\ [ReplayNext]_<<vars, replayVars>> => ReplayInv'
  <2>1. ASSUME ReplayInv, UNCHANGED replayVars PROVE ReplayInv'
    BY <2>1 DEF ReplayInv, replayVars
  <2>2. QED
    BY <2>1, RunStatementKeepsReplay, NextRevisionKeepsReplay DEF ReplayNext
<1>2. QED
  BY ReplayStarts, <1>1, MatchedIsTheDatabase, PTL DEF ReplaySpec
=============================================================================
