---------------------------- MODULE SeedingProofs ----------------------------
(***************************************************************************)
(* The seeder for every schema, any number of tables and rows and every    *)
(* CHECK of the kinds its recognizer knows: the search finds the cycles,   *)
(* the order puts parents first, what is copied is accepted and what is    *)
(* committed is complete.                                                  *)
(***************************************************************************)
EXTENDS Seeding, FiniteSetTheorems, SequenceTheorems, WellFoundedInduction, TLAPS

(***************************************************************************)
(* Least elements, which stand for induction                               *)
(***************************************************************************)

LEMMA LeastElement ==
  ASSUME NEW S \in SUBSET Nat, S # {}
  PROVE  \E m \in S : \A k \in S : m <= k
<1> DEFINE R == StrictSubsetOrdering(Nat)
           T == {0..k : k \in S}
<1>1. T \subseteq FiniteSubsetsOf(Nat) /\ T # {}
  <2>1. ASSUME NEW k \in S PROVE 0..k \in FiniteSubsetsOf(Nat)
    <3>1. IsFiniteSet(0..k) /\ 0..k \subseteq Nat
      BY FS_Interval
    <3>2. QED
      BY <3>1 DEF FiniteSubsetsOf
  <2>2. QED
    BY <2>1
<1>2. \E x \in T : \A y \in T : ~(<<y, x>> \in R)
  <2> HIDE DEF T
  <2>1. IsWellFoundedOn(R, FiniteSubsetsOf(Nat))
    BY FS_StrictSubsetOrderingWellFounded
  <2>2. QED
    BY <1>1, <2>1, WFMin
<1>3. PICK m \in S : \A k \in S : ~(<<0..k, 0..m>> \in R)
  BY <1>2
<1>4. ASSUME NEW k \in S, ~(m <= k) PROVE FALSE
  <2>1. 0..k \subseteq 0..m /\ m \in 0..m /\ m \notin 0..k
    BY <1>4
  <2>2. <<0..k, 0..m>> \in R
    BY <2>1 DEF StrictSubsetOrdering
  <2>3. QED
    BY <1>3, <2>2
<1>5. QED
  BY <1>4

LEMMA FirstIsLeast ==
  ASSUME NEW S \in SUBSET Nat, S # {}
  PROVE  First(S) \in S /\ \A k \in S : First(S) <= k
BY LeastElement DEF First

(***************************************************************************)
(* Reaching                                                                *)
(***************************************************************************)

\* t is u, or reaches it.
Links(t, u) == t = u \/ Reaches(t, u)

\* The tables that t reaches and that reach t.
Class(t) == {u \in Tables : u = t \/ (Reaches(t, u) /\ Reaches(u, t))}

LEMMA ParentsAreTables ==
  ASSUME fks \subseteq ForeignKeys, NEW t
  PROVE  Parents(t) \subseteq Tables
BY DEF Parents, Of, ForeignKeys

LEMMA ParentReached ==
  ASSUME NEW t, NEW p \in Parents(t)
  PROVE  Reaches(t, p)
BY DEF Reaches

LEMMA ReachesOn ==
  ASSUME NEW t, NEW u, NEW v, Reaches(t, u), Reaches(u, v)
  PROVE  Reaches(t, v)
BY DEF Reaches

LEMMA LinksOn ==
  ASSUME NEW t, NEW u, NEW v, Links(t, u), Links(u, v)
  PROVE  Links(t, v)
BY ReachesOn DEF Links

\* What a table of a closed set reaches is in it.
LEMMA ClosedSet ==
  ASSUME NEW S \in SUBSET Tables, \A s \in S : Parents(s) \subseteq S,
         NEW t \in S, NEW u, Links(t, u)
  PROVE  u \in S
BY DEF Links, Reaches

(***************************************************************************)
(* The search for the components                                           *)
(***************************************************************************)

Frames == [node : Tables, successors : SUBSET Tables]
Entered == {t \in Tables : index[t] # 0}
InWork(t) == \E i \in DOMAIN work : work[i].node = t

SearchOK ==
  /\ fks \subseteq ForeignKeys
  /\ index \in [Tables -> Nat] /\ low \in [Tables -> Nat]
  /\ stack \in Seq(Tables) /\ work \in Seq(Frames)
  /\ components \subseteq SUBSET Tables

\* The numbers are given in order, no two tables have the same, and the stack and the
\* frames are in their order; at the bottom of both is the table the search started from.
Ascending ==
  /\ \A t \in Tables : index[t] <= Cardinality(Entered)
  /\ \A t, u \in Tables : index[t] = index[u] /\ index[t] # 0 => t = u
  /\ \A i, j \in DOMAIN stack : i < j => index[stack[i]] < index[stack[j]]
  /\ \A i, j \in DOMAIN work : i < j => index[work[i].node] < index[work[j].node]
  /\ \A i \in DOMAIN work : OnStack(work[i].node)
  /\ \A x \in Tables : OnStack(x) => index[x] # 0 /\ work # <<>> /\ index[work[1].node] <= index[x]

\* A frame's table reaches all that is above it on the stack, its low point is at most
\* those of the tables up to the next frame, and at most the number of each parent it has
\* dealt with that is on the stack, but for the one the next frame is about.
FrameFacts ==
  \A i \in DOMAIN work :
    /\ work[i].successors \subseteq Parents(work[i].node)
    /\ \A x \in Tables : OnStack(x) /\ index[work[i].node] <= index[x] =>
         /\ Links(work[i].node, x)
         /\ (i + 1 \in DOMAIN work => index[x] < index[work[i + 1].node])
              => low[work[i].node] <= low[x]
    /\ \A p \in Parents(work[i].node) \ work[i].successors :
         /\ index[p] # 0
         /\ \/ ~OnStack(p)
            \/ low[work[i].node] <= index[p]
            \/ i + 1 \in DOMAIN work /\ p = work[i + 1].node

\* A low point is the number of a table on the stack that is reached; of a table that is
\* finished it is below its own number, and at most that of its parents on the stack.
LowFacts ==
  \A x \in Tables : OnStack(x) =>
    /\ low[x] <= index[x]
    /\ \E y \in Tables : OnStack(y) /\ index[y] = low[x] /\ Links(x, y)
    /\ ~InWork(x) =>
         /\ low[x] < index[x]
         /\ \A p \in Parents(x) : index[p] # 0 /\ (OnStack(p) => low[x] <= index[p])

Done == UNION components

\* A table that was entered is on the stack or in a component, whose parents are in
\* components, and which is a class.
ComponentFacts ==
  /\ \A t \in Tables : index[t] # 0 <=> OnStack(t) \/ t \in Done
  /\ \A t \in Done : ~OnStack(t) /\ Parents(t) \subseteq Done
  /\ \A c \in components : c # {} /\ \A t \in c : c = Class(t)

SearchInv == SearchOK /\ Ascending /\ FrameFacts /\ LowFacts /\ ComponentFacts

\* What the search's facts are about stays with the foreign keys.
LEMMA SameKeys ==
  ASSUME UNCHANGED fks
  PROVE  /\ \A t : Parents(t)' = Parents(t)
         /\ \A t, u : Reaches(t, u)' <=> Reaches(t, u)
         /\ \A t, u : Links(t, u)' <=> Links(t, u)
         /\ \A t : Class(t)' = Class(t)
<1>1. \A t : Parents(t)' = Parents(t)
  BY DEF Parents, Of
<1>2. \A t, u : Reaches(t, u)' <=> Reaches(t, u)
  BY <1>1 DEF Reaches
<1>3. \A t, u : Links(t, u)' <=> Links(t, u)
  BY <1>2 DEF Links
<1>4. \A t : Class(t)' = Class(t)
  BY <1>2 DEF Class
<1>5. QED
  BY <1>1, <1>2, <1>3, <1>4

LEMMA SearchInvInit == Init => SearchInv
<1> SUFFICES ASSUME Init PROVE SearchInv
  OBVIOUS
<1>1. fks \subseteq ForeignKeys
  <2>1. fks \in Schemas
    BY DEF Init
  <2> DEFINE Keys(p, nullable, composite) ==
               {[table |-> x[1], referenced |-> x[2], nullable |-> x \in nullable,
                 composite |-> x \in composite] : x \in p}
             Few(p) == {c \in SUBSET p : Cardinality(p) + Cardinality(c) <= MaxForeignKeyColumns}
             Chosen == {p \in SUBSET (Tables \X Tables) : Cardinality(p) <= MaxForeignKeyColumns}
  <2>2. fks \in UNION {{Keys(p, nullable, composite) : nullable \in SUBSET p, composite \in Few(p)} : p \in Chosen}
    BY <2>1 DEF Schemas
  <2>3. PICK p \in SUBSET (Tables \X Tables) : \E nullable, composite : fks = Keys(p, nullable, composite)
    <3>1. Chosen \subseteq SUBSET (Tables \X Tables)
      OBVIOUS
    <3> HIDE DEF Keys, Few, Chosen
    <3>2. QED
      BY <2>2, <3>1
  <2>4. PICK nullable, composite : fks = Keys(p, nullable, composite)
    BY <2>3
  <2>5. ASSUME NEW f \in fks PROVE f \in ForeignKeys
    <3>1. PICK x \in p : f = [table |-> x[1], referenced |-> x[2], nullable |-> x \in nullable,
                              composite |-> x \in composite]
      BY <2>4
    <3>2. x[1] \in Tables /\ x[2] \in Tables
      OBVIOUS
    <3>3. QED
      BY <3>1, <3>2 DEF ForeignKeys
  <2>6. QED
    BY <2>5
<1>2. SearchOK
  BY <1>1 DEF Init, SearchOK, Zero
<1>3. /\ \A t \in Tables : index[t] = 0
      /\ \A t : ~OnStack(t)
      /\ components = {} /\ work = <<>> /\ stack = <<>>
  BY DEF Init, Zero, OnStack
<1>4. Ascending
  <2>1. Entered = {}
    BY <1>3 DEF Entered
  <2>2. Cardinality(Entered) = 0
    BY <2>1, FS_EmptySet
  <2>3. QED
    BY <1>3, <2>2 DEF Ascending
<1>5. FrameFacts /\ LowFacts /\ ComponentFacts
  BY <1>3 DEF FrameFacts, LowFacts, ComponentFacts, Done
<1>6. QED
  BY <1>2, <1>4, <1>5 DEF SearchInv

\* A table is entered: the frames are those before, of which the last has dealt with it.
Entering(t, frames) ==
  /\ t \in Tables /\ index[t] = 0
  /\ frames \in Seq(Frames) /\ Len(frames) = Len(work)
  /\ \A i \in DOMAIN work :
       /\ frames[i].node = work[i].node
       /\ i # Len(work) => frames[i] = work[i]
       /\ i = Len(work) => /\ t \in Parents(work[i].node)
                           /\ frames[i].successors = work[i].successors \ {t}

LEMMA EnterFacts ==
  ASSUME SearchInv, NEW t, NEW frames, Entering(t, frames), Enter(t, frames),
         UNCHANGED <<fks, components>>
  PROVE  /\ SearchOK'
         /\ \A x \in Tables : index'[x] = IF x = t THEN Counter ELSE index[x]
         /\ \A x \in Tables : low'[x] = IF x = t THEN Counter ELSE low[x]
         /\ \A x : OnStack(x)' <=> OnStack(x) \/ x = t
         /\ DOMAIN stack' = DOMAIN stack \cup {Len(stack) + 1} /\ stack'[Len(stack) + 1] = t
         /\ \A i \in DOMAIN stack : stack'[i] = stack[i]
         /\ DOMAIN work' = DOMAIN work \cup {Len(work) + 1} /\ Len(work) + 1 \notin DOMAIN work
         /\ work'[Len(work) + 1] = [node |-> t, successors |-> Parents(t)]
         /\ \A i \in DOMAIN work : work'[i] = frames[i]
         /\ Cardinality(Entered)' = Counter /\ Counter = Cardinality(Entered) + 1
         /\ Cardinality(Entered) \in Nat
<1>1. SearchOK /\ t \in Tables
  BY DEF SearchInv, Entering
<1>2. Counter = Cardinality(Entered) + 1 /\ Cardinality(Entered) \in Nat /\ IsFiniteSet(Entered)
  <2>1. Entered \in SUBSET Tables
    BY DEF Entered
  <2>2. IsFiniteSet(Entered)
    BY <2>1, FS_Subset, TablesAssumption
  <2>3. QED
    BY <2>2, FS_CardinalityType DEF Entered, Counter
<1>3. Counter \in Nat
  BY <1>2
<1>4. /\ index' = [index EXCEPT ![t] = Counter] /\ low' = [low EXCEPT ![t] = Counter]
      /\ stack' = Append(stack, t)
      /\ work' = Append(frames, [node |-> t, successors |-> Parents(t)])
  BY DEF Enter
<1>5. /\ \A x \in Tables : index'[x] = IF x = t THEN Counter ELSE index[x]
      /\ \A x \in Tables : low'[x] = IF x = t THEN Counter ELSE low[x]
      /\ index' \in [Tables -> Nat] /\ low' \in [Tables -> Nat]
  BY <1>1, <1>3, <1>4 DEF SearchOK
<1>6. /\ stack' \in Seq(Tables)
      /\ DOMAIN stack' = DOMAIN stack \cup {Len(stack) + 1} /\ stack'[Len(stack) + 1] = t
      /\ \A i \in DOMAIN stack : stack'[i] = stack[i]
  BY <1>1, <1>4 DEF SearchOK
<1>7. \A x : OnStack(x)' <=> OnStack(x) \/ x = t
  BY <1>6 DEF OnStack
<1>8. /\ work' \in Seq(Frames)
      /\ DOMAIN work' = DOMAIN work \cup {Len(work) + 1} /\ Len(work) + 1 \notin DOMAIN work
      /\ work'[Len(work) + 1] = [node |-> t, successors |-> Parents(t)]
      /\ \A i \in DOMAIN work : work'[i] = frames[i]
  <2>1. Parents(t) \subseteq Tables
    BY <1>1, ParentsAreTables DEF SearchOK
  <2> DEFINE frame == [node |-> t, successors |-> Parents(t)]
  <2>2. frame \in Frames
    BY <1>1, <2>1 DEF Frames
  <2>3. work' = Append(frames, frame)
    BY <1>4
  <2> HIDE DEF frame
  <2>4. frames \in Seq(Frames) /\ Len(frames) = Len(work) /\ work \in Seq(Frames)
    BY <1>1 DEF Entering, SearchOK
  <2>5. /\ work' \in Seq(Frames)
        /\ DOMAIN work' = DOMAIN work \cup {Len(work) + 1} /\ Len(work) + 1 \notin DOMAIN work
        /\ work'[Len(work) + 1] = frame
        /\ \A i \in DOMAIN work : work'[i] = frames[i]
    BY <2>2, <2>3, <2>4
  <2>6. QED
    BY <2>5 DEF frame
<1>9. Cardinality(Entered)' = Counter
  <2>1. Entered' = Entered \cup {t} /\ t \notin Entered
    BY <1>1, <1>2, <1>5 DEF Entered, Entering
  <2>2. QED
    BY <1>2, <2>1, FS_AddElement
<1>10. SearchOK'
  BY <1>1, <1>5, <1>6, <1>8 DEF SearchOK
<1>11. QED
  BY <1>2, <1>3, <1>5, <1>6, <1>7, <1>8, <1>9, <1>10

\* The table that is entered gets the greatest number, and reaches no frame yet.
LEMMA EnterKeeps ==
  ASSUME SearchInv, NEW t, NEW frames, Entering(t, frames), Enter(t, frames),
         UNCHANGED <<fks, components>>
  PROVE  SearchInv'
<1> DEFINE N == Counter
           n == Len(work)
<1>0. SearchOK /\ t \in Tables /\ index[t] = 0 /\ ~OnStack(t)
  BY DEF SearchInv, Entering, Ascending
<1>1. /\ SearchOK'
      /\ \A x \in Tables : index'[x] = IF x = t THEN N ELSE index[x]
      /\ \A x \in Tables : low'[x] = IF x = t THEN N ELSE low[x]
      /\ \A x : OnStack(x)' <=> OnStack(x) \/ x = t
      /\ DOMAIN stack' = DOMAIN stack \cup {Len(stack) + 1} /\ stack'[Len(stack) + 1] = t
      /\ \A i \in DOMAIN stack : stack'[i] = stack[i]
      /\ DOMAIN work' = DOMAIN work \cup {n + 1} /\ n + 1 \notin DOMAIN work
      /\ work'[n + 1] = [node |-> t, successors |-> Parents(t)]
      /\ \A i \in DOMAIN work : work'[i] = frames[i]
      /\ Cardinality(Entered)' = N /\ N = Cardinality(Entered) + 1 /\ Cardinality(Entered) \in Nat
  BY EnterFacts
<1>2. /\ \A x : Parents(x)' = Parents(x)
      /\ \A x, y : Links(x, y)' <=> Links(x, y)
      /\ \A x : Class(x)' = Class(x)
  BY SameKeys
<1>3. /\ DOMAIN work = 1..n /\ n \in Nat /\ DOMAIN stack = 1..Len(stack) /\ Len(stack) \in Nat
      /\ \A i \in DOMAIN work : work[i].node \in Tables
      /\ \A i \in DOMAIN stack : stack[i] \in Tables /\ OnStack(stack[i])
      /\ index \in [Tables -> Nat] /\ low \in [Tables -> Nat]
  <2>1. work \in Seq(Frames) /\ stack \in Seq(Tables) /\ index \in [Tables -> Nat] /\ low \in [Tables -> Nat]
    BY <1>0 DEF SearchOK
  <2>2. \A i \in DOMAIN work : work[i] \in Frames
    BY <2>1
  <2>3. \A i \in DOMAIN work : work[i].node \in Tables
    BY <2>2 DEF Frames
  <2>4. \A i \in DOMAIN stack : stack[i] \in Tables /\ OnStack(stack[i])
    BY <2>1 DEF OnStack
  <2>5. QED
    BY <2>1, <2>3, <2>4
<1>4. /\ \A x \in Tables : index[x] < N
      /\ \A x \in Tables : x # t => index'[x] = index[x] /\ low'[x] = low[x]
      /\ index'[t] = N /\ low'[t] = N /\ N # 0 /\ N \in Nat
      /\ \A x \in Tables : index'[x] <= N /\ index'[x] \in Nat
  <2>1. \A x \in Tables : index[x] <= Cardinality(Entered) /\ index[x] \in Nat
    BY <1>3 DEF SearchInv, Ascending
  <2>2. QED
    BY <1>0, <1>1, <2>1
<1>5. /\ \A i \in DOMAIN work : work'[i].node = work[i].node /\ work[i].node # t
      /\ work'[n + 1].node = t /\ work'[n + 1].successors = Parents(t)
      /\ \A i \in DOMAIN work : i # n => work'[i] = work[i]
      /\ \A i \in DOMAIN work : i = n => /\ t \in Parents(work[i].node)
                                         /\ work'[i].successors = work[i].successors \ {t}
  <2>1. \A i \in DOMAIN work : OnStack(work[i].node)
    BY DEF SearchInv, Ascending
  <2>2. QED
    BY <1>0, <1>1, <2>1 DEF Entering
<1> HIDE DEF N, n
<1>6. Ascending'
  <2>1. \A x \in Tables : index'[x] <= Cardinality(Entered)'
    BY <1>1, <1>3, <1>4
  <2>2. \A x, y \in Tables : index'[x] = index'[y] /\ index'[x] # 0 => x = y
    BY <1>1, <1>3, <1>4 DEF SearchInv, Ascending
  <2>3. \A i, j \in DOMAIN stack' : i < j => index'[stack'[i]] < index'[stack'[j]]
    <3> SUFFICES ASSUME NEW i \in DOMAIN stack', NEW j \in DOMAIN stack', i < j
                 PROVE  index'[stack'[i]] < index'[stack'[j]]
      OBVIOUS
    <3>1. i \in DOMAIN stack /\ stack'[i] = stack[i] /\ stack[i] # t
      BY <1>0, <1>1, <1>3
    <3>2. CASE j \in DOMAIN stack
      BY <1>0, <1>1, <1>3, <1>4, <3>1, <3>2 DEF SearchInv, Ascending
    <3>3. CASE j = Len(stack) + 1
      BY <1>1, <1>3, <1>4, <3>1, <3>3
    <3>4. QED
      BY <1>1, <3>2, <3>3
  <2>4. \A i, j \in DOMAIN work' : i < j => index'[work'[i].node] < index'[work'[j].node]
    <3> SUFFICES ASSUME NEW i \in DOMAIN work', NEW j \in DOMAIN work', i < j
                 PROVE  index'[work'[i].node] < index'[work'[j].node]
      OBVIOUS
    <3>1. i \in DOMAIN work /\ work'[i].node = work[i].node /\ work[i].node # t /\ work[i].node \in Tables
      BY <1>1, <1>3, <1>5
    <3>2. CASE j \in DOMAIN work
      <4>1. index[work[i].node] < index[work[j].node]
        BY <3>1, <3>2 DEF SearchInv, Ascending
      <4>2. QED
        BY <1>3, <1>4, <1>5, <3>1, <3>2, <4>1
    <3>3. CASE j = n + 1
      BY <1>1, <1>3, <1>4, <1>5, <3>1, <3>3
    <3>4. QED
      BY <1>1, <3>2, <3>3
  <2>5. \A i \in DOMAIN work' : OnStack(work[i].node)'
    BY <1>1, <1>5 DEF SearchInv, Ascending
  <2>6. ASSUME NEW x \in Tables, OnStack(x)'
        PROVE  index'[x] # 0 /\ work' # <<>> /\ index'[work'[1].node] <= index'[x]
    <3>1. work' # <<>>
      BY <1>1
    <3>2. CASE x = t
      <4>1. 1 \in DOMAIN work'
        BY <1>1, <1>3
      <4>2. work'[1].node \in Tables
        BY <1>0, <1>1, <1>3, <1>5, <4>1
      <4>3. index'[work'[1].node] <= N /\ index'[x] = N
        BY <1>4, <3>2, <4>2
      <4>4. QED
        BY <1>4, <3>1, <4>3
    <3>3. CASE x # t
      <4>1. OnStack(x) /\ index[x] # 0 /\ work # <<>> /\ index[work[1].node] <= index[x]
        BY <1>1, <2>6, <3>3 DEF SearchInv, Ascending
      <4>2. 1 \in DOMAIN work
        BY <1>0, <4>1 DEF SearchOK
      <4>3. QED
        BY <1>3, <1>4, <1>5, <3>1, <3>3, <4>1, <4>2
    <3>4. QED
      BY <3>2, <3>3
  <2>7. QED
    BY <2>1, <2>2, <2>3, <2>4, <2>5, <2>6 DEF Ascending
<1>7. FrameFacts'
  <2> SUFFICES ASSUME NEW i \in DOMAIN work'
               PROVE  (/\ work[i].successors \subseteq Parents(work[i].node)
                       /\ \A x \in Tables : OnStack(x) /\ index[work[i].node] <= index[x] =>
                            /\ Links(work[i].node, x)
                            /\ (i + 1 \in DOMAIN work => index[x] < index[work[i + 1].node])
                                 => low[work[i].node] <= low[x]
                       /\ \A p \in Parents(work[i].node) \ work[i].successors :
                            /\ index[p] # 0
                            /\ \/ ~OnStack(p)
                               \/ low[work[i].node] <= index[p]
                               \/ i + 1 \in DOMAIN work /\ p = work[i + 1].node)'
    BY DEF FrameFacts
  <2>1. CASE i = n + 1
    <3>1. \A x \in Tables : OnStack(x)' /\ index'[t] <= index'[x] => x = t
      BY <1>1, <1>3, <1>4
    <3>2. QED
      BY <1>0, <1>1, <1>2, <1>4, <1>5, <2>1, <3>1 DEF Links
  <2>2. CASE i \in DOMAIN work
    <3>0. PICK v : v = work[i].node
      OBVIOUS
    <3>1. /\ v \in Tables /\ v # t /\ work'[i].node = v /\ OnStack(v)
          /\ index'[v] = index[v] /\ low'[v] = low[v] /\ index[v] \in Nat /\ index[v] < N
      BY <1>1, <1>3, <1>4, <1>5, <2>2, <3>0 DEF SearchInv, Ascending
    <3>2. /\ work[i].successors \subseteq Parents(v)
          /\ \A x \in Tables : OnStack(x) /\ index[v] <= index[x] =>
               /\ Links(v, x)
               /\ (i + 1 \in DOMAIN work => index[x] < index[work[i + 1].node]) => low[v] <= low[x]
          /\ \A p \in Parents(v) \ work[i].successors :
               /\ index[p] # 0
               /\ \/ ~OnStack(p)
                  \/ low[v] <= index[p]
                  \/ i + 1 \in DOMAIN work /\ p = work[i + 1].node
      BY <2>2, <3>0 DEF SearchInv, FrameFacts
    <3>3. Links(v, t)
      <4>1. n \in DOMAIN work
        BY <1>3, <2>2
      <4>2. t \in Parents(work[n].node) /\ work[n].node \in Tables /\ OnStack(work[n].node)
        BY <1>3, <1>5, <4>1 DEF SearchInv, Ascending
      <4>3. index[v] <= index[work[n].node]
        <5>1. CASE i = n
          BY <3>0, <3>1, <5>1
        <5>2. CASE i < n
          <6>1. index[v] < index[work[n].node] /\ index[work[n].node] \in Nat
            BY <1>3, <2>2, <3>0, <4>1, <4>2, <5>2 DEF SearchInv, Ascending
          <6>2. QED
            BY <3>1, <6>1
        <5>3. QED
          BY <1>3, <2>2, <5>1, <5>2
      <4>4. Links(v, work[n].node)
        BY <3>2, <4>2, <4>3
      <4>5. Links(work[n].node, t)
        BY <4>2, ParentReached DEF Links
      <4>6. QED
        BY <4>4, <4>5, LinksOn
    <3>4. (work[i].successors \subseteq Parents(work[i].node))'
      <4>1. work'[i].successors \subseteq work[i].successors
        BY <1>5, <2>2
      <4>2. QED
        BY <1>2, <3>1, <3>2, <4>1
    <3>5. ASSUME NEW x \in Tables, OnStack(x)', index'[v] <= index'[x]
          PROVE  /\ Links(v, x)'
                 /\ (i + 1 \in DOMAIN work' => index'[x] < index'[work'[i + 1].node]) => low'[v] <= low'[x]
      <4>1. CASE x = t
        <5>1. i + 1 \in DOMAIN work' /\ work'[i + 1].node \in Tables
          <6>1. i \in 1..n /\ DOMAIN work = 1..n /\ n \in Nat
            BY <1>3, <2>2
          <6>2. i + 1 = n + 1 \/ i + 1 \in DOMAIN work
            BY <6>1
          <6>3. i + 1 \in DOMAIN work'
            BY <1>1, <6>2
          <6>4. \A j \in DOMAIN work : work'[j].node \in Tables
            BY <1>3, <1>5
          <6>5. work'[n + 1].node \in Tables
            BY <1>0, <1>5
          <6>6. QED
            BY <6>2, <6>3, <6>4, <6>5
        <5>2. ~(index'[x] < index'[work'[i + 1].node])
          <6>1. index'[x] = N /\ index'[work'[i + 1].node] <= N /\ index'[work'[i + 1].node] \in Nat
            BY <1>4, <4>1, <5>1
          <6>2. QED
            BY <1>4, <6>1
        <5>3. Links(v, x)'
          BY <1>2, <3>3, <4>1
        <5>4. QED
          BY <5>1, <5>2, <5>3
      <4>2. CASE x # t
        <5>1. OnStack(x) /\ index[v] <= index[x] /\ index'[x] = index[x] /\ low'[x] = low[x]
          BY <1>1, <1>4, <3>1, <3>5, <4>2
        <5>2. ASSUME i + 1 \in DOMAIN work, i + 1 \in DOMAIN work' => index'[x] < index'[work'[i + 1].node]
              PROVE  index[x] < index[work[i + 1].node]
          BY <1>1, <1>3, <1>4, <1>5, <5>1, <5>2
        <5>3. QED
          BY <1>2, <3>1, <3>2, <5>1, <5>2
      <4>3. QED
        BY <4>1, <4>2
    <3>6. ASSUME NEW p \in Parents(v), p \notin work'[i].successors
          PROVE  /\ index'[p] # 0
                 /\ \/ ~OnStack(p)'
                    \/ low'[v] <= index'[p]
                    \/ i + 1 \in DOMAIN work' /\ p = work'[i + 1].node
      <4>0. p \in Tables
        BY <1>0, ParentsAreTables DEF SearchOK
      <4>1. CASE p \in work[i].successors
        <5>1. p = t /\ i = n
          BY <1>5, <2>2, <3>6, <4>1
        <5>2. QED
          BY <1>1, <1>4, <1>5, <5>1
      <4>2. CASE p \notin work[i].successors
        <5>1. /\ index[p] # 0 /\ p # t
              /\ \/ ~OnStack(p)
                 \/ low[v] <= index[p]
                 \/ i + 1 \in DOMAIN work /\ p = work[i + 1].node
          BY <1>0, <3>2, <4>2
        <5>2. QED
          BY <1>1, <1>4, <1>5, <3>1, <4>0, <5>1
      <4>3. QED
        BY <4>1, <4>2
    <3>7. QED
      BY <1>2, <3>0, <3>1, <3>4, <3>5, <3>6
  <2>3. QED
    BY <1>1, <2>1, <2>2
<1>8. LowFacts'
  <2> SUFFICES ASSUME NEW x \in Tables, OnStack(x)'
               PROVE  (/\ low[x] <= index[x]
                       /\ \E y \in Tables : OnStack(y) /\ index[y] = low[x] /\ Links(x, y)
                       /\ ~InWork(x) =>
                            /\ low[x] < index[x]
                            /\ \A p \in Parents(x) : index[p] # 0 /\ (OnStack(p) => low[x] <= index[p]))'
    BY DEF LowFacts
  <2>1. CASE x = t
    <3>1. InWork(x)'
      BY <1>1, <1>5, <2>1 DEF InWork
    <3>2. Links(x, x)'
      BY DEF Links
    <3>3. QED
      BY <1>1, <1>4, <2>1, <3>1, <3>2
  <2>2. CASE x # t
    <3>1. OnStack(x) /\ index'[x] = index[x] /\ low'[x] = low[x]
      BY <1>1, <1>4, <2>2
    <3>2. /\ low[x] <= index[x]
          /\ ~InWork(x) =>
               /\ low[x] < index[x]
               /\ \A p \in Parents(x) : index[p] # 0 /\ (OnStack(p) => low[x] <= index[p])
      BY <3>1 DEF SearchInv, LowFacts
    <3>3. PICK y \in Tables : OnStack(y) /\ index[y] = low[x] /\ Links(x, y)
      BY <3>1 DEF SearchInv, LowFacts
    <3>4. y # t /\ OnStack(y)' /\ index'[y] = low'[x] /\ Links(x, y)'
      BY <1>0, <1>1, <1>2, <1>4, <3>1, <3>3
    <3>5. InWork(x) => InWork(x)'
      BY <1>1, <1>5 DEF InWork
    <3>6. ASSUME ~InWork(x)', NEW p \in Parents(x)
          PROVE  index'[p] # 0 /\ (OnStack(p)' => low'[x] <= index'[p])
      <4>1. p \in Tables
        BY <1>0, ParentsAreTables DEF SearchOK
      <4>2. index[p] # 0 /\ p # t
        BY <1>0, <3>2, <3>5, <3>6
      <4>3. QED
        BY <1>1, <1>4, <3>1, <3>2, <3>5, <3>6, <4>1, <4>2
    <3>7. QED
      BY <1>2, <3>1, <3>2, <3>4, <3>5, <3>6
  <2>3. QED
    BY <2>1, <2>2
<1>9. ComponentFacts'
  <2>1. Done' = Done
    BY DEF Done
  <2>2. t \notin Done
    BY <1>0 DEF SearchInv, ComponentFacts
  <2>3. \A x \in Tables : index'[x] # 0 <=> OnStack(x)' \/ x \in Done'
    BY <1>1, <1>4, <2>1 DEF SearchInv, ComponentFacts
  <2>4. \A x \in Done' : ~OnStack(x)' /\ Parents(x)' \subseteq Done'
    BY <1>1, <1>2, <2>1, <2>2 DEF SearchInv, ComponentFacts
  <2>5. \A c \in components' : c # {} /\ \A x \in c : c = Class(x)'
    BY <1>2 DEF SearchInv, ComponentFacts
  <2>6. QED
    BY <2>3, <2>4, <2>5 DEF ComponentFacts
<1>10. QED
  BY <1>1, <1>6, <1>7, <1>8, <1>9 DEF SearchInv

\* What the facts of the search say of the tables of frames and of the stack.
LEMMA Places ==
  ASSUME SearchInv
  PROVE  /\ DOMAIN work = 1..Len(work) /\ Len(work) \in Nat
         /\ DOMAIN stack = 1..Len(stack) /\ Len(stack) \in Nat
         /\ \A i \in DOMAIN work : /\ work[i].node \in Tables /\ OnStack(work[i].node)
                                   /\ work[i].successors \subseteq Parents(work[i].node)
         /\ \A i \in DOMAIN work : Parents(work[i].node) \subseteq Tables
         /\ \A i \in DOMAIN stack : stack[i] \in Tables /\ OnStack(stack[i])
         /\ \A x \in Tables : index[x] \in Nat /\ low[x] \in Nat
         /\ \A i, j \in DOMAIN work : i < j => index[work[i].node] < index[work[j].node]
         /\ \A i, j \in DOMAIN work : work[i].node = work[j].node => i = j
<1>1. work \in Seq(Frames) /\ stack \in Seq(Tables) /\ index \in [Tables -> Nat] /\ low \in [Tables -> Nat]
  BY DEF SearchInv, SearchOK
<1>2. /\ DOMAIN work = 1..Len(work) /\ Len(work) \in Nat
      /\ DOMAIN stack = 1..Len(stack) /\ Len(stack) \in Nat
      /\ \A i \in DOMAIN work : work[i] \in Frames
      /\ \A x \in Tables : index[x] \in Nat /\ low[x] \in Nat
  BY <1>1
<1>3. \A i \in DOMAIN work : work[i].node \in Tables
  BY <1>2 DEF Frames
<1>4. \A i \in DOMAIN work : OnStack(work[i].node)
  BY DEF SearchInv, Ascending
<1>5. \A i \in DOMAIN work : work[i].successors \subseteq Parents(work[i].node)
  BY DEF SearchInv, FrameFacts
<1>6. \A i \in DOMAIN work : Parents(work[i].node) \subseteq Tables
  BY ParentsAreTables DEF SearchInv, SearchOK
<1>7. \A i \in DOMAIN stack : stack[i] \in Tables /\ OnStack(stack[i])
  BY <1>1 DEF OnStack
<1>8. \A i, j \in DOMAIN work : i < j => index[work[i].node] < index[work[j].node]
  BY DEF SearchInv, Ascending
<1>9. ASSUME NEW i \in DOMAIN work, NEW j \in DOMAIN work, work[i].node = work[j].node
      PROVE  i = j
  <2>1. ~(index[work[i].node] < index[work[j].node]) /\ ~(index[work[j].node] < index[work[i].node])
    BY <1>2, <1>3, <1>9
  <2>2. ~(i < j) /\ ~(j < i) /\ i \in Nat /\ j \in Nat
    BY <1>2, <1>8, <2>1
  <2>3. QED
    BY <2>2
<1>10. QED
  BY <1>2, <1>3, <1>4, <1>5, <1>6, <1>7, <1>8, <1>9

\* A frame deals with a parent that was entered.
LEMMA AdvanceKeeps ==
  ASSUME SearchInv, work # <<>>, NEW s \in Iterator, index[s] # 0,
         work' = [work EXCEPT ![Len(work)] = [node |-> Node, successors |-> Iterator \ {s}]],
         low' = IF OnStack(s) /\ index[s] < low[Node] THEN [low EXCEPT ![Node] = index[s]] ELSE low,
         UNCHANGED <<fks, index, stack, components>>
  PROVE  SearchInv'
<1>0. PICK n, v : n = Len(work) /\ v = Node
  OBVIOUS
<1>1. /\ DOMAIN work = 1..n /\ n \in Nat
      /\ \A i \in DOMAIN work : work[i].node \in Tables /\ OnStack(work[i].node)
      /\ \A x \in Tables : index[x] \in Nat /\ low[x] \in Nat
      /\ \A i, j \in DOMAIN work : i < j => index[work[i].node] < index[work[j].node]
      /\ \A i, j \in DOMAIN work : work[i].node = work[j].node => i = j
      /\ \A i \in DOMAIN work : work[i].successors \subseteq Parents(work[i].node)
      /\ \A i \in DOMAIN work : Parents(work[i].node) \subseteq Tables
  BY <1>0, Places
<1>2. n \in DOMAIN work /\ v = work[n].node /\ v \in Tables /\ OnStack(v)
  <2>1. n # 0
    BY <1>0 DEF SearchInv, SearchOK
  <2>2. QED
    BY <1>0, <1>1, <2>1 DEF Node
<1>3. s \in Parents(v) /\ s \in Tables /\ Iterator = work[n].successors /\ Links(v, s)
  BY <1>0, <1>1, <1>2, ParentReached DEF Iterator, Links
<1>4. /\ \A x : OnStack(x)' <=> OnStack(x)
      /\ \A x : Parents(x)' = Parents(x)
      /\ \A x, y : Links(x, y)' <=> Links(x, y)
      /\ \A x : Class(x)' = Class(x)
      /\ Entered' = Entered /\ Cardinality(Entered)' = Cardinality(Entered) /\ Done' = Done
  BY SameKeys DEF OnStack, Entered, Done
<1>5. /\ \A x \in Tables : x # v => low'[x] = low[x]
      /\ low'[v] <= low[v] /\ low'[v] \in Nat
      /\ OnStack(s) => low'[v] <= index[s]
      /\ low'[v] = low[v] \/ (OnStack(s) /\ low'[v] = index[s])
      /\ low' \in [Tables -> Nat]
  <2>1. low \in [Tables -> Nat] /\ index[s] \in Nat /\ low[v] \in Nat
    BY <1>1, <1>2, <1>3 DEF SearchInv, SearchOK
  <2>2. CASE OnStack(s) /\ index[s] < low[v]
    <3>1. low' = [low EXCEPT ![v] = index[s]]
      BY <1>0, <2>2
    <3>2. QED
      BY <1>2, <2>1, <2>2, <3>1
  <2>3. CASE ~(OnStack(s) /\ index[s] < low[v])
    <3>1. low' = low
      BY <1>0, <2>3
    <3>2. OnStack(s) => low'[v] <= index[s]
      BY <2>1, <2>3, <3>1
    <3>3. low' \in [Tables -> Nat] /\ low'[v] = low[v]
      BY <2>1, <3>1, Zenon
    <3>4. QED
      BY <2>1, <3>1, <3>2, <3>3
  <2>4. QED
    BY <2>2, <2>3
<1>6. /\ work' \in Seq(Frames) /\ DOMAIN work' = DOMAIN work
      /\ \A i \in DOMAIN work : work'[i].node = work[i].node
      /\ \A i \in DOMAIN work : i # n => work'[i] = work[i]
      /\ work'[n].successors = work[n].successors \ {s}
      /\ work' # <<>>
  <2>1. PICK frame : frame = [node |-> v, successors |-> work[n].successors \ {s}]
    OBVIOUS
  <2>2. frame \in Frames
    BY <1>1, <1>2, <2>1 DEF Frames
  <2>3. work' = [work EXCEPT ![n] = frame] /\ work \in Seq(Frames)
    BY <1>0, <1>3, <2>1 DEF SearchInv, SearchOK
  <2>4. /\ work' \in Seq(Frames) /\ DOMAIN work' = DOMAIN work
        /\ \A i \in DOMAIN work : i # n => work'[i] = work[i]
        /\ work'[n] = frame
    <3>1. DOMAIN work' = DOMAIN work
      BY <2>3
    <3>2. work'[n] = frame
      BY <1>2, <2>3
    <3>3. \A i \in DOMAIN work : i # n => work'[i] = work[i]
      BY <2>3
    <3>4. work' \in Seq(Frames)
      <4>1. n \in 1..Len(work) /\ work \in Seq(Frames)
        BY <1>0, <1>1, <1>2, <2>3
      <4>2. [work EXCEPT ![n] = frame] \in Seq(Frames)
        BY <2>2, <4>1, ExceptSeq
      <4>3. QED
        BY <2>3, <4>2
    <3>5. QED
      BY <3>1, <3>2, <3>3, <3>4
  <2>6. work' # <<>>
    BY <1>2, <2>4
  <2>7. QED
    BY <1>2, <2>1, <2>4, <2>6
<1>7. SearchOK'
  BY <1>5, <1>6 DEF SearchInv, SearchOK
<1>8. Ascending'
  <2>1. \A x \in Tables : index'[x] <= Cardinality(Entered)'
    BY <1>4 DEF SearchInv, Ascending
  <2>2. \A i, j \in DOMAIN work' : i < j => index'[work'[i].node] < index'[work'[j].node]
    BY <1>1, <1>6
  <2>3. \A i \in DOMAIN work' : OnStack(work[i].node)'
    BY <1>1, <1>4, <1>6
  <2>4. \A x \in Tables : OnStack(x)' => index'[x] # 0 /\ work' # <<>> /\ index'[work'[1].node] <= index'[x]
    <3>1. 1 \in DOMAIN work
      BY <1>1, <1>2
    <3>2. QED
      BY <1>4, <1>6, <3>1 DEF SearchInv, Ascending
  <2>5. QED
    BY <2>1, <2>2, <2>3, <2>4 DEF SearchInv, Ascending
<1>9. FrameFacts'
  <2> SUFFICES ASSUME NEW i \in DOMAIN work
               PROVE  (/\ work[i].successors \subseteq Parents(work[i].node)
                       /\ \A x \in Tables : OnStack(x) /\ index[work[i].node] <= index[x] =>
                            /\ Links(work[i].node, x)
                            /\ (i + 1 \in DOMAIN work => index[x] < index[work[i + 1].node])
                                 => low[work[i].node] <= low[x]
                       /\ \A p \in Parents(work[i].node) \ work[i].successors :
                            /\ index[p] # 0
                            /\ \/ ~OnStack(p)
                               \/ low[work[i].node] <= index[p]
                               \/ i + 1 \in DOMAIN work /\ p = work[i + 1].node)'
    BY <1>6 DEF FrameFacts
  <2>1. PICK u : u = work[i].node
    OBVIOUS
  <2>2. /\ u \in Tables /\ work'[i].node = u
        /\ i # n => u # v /\ i + 1 \in DOMAIN work /\ index[work[i + 1].node] <= index[v]
        /\ i = n => u = v /\ i + 1 \notin DOMAIN work
    <3>1. i # n => i + 1 \in DOMAIN work /\ (i + 1 = n \/ i + 1 < n)
      BY <1>1
    <3>2. QED
      BY <1>1, <1>2, <1>6, <2>1, <3>1
  <2>3. /\ work[i].successors \subseteq Parents(u)
        /\ \A x \in Tables : OnStack(x) /\ index[u] <= index[x] =>
             /\ Links(u, x)
             /\ (i + 1 \in DOMAIN work => index[x] < index[work[i + 1].node]) => low[u] <= low[x]
        /\ \A p \in Parents(u) \ work[i].successors :
             /\ index[p] # 0
             /\ \/ ~OnStack(p)
                \/ low[u] <= index[p]
                \/ i + 1 \in DOMAIN work /\ p = work[i + 1].node
    BY <2>1 DEF SearchInv, FrameFacts
  <2>4. work'[i].successors \subseteq Parents(u)
    BY <1>2, <1>6, <2>3
  <2>5. ASSUME NEW x \in Tables, OnStack(x), index[u] <= index[x]
        PROVE  /\ Links(u, x)
               /\ (i + 1 \in DOMAIN work => index[x] < index[work[i + 1].node]) => low'[u] <= low'[x]
    <3>1. ASSUME i + 1 \in DOMAIN work => index[x] < index[work[i + 1].node]
          PROVE  low'[u] <= low'[x]
      <4>1. low[u] <= low[x] /\ low[u] \in Nat /\ low[x] \in Nat
        BY <1>1, <2>2, <2>3, <2>5, <3>1
      <4>2. CASE x = v
        <5>1. i = n
          <6>1. SUFFICES ASSUME i # n PROVE FALSE
            OBVIOUS
          <6>2. index[work[i + 1].node] <= index[v] /\ index[v] < index[work[i + 1].node]
            BY <2>2, <3>1, <4>2, <6>1
          <6>3. work[i + 1].node \in Tables
            BY <1>1, <2>2, <6>1
          <6>4. QED
            BY <1>1, <1>2, <6>2, <6>3
        <5>2. QED
          BY <1>5, <2>2, <4>2, <5>1
      <4>3. CASE x # v
        BY <1>5, <2>2, <4>1, <4>3
      <4>4. QED
        BY <4>2, <4>3
    <3>2. QED
      BY <2>3, <2>5, <3>1
  <2>6. ASSUME NEW p \in Parents(u) \ work'[i].successors
        PROVE  /\ index[p] # 0
               /\ \/ ~OnStack(p)
                  \/ low'[u] <= index[p]
                  \/ i + 1 \in DOMAIN work /\ p = work[i + 1].node
    <3>1. CASE p \in work[i].successors
      <4>1. p = s /\ i = n
        BY <1>6, <2>6, <3>1
      <4>2. QED
        BY <1>5, <2>2, <4>1
    <3>2. CASE p \notin work[i].successors
      <4>1. /\ index[p] # 0
            /\ \/ ~OnStack(p)
               \/ low[u] <= index[p]
               \/ i + 1 \in DOMAIN work /\ p = work[i + 1].node
        BY <2>3, <3>2
      <4>2. low'[u] <= low[u] /\ low[u] \in Nat /\ low'[u] \in Nat
        BY <1>1, <1>5, <2>2
      <4>3. p \in Tables
        BY <1>1, <2>1
      <4>4. QED
        BY <1>1, <4>1, <4>2, <4>3
    <3>3. QED
      BY <3>1, <3>2
  <2>7. \A j \in DOMAIN work : work'[j].node = work[j].node
    BY <1>6
  <2>8. QED
    BY <1>4, <1>6, <2>2, <2>4, <2>5, <2>6, <2>7
<1>10. LowFacts'
  <2>1. \A x : InWork(x)' <=> InWork(x)
    BY <1>6 DEF InWork
  <2> SUFFICES ASSUME NEW x \in Tables, OnStack(x)
               PROVE  (/\ low[x] <= index[x]
                       /\ \E y \in Tables : OnStack(y) /\ index[y] = low[x] /\ Links(x, y)
                       /\ ~InWork(x) =>
                            /\ low[x] < index[x]
                            /\ \A p \in Parents(x) : index[p] # 0 /\ (OnStack(p) => low[x] <= index[p]))'
    BY <1>4 DEF LowFacts
  <2>2. /\ low[x] <= index[x]
        /\ \E y \in Tables : OnStack(y) /\ index[y] = low[x] /\ Links(x, y)
        /\ ~InWork(x) =>
             /\ low[x] < index[x]
             /\ \A p \in Parents(x) : index[p] # 0 /\ (OnStack(p) => low[x] <= index[p])
    BY DEF SearchInv, LowFacts
  <2>3. CASE x = v
    <3>1. InWork(x)
      BY <1>2, <2>3 DEF InWork
    <3>2. low'[x] <= index[x]
      BY <1>1, <1>2, <1>5, <2>2, <2>3
    <3>3. \E y \in Tables : OnStack(y) /\ index[y] = low'[x] /\ Links(x, y)
      BY <1>3, <1>5, <2>2, <2>3
    <3>4. QED
      BY <1>4, <2>1, <3>1, <3>2, <3>3
  <2>4. CASE x # v
    BY <1>4, <1>5, <2>1, <2>2, <2>4
  <2>5. QED
    BY <2>3, <2>4
<1>11. ComponentFacts'
  BY <1>4 DEF SearchInv, ComponentFacts
<1>12. QED
  BY <1>7, <1>8, <1>9, <1>10, <1>11 DEF SearchInv

\* What a finished frame leaves: the frames below, of which the last learns how low its
\* successor reached.
LEMMA FinishFacts ==
  ASSUME SearchInv, FinishNode, NEW n, n = Len(work), NEW v, v = Node
  PROVE  /\ n \in DOMAIN work /\ v = work[n].node /\ v \in Tables /\ OnStack(v)
         /\ work[n].successors = {}
         /\ work' \in Seq(Frames) /\ DOMAIN work' = 1..(n - 1)
         /\ \A i \in 1..(n - 1) : work'[i] = work[i] /\ i \in DOMAIN work
         /\ low' \in [Tables -> Nat]
         /\ \A x \in Tables : n = 1 \/ x # work[n - 1].node => low'[x] = low[x]
         /\ n # 1 => LET u == work[n - 1].node
                     IN  /\ low'[u] <= low[u] /\ low'[u] <= low[v]
                         /\ low'[u] = low[u] \/ low'[u] = low[v]
                         /\ low'[u] # low[u] => low[v] < low[u]
<1>1. /\ DOMAIN work = 1..n /\ n \in Nat
      /\ \A i \in DOMAIN work : work[i].node \in Tables /\ OnStack(work[i].node)
      /\ \A x \in Tables : index[x] \in Nat /\ low[x] \in Nat
      /\ work \in Seq(Frames) /\ low \in [Tables -> Nat]
  BY Places DEF SearchInv, SearchOK
<1>2. n \in DOMAIN work /\ v = work[n].node /\ v \in Tables /\ OnStack(v) /\ n >= 1
  <2>1. n # 0
    BY <1>1 DEF FinishNode
  <2>2. QED
    BY <1>1, <2>1 DEF Node
<1>3. work[n].successors = {}
  BY DEF FinishNode, Iterator
<1>4. PICK below : below = SubSeq(work, 1, n - 1)
  OBVIOUS
<1>5. /\ work' = below
      /\ low' = IF below # <<>> /\ low[v] < low[below[Len(below)].node]
                  THEN [low EXCEPT ![below[Len(below)].node] = low[v]] ELSE low
  BY <1>4 DEF FinishNode
<1>6. /\ below \in Seq(Frames) /\ DOMAIN below = 1..(n - 1) /\ Len(below) = n - 1
      /\ \A i \in 1..(n - 1) : below[i] = work[i] /\ i \in DOMAIN work
  <2>1. \A i \in 1..(n - 1) : i \in DOMAIN work
    BY <1>1
  <2>2. \A i \in 1..(n - 1) : work[i] \in Frames
    BY <1>1, <2>1
  <2>3. below \in Seq(Frames) /\ Len(below) = n - 1
    BY <1>1, <1>2, <1>4, <2>2, SubSeqProperties
  <2>4. \A i \in 1..(n - 1) : below[i] = work[i]
    BY <1>1, <1>2, <1>4
  <2>5. QED
    BY <2>1, <2>3, <2>4
<1>7. CASE n = 1
  <2>1. below = <<>>
    BY <1>6, <1>7
  <2>2. low' = low
    BY <1>5, <2>1
  <2>3. QED
    BY <1>1, <1>2, <1>3, <1>5, <1>6, <1>7, <2>2
<1>8. CASE n # 1
  <2>1. PICK u : u = work[n - 1].node
    OBVIOUS
  <2>2. n - 1 \in 1..(n - 1) /\ below # <<>> /\ below[Len(below)].node = u /\ u \in Tables
    <3>1. n - 1 \in 1..(n - 1)
      BY <1>1, <1>2, <1>8
    <3>2. below # <<>> /\ below[Len(below)] = work[n - 1]
      BY <1>6, <3>1
    <3>3. u \in Tables
      BY <1>1, <1>6, <2>1, <3>1
    <3>4. QED
      BY <2>1, <3>1, <3>2, <3>3
  <2>3. low' = IF low[v] < low[u] THEN [low EXCEPT ![u] = low[v]] ELSE low
    BY <1>5, <2>2
  <2>4. /\ low' \in [Tables -> Nat]
        /\ \A x \in Tables : x # u => low'[x] = low[x]
        /\ low'[u] <= low[u] /\ low'[u] <= low[v]
        /\ low'[u] = low[u] \/ low'[u] = low[v]
        /\ low'[u] # low[u] => low[v] < low[u]
    <3>1. CASE low[v] < low[u]
      BY <1>1, <1>2, <2>2, <2>3, <3>1
    <3>2. CASE ~(low[v] < low[u])
      <4>1. low' = low
        BY <2>3, <3>2
      <4>2. low[u] \in Nat /\ low[v] \in Nat /\ low[u] <= low[v]
        BY <1>1, <1>2, <2>2, <3>2
      <4>3. low'[u] = low[u] /\ low' \in [Tables -> Nat] /\ \A x \in Tables : low'[x] = low[x]
        BY <1>1, <4>1, Zenon
      <4>4. QED
        BY <4>2, <4>3
    <3>3. QED
      BY <3>1, <3>2
  <2>5. QED
    BY <1>1, <1>2, <1>3, <1>5, <1>6, <1>8, <2>1, <2>4
<1>9. QED
  BY <1>7, <1>8

\* The facts of a frame and of a low point, by name.
LEMMA FrameSays ==
  ASSUME SearchInv, NEW i \in DOMAIN work, NEW u, u = work[i].node
  PROVE  /\ work[i].successors \subseteq Parents(u)
         /\ \A x \in Tables : OnStack(x) /\ index[u] <= index[x] =>
              /\ Links(u, x)
              /\ (i + 1 \in DOMAIN work => index[x] < index[work[i + 1].node]) => low[u] <= low[x]
         /\ \A p \in Parents(u) \ work[i].successors :
              /\ index[p] # 0
              /\ \/ ~OnStack(p)
                 \/ low[u] <= index[p]
                 \/ i + 1 \in DOMAIN work /\ p = work[i + 1].node
BY DEF SearchInv, FrameFacts

LEMMA LowSays ==
  ASSUME SearchInv, NEW x \in Tables, OnStack(x)
  PROVE  /\ low[x] <= index[x]
         /\ \E y \in Tables : OnStack(y) /\ index[y] = low[x] /\ Links(x, y)
         /\ ~InWork(x) =>
              /\ low[x] < index[x]
              /\ \A p \in Parents(x) : index[p] # 0 /\ (OnStack(p) => low[x] <= index[p])
BY DEF SearchInv, LowFacts

\* A table that reaches one before it stays on the stack when its frame is finished.
LEMMA FinishStays ==
  ASSUME SearchInv, FinishNode, low[Node] # index[Node]
  PROVE  SearchInv'
<1>0. PICK n, v : n = Len(work) /\ v = Node
  OBVIOUS
<1>1. /\ n \in DOMAIN work /\ v = work[n].node /\ v \in Tables /\ OnStack(v)
      /\ work[n].successors = {}
      /\ work' \in Seq(Frames) /\ DOMAIN work' = 1..(n - 1)
      /\ \A i \in 1..(n - 1) : work'[i] = work[i] /\ i \in DOMAIN work
      /\ low' \in [Tables -> Nat]
      /\ \A x \in Tables : n = 1 \/ x # work[n - 1].node => low'[x] = low[x]
      /\ n # 1 => LET u == work[n - 1].node
                  IN  /\ low'[u] <= low[u] /\ low'[u] <= low[v]
                      /\ low'[u] = low[u] \/ low'[u] = low[v]
                      /\ low'[u] # low[u] => low[v] < low[u]
  BY <1>0, FinishFacts
<1>2. /\ DOMAIN work = 1..n /\ n \in Nat
      /\ \A i \in DOMAIN work : /\ work[i].node \in Tables /\ OnStack(work[i].node)
                                /\ Parents(work[i].node) \subseteq Tables
      /\ \A x \in Tables : index[x] \in Nat /\ low[x] \in Nat
      /\ \A i, j \in DOMAIN work : i < j => index[work[i].node] < index[work[j].node]
      /\ \A i, j \in DOMAIN work : work[i].node = work[j].node => i = j
  BY <1>0, Places
<1>3. UNCHANGED <<fks, index, stack, components>>
  BY DEF FinishNode, PopComponent
<1>4. /\ \A x : OnStack(x)' <=> OnStack(x)
      /\ \A x : Parents(x)' = Parents(x)
      /\ \A x, y : Links(x, y)' <=> Links(x, y)
      /\ \A x : Class(x)' = Class(x)
      /\ Cardinality(Entered)' = Cardinality(Entered) /\ Done' = Done
  BY <1>3, SameKeys DEF OnStack, Entered, Done
<1>5. low[v] < index[v] /\ low[v] \in Nat /\ index[v] \in Nat
  <2>1. low[v] <= index[v] /\ low[v] # index[v]
    BY <1>0, <1>1, LowSays
  <2>2. QED
    BY <1>1, <1>2, <2>1
<1>6. n # 1
  <2>1. SUFFICES ASSUME n = 1 PROVE FALSE
    OBVIOUS
  <2>2. PICK y \in Tables : OnStack(y) /\ index[y] = low[v]
    BY <1>1, LowSays
  <2>3. index[work[1].node] <= index[y] /\ work[1].node = v
    BY <1>1, <2>1, <2>2 DEF SearchInv, Ascending
  <2>4. QED
    BY <1>5, <2>2, <2>3
<1>7. PICK u : u = work[n - 1].node
  OBVIOUS
<1>8. /\ n - 1 \in DOMAIN work /\ n - 1 < n /\ n - 1 \in 1..(n - 1)
      /\ u \in Tables /\ OnStack(u) /\ index[u] < index[v] /\ u # v
      /\ low'[u] <= low[u] /\ low'[u] <= low[v] /\ low'[u] \in Nat
      /\ low'[u] = low[u] \/ low'[u] = low[v]
      /\ \A x \in Tables : x # u => low'[x] = low[x]
  <2>1. n - 1 \in DOMAIN work /\ n - 1 < n /\ n - 1 \in 1..(n - 1)
    BY <1>1, <1>2, <1>6
  <2>2. u \in Tables /\ OnStack(u) /\ index[u] < index[v] /\ u # v
    BY <1>1, <1>2, <1>7, <2>1
  <2>3. QED
    BY <1>1, <1>6, <1>7, <2>1, <2>2
<1>9. Links(u, v)
  <2>1. index[u] <= index[v]
    BY <1>2, <1>5, <1>8
  <2>2. QED
    BY <1>1, <1>7, <1>8, <2>1, FrameSays
<1>10. SearchOK'
  BY <1>1, <1>3 DEF SearchInv, SearchOK
<1>11. Ascending'
  <2>1. \A x \in Tables : index'[x] <= Cardinality(Entered)'
    BY <1>3, <1>4 DEF SearchInv, Ascending
  <2>2. \A i, j \in DOMAIN work' : i < j => index'[work'[i].node] < index'[work'[j].node]
    BY <1>1, <1>2, <1>3
  <2>3. \A i \in DOMAIN work' : OnStack(work[i].node)'
    BY <1>1, <1>2, <1>4
  <2>4. \A x \in Tables : OnStack(x)' => index'[x] # 0 /\ work' # <<>> /\ index'[work'[1].node] <= index'[x]
    <3>1. 1 \in 1..(n - 1) /\ work' # <<>>
      BY <1>1, <1>2, <1>8
    <3>2. QED
      BY <1>1, <1>3, <1>4, <3>1 DEF SearchInv, Ascending
  <2>5. QED
    BY <1>3, <2>1, <2>2, <2>3, <2>4 DEF SearchInv, Ascending
<1>12. FrameFacts'
  <2> SUFFICES ASSUME NEW i \in 1..(n - 1)
               PROVE  (/\ work[i].successors \subseteq Parents(work[i].node)
                       /\ \A x \in Tables : OnStack(x) /\ index[work[i].node] <= index[x] =>
                            /\ Links(work[i].node, x)
                            /\ (i + 1 \in DOMAIN work => index[x] < index[work[i + 1].node])
                                 => low[work[i].node] <= low[x]
                       /\ \A p \in Parents(work[i].node) \ work[i].successors :
                            /\ index[p] # 0
                            /\ \/ ~OnStack(p)
                               \/ low[work[i].node] <= index[p]
                               \/ i + 1 \in DOMAIN work /\ p = work[i + 1].node)'
    BY <1>1 DEF FrameFacts
  <2>0. PICK w : w = work[i].node
    OBVIOUS
  <2>1. /\ i \in DOMAIN work /\ work'[i] = work[i] /\ w \in Tables
        /\ i + 1 \in DOMAIN work /\ (i # n - 1 => i + 1 \in 1..(n - 1) /\ i + 1 \in DOMAIN work')
        /\ (i = n - 1 => w = u /\ i + 1 = n /\ i + 1 \notin DOMAIN work')
        /\ (i # n - 1 => w # u)
    <3>1. i \in DOMAIN work /\ work'[i] = work[i] /\ w \in Tables /\ i \in Nat /\ i <= n - 1
      BY <1>1, <1>2, <2>0
    <3>2. i + 1 \in DOMAIN work /\ (i # n - 1 => i + 1 \in 1..(n - 1) /\ i + 1 \in DOMAIN work')
      BY <1>1, <1>2, <3>1
    <3>3. i = n - 1 => w = u /\ i + 1 = n /\ i + 1 \notin DOMAIN work'
      BY <1>1, <1>2, <1>7, <2>0
    <3>4. i # n - 1 => w # u
      BY <1>2, <1>7, <1>8, <2>0, <3>1
    <3>5. QED
      BY <3>1, <3>2, <3>3, <3>4
  <2>2. /\ work[i].successors \subseteq Parents(w)
        /\ \A x \in Tables : OnStack(x) /\ index[w] <= index[x] =>
             /\ Links(w, x)
             /\ (i + 1 \in DOMAIN work => index[x] < index[work[i + 1].node]) => low[w] <= low[x]
        /\ \A p \in Parents(w) \ work[i].successors :
             /\ index[p] # 0
             /\ \/ ~OnStack(p)
                \/ low[w] <= index[p]
                \/ i + 1 \in DOMAIN work /\ p = work[i + 1].node
    BY <2>0, <2>1, FrameSays
  <2>3. low'[w] <= low[w] /\ low'[w] \in Nat /\ low[w] \in Nat
    BY <1>1, <1>2, <1>8, <2>1
  <2>4. ASSUME NEW x \in Tables, OnStack(x), index[w] <= index[x],
               i + 1 \in DOMAIN work' => index[x] < index[work'[i + 1].node]
        PROVE  low'[w] <= low'[x]
    <3>0. low[x] \in Nat /\ index[x] \in Nat
      BY <1>2
    <3>1. CASE i = n - 1
      <4>1. CASE x = u
        BY <2>1, <2>3, <3>1, <4>1
      <4>2. CASE x # u /\ index[x] < index[v]
        <5>1. low[w] <= low[x]
          BY <1>1, <2>1, <2>2, <2>4, <3>1, <4>2
        <5>2. QED
          BY <1>8, <2>3, <3>0, <4>2, <5>1
      <4>3. CASE x # u /\ index[v] <= index[x]
        <5>1. low[v] <= low[x]
          <6>1. n + 1 \notin DOMAIN work
            BY <1>2
          <6>2. QED
            BY <1>1, <2>4, <4>3, <6>1, FrameSays
        <5>2. QED
          BY <1>5, <1>8, <2>1, <2>3, <3>0, <3>1, <4>3, <5>1
      <4>4. QED
        BY <1>5, <3>0, <4>1, <4>2, <4>3
    <3>2. CASE i # n - 1
      <4>1. index[x] < index[work[i + 1].node]
        BY <1>1, <2>1, <2>4, <3>2
      <4>2. x # u
        <5>1. i + 1 = n - 1 \/ i + 1 < n - 1
          BY <1>2, <2>1, <3>2
        <5>2. index[work[i + 1].node] <= index[u] /\ index[work[i + 1].node] \in Nat /\ index[u] \in Nat
          BY <1>2, <1>7, <1>8, <2>1, <5>1
        <5>3. QED
          BY <3>0, <4>1, <5>2
      <4>3. low[w] <= low[x]
        BY <2>2, <2>4, <4>1
      <4>4. QED
        BY <1>8, <2>3, <3>0, <4>2, <4>3
    <3>3. QED
      BY <3>1, <3>2
  <2>5. ASSUME NEW p \in Parents(w) \ work[i].successors
        PROVE  /\ index[p] # 0
               /\ \/ ~OnStack(p)
                  \/ low'[w] <= index[p]
                  \/ i + 1 \in DOMAIN work' /\ p = work'[i + 1].node
    <3>1. p \in Tables /\ index[p] \in Nat
      BY <1>2, <2>0, <2>1
    <3>2. CASE p = work[i + 1].node
      <4>1. CASE i = n - 1
        <5>1. p = v /\ w = u
          BY <1>1, <2>1, <3>2, <4>1
        <5>2. QED
          BY <1>5, <1>8, <2>2, <5>1
      <4>2. CASE i # n - 1
        BY <1>1, <2>1, <2>2, <3>2, <4>2
      <4>3. QED
        BY <4>1, <4>2
    <3>3. CASE p # work[i + 1].node
      BY <2>2, <2>3, <3>1, <3>3
    <3>4. QED
      BY <3>2, <3>3
  <2>6. work'[i].node = w /\ work'[i].successors = work[i].successors
    BY <2>0, <2>1
  <2>7. (\A x \in Tables : OnStack(x) /\ index[w] <= index[x] => Links(w, x))
    BY <2>2
  <2>8. QED
    BY <1>3, <1>4, <2>2, <2>4, <2>5, <2>6, <2>7
<1>13. LowFacts'
  <2> SUFFICES ASSUME NEW x \in Tables, OnStack(x)
               PROVE  (/\ low[x] <= index[x]
                       /\ \E y \in Tables : OnStack(y) /\ index[y] = low[x] /\ Links(x, y)
                       /\ ~InWork(x) =>
                            /\ low[x] < index[x]
                            /\ \A p \in Parents(x) : index[p] # 0 /\ (OnStack(p) => low[x] <= index[p]))'
    BY <1>4 DEF LowFacts
  <2>1. /\ low[x] <= index[x] /\ low[x] \in Nat /\ index[x] \in Nat
        /\ \E y \in Tables : OnStack(y) /\ index[y] = low[x] /\ Links(x, y)
        /\ ~InWork(x) =>
             /\ low[x] < index[x]
             /\ \A p \in Parents(x) : index[p] # 0 /\ (OnStack(p) => low[x] <= index[p])
    BY <1>2, LowSays
  <2>2. InWork(u)'
    BY <1>1, <1>7, <1>8 DEF InWork
  <2>3. low'[x] <= index[x]
    BY <1>8, <2>1
  <2>4. \E y \in Tables : OnStack(y) /\ index[y] = low'[x] /\ Links(x, y)
    <3>1. CASE x = u /\ low'[u] = low[v]
      <4>1. PICK y \in Tables : OnStack(y) /\ index[y] = low[v] /\ Links(v, y)
        BY <1>1, LowSays
      <4>2. Links(u, y)
        BY <1>9, <4>1, LinksOn
      <4>3. QED
        BY <3>1, <4>1, <4>2
    <3>2. CASE low'[x] = low[x]
      BY <2>1, <3>2
    <3>3. QED
      BY <1>8, <3>1, <3>2
  <2>5. ASSUME ~InWork(x)'
        PROVE  /\ low'[x] < index[x]
               /\ \A p \in Parents(x) : index[p] # 0 /\ (OnStack(p) => low'[x] <= index[p])
    <3>1. x # u /\ low'[x] = low[x]
      BY <1>8, <2>2, <2>5
    <3>2. CASE x = v
      <4>1. n + 1 \notin DOMAIN work
        BY <1>2
      <4>2. \A p \in Parents(v) : p \in Tables /\ index[p] # 0 /\ (OnStack(p) => low[v] <= index[p])
        <5>1. \A p \in Parents(v) : p \in Tables
          BY <1>1, <1>2
        <5>2. \A p \in Parents(v) : index[p] # 0 /\ (~OnStack(p) \/ low[v] <= index[p])
          BY <1>1, <4>1, FrameSays
        <5>3. QED
          BY <5>1, <5>2
      <4>3. QED
        BY <1>5, <3>1, <3>2, <4>2
    <3>3. CASE x # v
      <4>1. ~InWork(x)
        <5>1. SUFFICES ASSUME NEW i \in DOMAIN work, work[i].node = x PROVE FALSE
          BY DEF InWork
        <5>2. i # n
          BY <1>1, <3>3, <5>1
        <5>3. i \in DOMAIN work' /\ work'[i].node = x
          BY <1>1, <1>2, <5>1, <5>2
        <5>4. QED
          BY <2>5, <5>3 DEF InWork
      <4>2. QED
        BY <2>1, <3>1, <4>1
    <3>4. QED
      BY <3>2, <3>3
  <2>6. QED
    BY <1>3, <1>4, <2>3, <2>4, <2>5
<1>14. ComponentFacts'
  BY <1>3, <1>4 DEF SearchInv, ComponentFacts
<1>15. QED
  BY <1>10, <1>11, <1>12, <1>13, <1>14 DEF SearchInv

\* The tables that a finished frame takes off the stack, when its table reaches none before it.
Popped == {x \in Tables : OnStack(x) /\ index[Node] <= index[x]}

LEMMA PoppedFacts ==
  ASSUME SearchInv, FinishNode, low[Node] = index[Node]
  PROVE  /\ stack' \in Seq(Tables)
         /\ \A x \in Tables : OnStack(x)' <=> OnStack(x) /\ index[x] < index[Node]
         /\ \A x : OnStack(x)' => OnStack(x)
         /\ \A i, j \in DOMAIN stack' : i < j => index[stack'[i]] < index[stack'[j]]
         /\ components' = components \cup {Popped}
<1>1. /\ DOMAIN stack = 1..Len(stack) /\ Len(stack) \in Nat /\ stack \in Seq(Tables)
      /\ \A i \in DOMAIN stack : stack[i] \in Tables /\ OnStack(stack[i])
      /\ \A x \in Tables : index[x] \in Nat
      /\ \A i, j \in DOMAIN stack : i < j => index[stack[i]] < index[stack[j]]
  BY Places DEF SearchInv, SearchOK, Ascending
<1>2. PICK k \in DOMAIN stack :
        /\ stack[k] = Node
        /\ components' = components \cup {{stack[j] : j \in k..Len(stack)}}
        /\ stack' = SubSeq(stack, 1, k - 1)
  BY DEF FinishNode, PopComponent
<1>3. /\ stack' \in Seq(Tables) /\ DOMAIN stack' = 1..(k - 1)
      /\ \A i \in 1..(k - 1) : stack'[i] = stack[i] /\ i \in DOMAIN stack
  <2>1. \A i \in 1..(k - 1) : i \in DOMAIN stack
    BY <1>1
  <2>2. \A i \in 1..(k - 1) : stack[i] \in Tables
    BY <1>1, <2>1
  <2>3. stack' \in Seq(Tables) /\ Len(stack') = k - 1
    BY <1>1, <1>2, <2>2, SubSeqProperties
  <2>4. \A i \in 1..(k - 1) : stack'[i] = stack[i]
    BY <1>1, <1>2
  <2>5. QED
    BY <2>1, <2>3, <2>4
<1>4. ASSUME NEW j \in DOMAIN stack
      PROVE  j < k <=> index[stack[j]] < index[Node]
  <2>1. index[stack[j]] \in Nat /\ index[Node] \in Nat
    BY <1>1, <1>2
  <2>2. j < k => index[stack[j]] < index[Node]
    BY <1>1, <1>2
  <2>3. k < j => index[Node] < index[stack[j]]
    BY <1>1, <1>2
  <2>4. k = j => index[Node] = index[stack[j]]
    BY <1>2
  <2>5. j \in Nat /\ k \in Nat
    BY <1>1
  <2>6. QED
    BY <2>1, <2>2, <2>3, <2>4, <2>5
<1>5. ASSUME NEW x
      PROVE  /\ OnStack(x)' => OnStack(x)
             /\ x \in Tables => (OnStack(x)' <=> OnStack(x) /\ index[x] < index[Node])
  <2>1. OnStack(x)' <=> \E j \in DOMAIN stack : j < k /\ stack[j] = x
    <3>1. \A j : j \in DOMAIN stack' <=> j \in DOMAIN stack /\ j < k
      BY <1>1, <1>3
    <3>2. OnStack(x)' <=> \E j \in DOMAIN stack' : stack'[j] = x
      BY DEF OnStack
    <3>3. QED
      BY <1>3, <3>1, <3>2
  <2>2. QED
    BY <1>4, <2>1 DEF OnStack
<1>6. \A i, j \in DOMAIN stack' : i < j => index[stack'[i]] < index[stack'[j]]
  BY <1>1, <1>3
<1>7. {stack[j] : j \in k..Len(stack)} = Popped
  <2>1. ASSUME NEW j \in k..Len(stack) PROVE stack[j] \in Popped
    <3>1. j \in DOMAIN stack /\ ~(j < k)
      BY <1>1
    <3>2. QED
      BY <1>1, <1>2, <1>4, <3>1 DEF Popped
  <2>2. ASSUME NEW x \in Popped PROVE \E j \in k..Len(stack) : stack[j] = x
    <3>1. PICK j \in DOMAIN stack : stack[j] = x
      BY DEF Popped, OnStack
    <3>2. ~(index[x] < index[Node])
      BY <1>1, <1>2 DEF Popped
    <3>3. ~(j < k)
      BY <1>4, <3>1, <3>2
    <3>4. j \in k..Len(stack)
      BY <1>1, <3>1, <3>3
    <3>5. QED
      BY <3>1, <3>4
  <2>3. QED
    BY <2>1, <2>2
<1>8. QED
  BY <1>2, <1>3, <1>5, <1>6, <1>7

\* What is popped reaches the frame's table: else the first that does not reaches one
\* before it that does.
LEMMA PoppedReach ==
  ASSUME SearchInv, FinishNode, low[Node] = index[Node], NEW x \in Popped
  PROVE  Links(Node, x) /\ Links(x, Node)
<1>0. PICK n, v : n = Len(work) /\ v = Node
  OBVIOUS
<1>1. /\ DOMAIN work = 1..n /\ n \in Nat /\ n \in DOMAIN work
      /\ v = work[n].node /\ v \in Tables
      /\ \A y \in Tables : index[y] \in Nat /\ low[y] \in Nat
      /\ \A i, j \in DOMAIN work : i < j => index[work[i].node] < index[work[j].node]
      /\ \A i \in DOMAIN work : work[i].node \in Tables
  BY <1>0, Places, FinishFacts
<1>2. \A y \in Popped : y \in Tables /\ OnStack(y) /\ Links(v, y) /\ low[v] <= low[y]
  <2>1. n + 1 \notin DOMAIN work
    BY <1>1
  <2>2. \A y \in Popped : y \in Tables /\ OnStack(y) /\ index[v] <= index[y]
    BY <1>0 DEF Popped
  <2>3. QED
    BY <1>1, <2>1, <2>2, FrameSays
<1>3. ASSUME NEW y \in Popped, y # v
      PROVE  ~InWork(y)
  <2>1. SUFFICES ASSUME NEW i \in DOMAIN work, work[i].node = y PROVE FALSE
    BY DEF InWork
  <2>2. i < n
    BY <1>1, <1>3, <2>1
  <2>3. index[y] < index[v]
    BY <1>1, <2>1, <2>2
  <2>4. QED
    BY <1>0, <1>1, <1>2, <2>3 DEF Popped
<1> DEFINE Bad == {y \in Popped : ~Links(y, v)}
<1>4. Bad = {}
  <2>1. SUFFICES ASSUME Bad # {} PROVE FALSE
    OBVIOUS
  <2>2. {index[y] : y \in Bad} \in SUBSET Nat /\ {index[y] : y \in Bad} # {}
    BY <1>1, <1>2, <2>1
  <2>3. PICK y \in Bad : \A z \in Bad : index[y] <= index[z]
    <3>1. PICK m \in {index[y] : y \in Bad} : \A k \in {index[y] : y \in Bad} : m <= k
      BY <2>2, LeastElement
    <3>2. QED
      BY <3>1
  <2>4. y \in Popped /\ y # v /\ ~Links(y, v)
    BY <2>3 DEF Links
  <2>5. PICK z \in Tables : OnStack(z) /\ index[z] = low[y] /\ Links(y, z)
    BY <1>2, <2>4, LowSays
  <2>6. low[y] < index[y]
    BY <1>2, <1>3, <2>4, LowSays
  <2>7. z \in Popped
    BY <1>0, <1>1, <1>2, <2>4, <2>5 DEF Popped
  <2>8. z \notin Bad
    BY <1>1, <1>2, <2>3, <2>4, <2>5, <2>6
  <2>9. QED
    BY <2>4, <2>5, <2>7, <2>8, LinksOn
<1>5. QED
  BY <1>0, <1>2, <1>4

\* What is popped is a class, and has its parents among what is done.
LEMMA PoppedIsClass ==
  ASSUME SearchInv, FinishNode, low[Node] = index[Node]
  PROVE  /\ Popped # {}
         /\ \A x \in Popped : Parents(x) \subseteq Done \cup Popped
         /\ \A x \in Popped : Popped = Class(x)
<1>0. PICK n, v : n = Len(work) /\ v = Node
  OBVIOUS
<1>1. /\ DOMAIN work = 1..n /\ n \in Nat /\ n \in DOMAIN work
      /\ v = work[n].node /\ v \in Tables /\ OnStack(v) /\ work[n].successors = {}
      /\ \A y \in Tables : index[y] \in Nat /\ low[y] \in Nat
      /\ \A i, j \in DOMAIN work : i < j => index[work[i].node] < index[work[j].node]
      /\ \A i \in DOMAIN work : work[i].node \in Tables /\ Parents(work[i].node) \subseteq Tables
  BY <1>0, Places, FinishFacts
<1>2. v \in Popped
  BY <1>0, <1>1 DEF Popped
<1>3. \A y \in Popped : y \in Tables /\ OnStack(y) /\ index[v] <= index[y] /\ low[v] <= low[y]
  <2>1. n + 1 \notin DOMAIN work
    BY <1>1
  <2>2. \A y \in Popped : y \in Tables /\ OnStack(y) /\ index[v] <= index[y]
    BY <1>0 DEF Popped
  <2>3. QED
    BY <1>1, <2>1, <2>2, FrameSays
<1>4. \A x, y \in Popped : Links(x, y)
  BY PoppedReach, LinksOn
<1>5. ASSUME NEW x \in Popped, NEW p \in Parents(x)
      PROVE  p \in Done \cup Popped
  <2>0. p \in Tables
    BY ParentsAreTables DEF SearchInv, SearchOK
  <2>1. index[p] # 0 /\ (OnStack(p) => index[v] <= index[p])
    <3>1. CASE x = v
      <4>1. n + 1 \notin DOMAIN work
        BY <1>1
      <4>2. index[p] # 0 /\ (~OnStack(p) \/ low[v] <= index[p])
        BY <1>1, <3>1, <4>1, FrameSays
      <4>3. QED
        BY <1>0, <4>2
    <3>2. CASE x # v
      <4>1. ~InWork(x)
        <5>1. SUFFICES ASSUME NEW i \in DOMAIN work, work[i].node = x PROVE FALSE
          BY DEF InWork
        <5>2. i < n
          BY <1>1, <3>2, <5>1
        <5>3. index[x] < index[v]
          BY <1>1, <5>1, <5>2
        <5>4. QED
          BY <1>1, <1>3, <5>3
      <4>2. index[p] # 0 /\ (OnStack(p) => low[x] <= index[p])
        BY <1>3, <4>1, LowSays
      <4>3. low[v] = index[v] /\ low[v] <= low[x] /\ low[x] \in Nat /\ low[v] \in Nat /\ index[p] \in Nat
        BY <1>0, <1>1, <1>3, <2>0
      <4>4. QED
        BY <4>2, <4>3
    <3>3. QED
      BY <3>1, <3>2
  <2>2. OnStack(p) \/ p \in Done
    BY <2>0, <2>1 DEF SearchInv, ComponentFacts
  <2>3. QED
    BY <1>0, <2>0, <2>1, <2>2 DEF Popped
<1>6. \A x \in Done : x \in Tables /\ ~OnStack(x) /\ Parents(x) \subseteq Done
  BY DEF SearchInv, SearchOK, ComponentFacts, Done
<1>7. ASSUME NEW x \in Popped
      PROVE  Popped = Class(x)
  <2>1. ASSUME NEW y \in Popped PROVE y \in Class(x)
    BY <1>3, <1>4 DEF Class, Links
  <2>2. ASSUME NEW y \in Class(x) PROVE y \in Popped
    <3>1. Links(x, y) /\ Links(y, x)
      BY DEF Class, Links
    <3>2. Done \cup Popped \in SUBSET Tables /\ \A z \in Done \cup Popped : Parents(z) \subseteq Done \cup Popped
      BY <1>3, <1>5, <1>6
    <3>3. y \in Done \cup Popped
      <4>1. x \in Done \cup Popped
        OBVIOUS
      <4>2. QED
        BY <3>1, <3>2, <4>1, ClosedSet
    <3>4. y \notin Done
      <4>1. SUFFICES ASSUME y \in Done PROVE FALSE
        OBVIOUS
      <4>2. x \in Done
        BY <1>6, <3>1, <4>1, ClosedSet
      <4>3. QED
        BY <1>3, <1>6, <4>2
    <3>5. QED
      BY <3>3, <3>4
  <2>3. QED
    BY <2>1, <2>2
<1>8. QED
  BY <1>2, <1>5, <1>7

LEMMA FinishPops ==
  ASSUME SearchInv, FinishNode, low[Node] = index[Node]
  PROVE  SearchInv'
<1>0. PICK n, v : n = Len(work) /\ v = Node
  OBVIOUS
<1>1. /\ n \in DOMAIN work /\ v = work[n].node /\ v \in Tables /\ OnStack(v)
      /\ work' \in Seq(Frames) /\ DOMAIN work' = 1..(n - 1)
      /\ \A i \in 1..(n - 1) : work'[i] = work[i] /\ i \in DOMAIN work
      /\ low' \in [Tables -> Nat]
      /\ \A x \in Tables : n = 1 \/ x # work[n - 1].node => low'[x] = low[x]
      /\ n # 1 => LET u == work[n - 1].node
                  IN  low'[u] # low[u] => low[v] < low[u]
  BY <1>0, FinishFacts
<1>2. /\ DOMAIN work = 1..n /\ n \in Nat
      /\ \A i \in DOMAIN work : /\ work[i].node \in Tables /\ OnStack(work[i].node)
                                /\ Parents(work[i].node) \subseteq Tables
      /\ \A x \in Tables : index[x] \in Nat /\ low[x] \in Nat
      /\ \A i, j \in DOMAIN work : i < j => index[work[i].node] < index[work[j].node]
  BY <1>0, Places
<1>3. UNCHANGED <<fks, index>> /\ low[v] = index[v]
  BY <1>0 DEF FinishNode
<1>4. /\ \A x : Parents(x)' = Parents(x)
      /\ \A x, y : Links(x, y)' <=> Links(x, y)
      /\ \A x : Class(x)' = Class(x)
      /\ Cardinality(Entered)' = Cardinality(Entered)
  BY <1>3, SameKeys DEF Entered
<1>5. /\ stack' \in Seq(Tables)
      /\ \A x \in Tables : OnStack(x)' <=> OnStack(x) /\ index[x] < index[v]
      /\ \A x : OnStack(x)' => OnStack(x)
      /\ \A i, j \in DOMAIN stack' : i < j => index[stack'[i]] < index[stack'[j]]
      /\ components' = components \cup {Popped}
  BY <1>0, PoppedFacts
<1>6. /\ Popped # {} /\ Popped \subseteq Tables
      /\ \A x \in Popped : Parents(x) \subseteq Done \cup Popped
      /\ \A x \in Popped : Popped = Class(x)
  BY <1>0, PoppedIsClass DEF Popped
<1>7. \A x \in Tables : low'[x] = low[x]
  <2>1. SUFFICES ASSUME n # 1 PROVE low'[work[n - 1].node] = low[work[n - 1].node]
    BY <1>1
  <2>2. PICK u : u = work[n - 1].node
    OBVIOUS
  <2>3. n - 1 \in DOMAIN work /\ n - 1 < n
    BY <1>1, <1>2, <2>1
  <2>4. u \in Tables /\ OnStack(u) /\ index[u] < index[v]
    BY <1>1, <1>2, <2>2, <2>3
  <2>5. low[u] <= index[u]
    BY <2>4, LowSays
  <2>6. ~(low[v] < low[u])
    BY <1>1, <1>2, <1>3, <2>4, <2>5
  <2>7. QED
    BY <1>1, <2>1, <2>2, <2>6
<1>8. SearchOK'
  BY <1>1, <1>3, <1>5, <1>6 DEF SearchInv, SearchOK
<1>9. \A i \in DOMAIN work' : /\ i \in DOMAIN work /\ work'[i] = work[i] /\ work[i].node \in Tables
                              /\ index[work[i].node] < index[v]
  BY <1>1, <1>2
<1>10. Ascending'
  <2>1. \A x \in Tables : index'[x] <= Cardinality(Entered)'
    BY <1>3, <1>4 DEF SearchInv, Ascending
  <2>2. \A i, j \in DOMAIN work' : i < j => index'[work'[i].node] < index'[work'[j].node]
    BY <1>2, <1>3, <1>9
  <2>3. \A i \in DOMAIN work' : OnStack(work[i].node)'
    <3>1. ASSUME NEW i \in DOMAIN work', NEW x, x = work[i].node
          PROVE  OnStack(x)'
      <4>1. x \in Tables /\ OnStack(x) /\ index[x] < index[v]
        BY <1>2, <1>9, <3>1
      <4>2. QED
        BY <1>5, <4>1
    <3>2. QED
      BY <1>9, <3>1
  <2>4. ASSUME NEW x \in Tables, OnStack(x)'
        PROVE  index'[x] # 0 /\ work' # <<>> /\ index'[work'[1].node] <= index'[x]
    <3>1. OnStack(x) /\ index[x] < index[v] /\ index[x] # 0 /\ index[work[1].node] <= index[x]
      BY <1>5, <2>4 DEF SearchInv, Ascending
    <3>2. n # 1
      BY <1>1, <1>2, <3>1
    <3>3. 1 \in DOMAIN work'
      BY <1>1, <1>2, <3>2
    <3>4. QED
      BY <1>3, <1>9, <3>1, <3>3
  <2>5. QED
    BY <1>3, <1>5, <2>1, <2>2, <2>3, <2>4 DEF SearchInv, Ascending
<1>11. FrameFacts'
  <2> SUFFICES ASSUME NEW i \in DOMAIN work'
               PROVE  (/\ work[i].successors \subseteq Parents(work[i].node)
                       /\ \A x \in Tables : OnStack(x) /\ index[work[i].node] <= index[x] =>
                            /\ Links(work[i].node, x)
                            /\ (i + 1 \in DOMAIN work => index[x] < index[work[i + 1].node])
                                 => low[work[i].node] <= low[x]
                       /\ \A p \in Parents(work[i].node) \ work[i].successors :
                            /\ index[p] # 0
                            /\ \/ ~OnStack(p)
                               \/ low[work[i].node] <= index[p]
                               \/ i + 1 \in DOMAIN work /\ p = work[i + 1].node)'
    BY DEF FrameFacts
  <2>0. PICK w : w = work[i].node
    OBVIOUS
  <2>1. /\ i \in DOMAIN work /\ work'[i] = work[i] /\ w \in Tables
        /\ i + 1 \in DOMAIN work' \/ i + 1 = n
        /\ i + 1 \in DOMAIN work
    BY <1>1, <1>2, <1>9, <2>0
  <2>2. /\ work[i].successors \subseteq Parents(w)
        /\ \A x \in Tables : OnStack(x) /\ index[w] <= index[x] =>
             /\ Links(w, x)
             /\ (i + 1 \in DOMAIN work => index[x] < index[work[i + 1].node]) => low[w] <= low[x]
        /\ \A p \in Parents(w) \ work[i].successors :
             /\ index[p] # 0
             /\ \/ ~OnStack(p)
                \/ low[w] <= index[p]
                \/ i + 1 \in DOMAIN work /\ p = work[i + 1].node
    BY <2>0, <2>1, FrameSays
  <2>3. ASSUME NEW x \in Tables, OnStack(x)', index[w] <= index[x]
        PROVE  /\ Links(w, x)
               /\ (i + 1 \in DOMAIN work' => index[x] < index[work'[i + 1].node]) => low[w] <= low[x]
    <3>1. OnStack(x) /\ index[x] < index[v]
      BY <1>5, <2>3
    <3>2. i + 1 = n => index[x] < index[work[i + 1].node]
      BY <1>1, <3>1
    <3>3. i + 1 \in DOMAIN work' => work'[i + 1] = work[i + 1]
      BY <1>9
    <3>4. QED
      BY <2>1, <2>2, <2>3, <3>1, <3>2, <3>3
  <2>4. ASSUME NEW p \in Parents(w) \ work[i].successors
        PROVE  /\ index[p] # 0
               /\ \/ ~OnStack(p)'
                  \/ low[w] <= index[p]
                  \/ i + 1 \in DOMAIN work' /\ p = work'[i + 1].node
    <3>1. CASE i + 1 = n /\ p = work[i + 1].node
      <4>1. p = v /\ ~OnStack(p)'
        BY <1>1, <1>2, <1>5, <3>1
      <4>2. QED
        BY <2>2, <4>1
    <3>2. CASE ~(i + 1 = n /\ p = work[i + 1].node)
      BY <1>5, <1>9, <2>1, <2>2, <3>2
    <3>3. QED
      BY <3>1, <3>2
  <2>5. work'[i].node = w /\ work'[i].successors = work[i].successors /\ low'[w] = low[w]
    BY <1>7, <2>0, <2>1
  <2>6. QED
    BY <1>3, <1>4, <1>7, <2>2, <2>3, <2>4, <2>5
<1>12. LowFacts'
  <2> SUFFICES ASSUME NEW x \in Tables, OnStack(x)'
               PROVE  (/\ low[x] <= index[x]
                       /\ \E y \in Tables : OnStack(y) /\ index[y] = low[x] /\ Links(x, y)
                       /\ ~InWork(x) =>
                            /\ low[x] < index[x]
                            /\ \A p \in Parents(x) : index[p] # 0 /\ (OnStack(p) => low[x] <= index[p]))'
    BY DEF LowFacts
  <2>0. OnStack(x) /\ index[x] < index[v] /\ x # v
    BY <1>2, <1>5
  <2>1. /\ low[x] <= index[x]
        /\ ~InWork(x) =>
             /\ low[x] < index[x]
             /\ \A p \in Parents(x) : index[p] # 0 /\ (OnStack(p) => low[x] <= index[p])
    BY <2>0, LowSays
  <2>2. PICK y \in Tables : OnStack(y) /\ index[y] = low[x] /\ Links(x, y)
    BY <2>0, LowSays
  <2>3. OnStack(y)'
    BY <1>1, <1>2, <1>5, <2>0, <2>1, <2>2
  <2>4. InWork(x) => InWork(x)'
    <3>1. SUFFICES ASSUME NEW i \in DOMAIN work, work[i].node = x PROVE InWork(x)'
      BY DEF InWork
    <3>2. i # n
      BY <1>1, <2>0, <3>1
    <3>3. i \in DOMAIN work'
      BY <1>1, <1>2, <3>2
    <3>4. QED
      BY <1>9, <3>1, <3>3 DEF InWork
  <2>5. \A p \in Parents(x) : OnStack(p)' => OnStack(p)
    BY <1>5
  <2>6. QED
    BY <1>3, <1>4, <1>7, <2>1, <2>2, <2>3, <2>4, <2>5
<1>13. ComponentFacts'
  <2>1. Done' = Done \cup Popped
    BY <1>5 DEF Done
  <2>2. \A x \in Tables : x \in Popped <=> OnStack(x) /\ ~(index[x] < index[v])
    BY <1>0, <1>1, <1>2 DEF Popped
  <2>3. \A x \in Tables : index'[x] # 0 <=> OnStack(x)' \/ x \in Done'
    BY <1>3, <1>5, <2>1, <2>2 DEF SearchInv, ComponentFacts
  <2>4. \A x \in Done' : ~OnStack(x)' /\ Parents(x)' \subseteq Done'
    <3>1. ASSUME NEW x \in Done PROVE ~OnStack(x)' /\ Parents(x)' \subseteq Done'
      BY <1>4, <1>5, <2>1 DEF SearchInv, ComponentFacts
    <3>2. ASSUME NEW x \in Popped PROVE ~OnStack(x)' /\ Parents(x)' \subseteq Done'
      BY <1>4, <1>5, <1>6, <2>1, <2>2
    <3>3. QED
      BY <2>1, <3>1, <3>2
  <2>5. \A c \in components' : c # {} /\ \A x \in c : c = Class(x)'
    BY <1>4, <1>5, <1>6 DEF SearchInv, ComponentFacts
  <2>6. QED
    BY <2>3, <2>4, <2>5 DEF ComponentFacts
<1>14. QED
  BY <1>8, <1>10, <1>11, <1>12, <1>13 DEF SearchInv

\* The search keeps its facts.
LEMMA SearchInvStep == SearchInv /\ [Next]_vars => SearchInv'
<1> SUFFICES ASSUME SearchInv, [Next]_vars PROVE SearchInv'
  OBVIOUS
<1>1. CASE NextRoot
  <2>1. PICK t \in Tables : index[t] = 0 /\ Enter(t, <<>>)
    BY <1>1 DEF NextRoot
  <2>2. work = <<>> /\ UNCHANGED <<fks, components>>
    BY <1>1 DEF NextRoot
  <2>3. Entering(t, <<>>)
    BY <2>1, <2>2 DEF Entering
  <2>4. QED
    BY <2>1, <2>2, <2>3, EnterKeeps
<1>2. CASE NextSuccessor
  <2>1. PICK s, advanced :
          /\ s = First(Iterator)
          /\ advanced = [work EXCEPT ![Len(work)] = [node |-> Node, successors |-> Iterator \ {s}]]
          /\ IF index[s] = 0 THEN Enter(s, advanced)
             ELSE /\ work' = advanced
                  /\ low' = IF OnStack(s) /\ index[s] < low[Node]
                              THEN [low EXCEPT ![Node] = index[s]] ELSE low
                  /\ UNCHANGED <<index, stack>>
    BY <1>2 DEF NextSuccessor
  <2>2. UNCHANGED <<fks, components>> /\ work # <<>> /\ Iterator # {}
    BY <1>2 DEF NextSuccessor
  <2>3. PICK n : n = Len(work)
    OBVIOUS
  <2>4. DOMAIN work = 1..n /\ n \in DOMAIN work /\ work \in Seq(Frames)
    <3>1. DOMAIN work = 1..n /\ n \in Nat /\ work \in Seq(Frames)
      BY <2>3, Places DEF SearchInv, SearchOK
    <3>2. QED
      BY <2>2, <2>3, <3>1
  <2>5. Node = work[n].node /\ Iterator = work[n].successors /\ Node \in Tables
        /\ Iterator \subseteq Parents(Node) /\ Parents(Node) \subseteq Tables
    BY <2>3, <2>4, Places DEF Node, Iterator
  <2>6. s \in Iterator /\ s \in Tables
    <3>1. Iterator \in SUBSET Nat
      BY <2>5, TablesAssumption
    <3>2. QED
      BY <2>1, <2>2, <2>5, <3>1, FirstIsLeast
  <2>7. CASE index[s] = 0
    <3>1. PICK frame : frame = [node |-> Node, successors |-> Iterator \ {s}]
      OBVIOUS
    <3>2. frame \in Frames
      BY <2>5, <3>1 DEF Frames
    <3>3. advanced = [work EXCEPT ![n] = frame] /\ n \in 1..Len(work)
      BY <2>1, <2>3, <2>4, <3>1
    <3>4. advanced \in Seq(Frames) /\ Len(advanced) = Len(work)
      BY <2>4, <3>2, <3>3, ExceptSeq
    <3>5. \A i \in DOMAIN work : advanced[i] = IF i = n THEN frame ELSE work[i]
      BY <3>3
    <3>6. Entering(s, advanced)
      BY <2>3, <2>5, <2>6, <2>7, <3>1, <3>4, <3>5 DEF Entering
    <3>7. QED
      BY <2>1, <2>2, <2>7, <3>6, EnterKeeps
  <2>8. CASE index[s] # 0
    <3>1. /\ work' = [work EXCEPT ![Len(work)] = [node |-> Node, successors |-> Iterator \ {s}]]
          /\ low' = IF OnStack(s) /\ index[s] < low[Node] THEN [low EXCEPT ![Node] = index[s]] ELSE low
          /\ UNCHANGED <<fks, index, stack, components>>
      BY <2>1, <2>2, <2>8
    <3>2. QED
      BY <2>2, <2>6, <2>8, <3>1, AdvanceKeeps
  <2>9. QED
    BY <2>7, <2>8
<1>3. CASE FinishNode
  BY <1>3, FinishStays, FinishPops
<1>4. ASSUME UNCHANGED <<fks, search>>
      PROVE  SearchInv'
  <2>1. UNCHANGED <<fks, index, low, stack, work, components>>
    BY <1>4 DEF search
  <2>2. /\ \A x : OnStack(x)' <=> OnStack(x)
        /\ \A x : InWork(x)' <=> InWork(x)
        /\ \A x : Parents(x)' = Parents(x)
        /\ \A x, y : Links(x, y)' <=> Links(x, y)
        /\ \A x : Class(x)' = Class(x)
        /\ Cardinality(Entered)' = Cardinality(Entered) /\ Done' = Done
    BY <2>1, SameKeys DEF OnStack, InWork, Entered, Done
  <2>3. SearchOK' /\ Ascending'
    BY <2>1, <2>2 DEF SearchInv, SearchOK, Ascending
  <2>4. FrameFacts'
    BY <2>1, <2>2 DEF SearchInv, FrameFacts
  <2>5. LowFacts' /\ ComponentFacts'
    BY <2>1, <2>2 DEF SearchInv, LowFacts, ComponentFacts
  <2>6. QED
    BY <2>3, <2>4, <2>5 DEF SearchInv
<1>5. CASE ResolveCycles \/ Layer \/ OpenDatabase \/ OpenDatabaseWithCheck \/ SkipTable \/ CopyTable
  BY <1>4, <1>5 DEF ResolveCycles, Layer, OpenDatabase, OpenDatabaseWithCheck, SkipTable, CopyTable
<1>6. CASE CopyFails \/ SynchronizeSequences \/ FillDeferred \/ FillFails \/ UNCHANGED vars
  BY <1>4, <1>6 DEF CopyFails, SynchronizeSequences, FillDeferred, FillFails, vars
<1>7. QED
  BY <1>1, <1>2, <1>3, <1>5, <1>6 DEF Next

(***************************************************************************)
(* Sorting                                                                 *)
(***************************************************************************)

\* A sequence lists the set S, each element once.
Lists(s, S) ==
  /\ s \in Seq(S)
  /\ \A x \in S : \E k \in DOMAIN s : s[k] = x
  /\ \A i, j \in DOMAIN s : s[i] = s[j] => i = j

\* There is an ascending sequence: an element's place is the number of those up to it.
LEMMA AscendingExists ==
  ASSUME NEW S \in SUBSET Nat, IsFiniteSet(S), NEW n \in Nat, n = Cardinality(S)
  PROVE  \E s \in [1..n -> S] : \A i, j \in 1..n : i < j => s[i] < s[j]
<1> DEFINE Upto(x) == {y \in S : y <= x}
<1>1. \A x \in S : IsFiniteSet(Upto(x)) /\ Cardinality(Upto(x)) \in 1..n
  <2>1. SUFFICES ASSUME NEW x \in S
                 PROVE  IsFiniteSet(Upto(x)) /\ Cardinality(Upto(x)) \in 1..n
    OBVIOUS
  <2>2. Upto(x) \subseteq S /\ x \in Upto(x)
    OBVIOUS
  <2> HIDE DEF Upto
  <2>3. IsFiniteSet(Upto(x)) /\ Cardinality(Upto(x)) <= n
    BY <2>2, FS_Subset
  <2>4. Cardinality(Upto(x)) \in Nat
    BY <2>3, FS_CardinalityType
  <2>5. Cardinality(Upto(x)) # 0
    BY <2>2, <2>3, FS_EmptySet
  <2>6. QED
    BY <2>3, <2>4, <2>5
<1>2. \A x, y \in S : x < y => Cardinality(Upto(x)) < Cardinality(Upto(y))
  <2>1. SUFFICES ASSUME NEW x \in S, NEW y \in S, x < y
                 PROVE  Cardinality(Upto(x)) < Cardinality(Upto(y))
    OBVIOUS
  <2>2. Upto(x) \subseteq Upto(y) /\ y \in Upto(y) /\ y \notin Upto(x)
    <3>1. x \in Nat /\ y \in Nat /\ \A z \in S : z \in Nat
      OBVIOUS
    <3>2. ~(y <= x) /\ \A z \in S : z <= x => z <= y
      BY <2>1, <3>1
    <3>3. Upto(x) \subseteq Upto(y)
      BY <3>2
    <3>4. y \in Upto(y)
      BY <3>1
    <3>5. y \notin Upto(x)
      BY <3>2
    <3>6. QED
      BY <3>3, <3>4, <3>5
  <2> HIDE DEF Upto
  <2>3. IsFiniteSet(Upto(y)) /\ Cardinality(Upto(x)) \in Nat /\ Cardinality(Upto(y)) \in Nat
    BY <1>1
  <2>4. Cardinality(Upto(x)) <= Cardinality(Upto(y)) /\ Cardinality(Upto(x)) # Cardinality(Upto(y))
    BY <2>2, <2>3, FS_Subset
  <2>5. QED
    BY <2>3, <2>4
<1> DEFINE r == [x \in S |-> Cardinality(Upto(x))]
<1>3. r \in [S -> 1..n] /\ \A x, y \in S : x < y => r[x] < r[y]
  BY <1>1, <1>2
<1> HIDE DEF r
<1>4. \A x, y \in S : r[x] = r[y] => x = y
  <2>1. SUFFICES ASSUME NEW x \in S, NEW y \in S, r[x] = r[y] PROVE x = y
    OBVIOUS
  <2>2. r[x] \in 1..n /\ r[y] \in 1..n /\ x \in Nat /\ y \in Nat
    BY <1>3
  <2>3. ~(x < y) /\ ~(y < x)
    BY <1>3, <2>1, <2>2
  <2>4. QED
    BY <2>2, <2>3
<1>5. \A i \in 1..n : \E x \in S : r[x] = i
  <2>1. r \in Injection(S, 1..n)
    BY <1>3, <1>4 DEF Injection, IsInjective
  <2>2. IsFiniteSet(1..n) /\ Cardinality(1..n) = n
    BY FS_Interval
  <2>3. r \in Surjection(S, 1..n)
    BY <2>1, <2>2, FS_Injection
  <2>4. QED
    BY <2>3 DEF Surjection
<1>6. PICK s \in [1..n -> S] : \A i \in 1..n : r[s[i]] = i
  <2>1. [i \in 1..n |-> CHOOSE x \in S : r[x] = i] \in [1..n -> S]
    BY <1>5
  <2>2. \A i \in 1..n : r[[k \in 1..n |-> CHOOSE x \in S : r[x] = k][i]] = i
    BY <1>5
  <2>3. QED
    BY <2>1, <2>2
<1>7. \A i, j \in 1..n : i < j => s[i] < s[j]
  <2>1. SUFFICES ASSUME NEW i \in 1..n, NEW j \in 1..n, i < j PROVE s[i] < s[j]
    OBVIOUS
  <2>2. s[i] \in Nat /\ s[j] \in Nat /\ r[s[i]] = i /\ r[s[j]] = j
    BY <1>6
  <2>3. ~(s[j] < s[i]) /\ s[i] # s[j]
    BY <1>3, <1>6, <2>1, <2>2
  <2>4. QED
    BY <2>2, <2>3
<1>8. QED
  BY <1>6, <1>7

LEMMA SortedLists ==
  ASSUME NEW S \in SUBSET Nat, IsFiniteSet(S)
  PROVE  Lists(Sorted(S), S)
<1>1. PICK n, s : n = Cardinality(S) /\ s = Sorted(S)
  OBVIOUS
<1>2. n \in Nat
  BY <1>1, FS_CardinalityType
<1>3. s \in [1..n -> S] /\ \A i, j \in 1..n : i < j => s[i] < s[j]
  <2>1. \E a \in [1..n -> S] : \A i, j \in DOMAIN a : i < j => a[i] < a[j]
    BY <1>1, <1>2, AscendingExists
  <2>2. s = CHOOSE a \in [1..n -> S] : \A i, j \in DOMAIN a : i < j => a[i] < a[j]
    BY <1>1 DEF Sorted
  <2>3. s \in [1..n -> S] /\ \A i, j \in DOMAIN s : i < j => s[i] < s[j]
    BY <2>1, <2>2
  <2>4. QED
    BY <2>3
<1>4. \A i, j \in 1..n : s[i] = s[j] => i = j
  <2>1. SUFFICES ASSUME NEW i \in 1..n, NEW j \in 1..n, s[i] = s[j] PROVE i = j
    OBVIOUS
  <2>2. s[i] \in Nat /\ s[j] \in Nat
    BY <1>3
  <2>3. ~(i < j) /\ ~(j < i)
    BY <1>3, <2>1, <2>2
  <2>4. QED
    BY <2>3
<1>5. \A x \in S : \E k \in 1..n : s[k] = x
  <2>1. s \in Injection(1..n, S)
    BY <1>3, <1>4 DEF Injection, IsInjective
  <2>2. IsFiniteSet(1..n) /\ Cardinality(1..n) = n
    BY <1>2, FS_Interval
  <2>3. s \in Surjection(1..n, S)
    BY <1>1, <2>1, <2>2, FS_Injection
  <2>4. QED
    BY <2>3 DEF Surjection
<1>6. s \in Seq(S) /\ DOMAIN s = 1..n
  BY <1>2, <1>3
<1>7. QED
  BY <1>1, <1>4, <1>5, <1>6 DEF Lists

(***************************************************************************)
(* The cycles, once the search is over                                     *)
(***************************************************************************)

\* The components are the classes; a reference that is neither dropped with its table nor
\* deferred does not lead back; and a table is dropped for a reference that is not nullable.
CycleFacts ==
  /\ pc = "components" => dropped = {} /\ deferred = {} /\ order = <<>>
  /\ pc # "components" => components = {Class(t) : t \in Tables}
  /\ deferred \subseteq fks
  /\ dropped \subseteq Tables
  /\ pc # "components" =>
       \A f \in fks : f.table \notin dropped /\ f \notin deferred => ~Links(f.referenced, f.table)
  /\ \A t \in dropped : \E f \in fks : ~f.nullable /\ Reaches(t, f.table) /\ Reaches(f.referenced, t)

LEMMA SearchIsOver ==
  ASSUME SearchInv, work = <<>>, \A t \in Tables : index[t] # 0
  PROVE  components = {Class(t) : t \in Tables}
<1>1. \A t \in Tables : ~OnStack(t)
  BY DEF SearchInv, Ascending
<1>2. ASSUME NEW t \in Tables PROVE Class(t) \in components
  <2>1. t \in Done
    BY <1>1 DEF SearchInv, ComponentFacts
  <2>2. PICK c \in components : t \in c
    BY <2>1 DEF Done
  <2>3. c = Class(t)
    BY <2>2 DEF SearchInv, ComponentFacts
  <2>4. QED
    BY <2>3
<1>3. ASSUME NEW c \in components PROVE c \in {Class(t) : t \in Tables}
  <2>1. PICK t \in c : c = Class(t)
    BY DEF SearchInv, ComponentFacts
  <2>2. t \in Tables
    BY DEF SearchInv, SearchOK
  <2>3. QED
    BY <2>1, <2>2
<1>4. QED
  BY <1>2, <1>3

\* A foreign key within a class leads from each of its tables to each.
LEMMA InsideReaches ==
  ASSUME fks \subseteq ForeignKeys, NEW t \in Tables, NEW f \in Inside(Class(t))
  PROVE  Reaches(t, f.table) /\ Reaches(f.referenced, t)
<1>1. f \in fks /\ f.table \in Class(t) /\ f.referenced \in Class(t)
  BY DEF Inside
<1>2. f.referenced \in Parents(f.table)
  BY <1>1 DEF Parents, Of
<1>3. Reaches(f.table, f.referenced)
  BY <1>2, ParentReached
<1>4. Reaches(t, f.table)
  <2>1. CASE f.table # t
    BY <1>1, <2>1 DEF Class
  <2>2. CASE f.table = t
    <3>1. CASE f.referenced = t
      BY <1>3, <2>2, <3>1
    <3>2. CASE f.referenced # t
      <4>1. Reaches(f.referenced, t)
        BY <1>1, <3>2 DEF Class
      <4>2. QED
        BY <1>3, <2>2, <4>1, ReachesOn
    <3>3. QED
      BY <3>1, <3>2
  <2>3. QED
    BY <2>1, <2>2
<1>5. Reaches(f.referenced, t)
  <2>1. CASE f.referenced # t
    BY <1>1, <2>1 DEF Class
  <2>2. CASE f.referenced = t
    BY <1>3, <1>4, <2>2, ReachesOn
  <2>3. QED
    BY <2>1, <2>2
<1>6. QED
  BY <1>4, <1>5

\* A foreign key that leads back is within its table's class.
LEMMA BackIsInside ==
  ASSUME fks \subseteq ForeignKeys, NEW f \in fks, Links(f.referenced, f.table)
  PROVE  f.table \in Tables /\ f \in Inside(Class(f.table))
<1>1. f.table \in Tables /\ f.referenced \in Tables
  BY DEF ForeignKeys
<1>2. Reaches(f.table, f.referenced)
  BY ParentReached DEF Parents, Of
<1>3. f.referenced \in Class(f.table)
  BY <1>1, <1>2 DEF Links, Class
<1>4. f.table \in Class(f.table)
  BY <1>1 DEF Class
<1>5. QED
  BY <1>1, <1>3, <1>4 DEF Inside

LEMMA ResolveCyclesFacts ==
  ASSUME SearchInv, CycleFacts, ResolveCycles
  PROVE  CycleFacts'
<1>1. UNCHANGED <<fks, order, components>> /\ pc' = "order" /\ pc = "components"
  BY DEF ResolveCycles, search
<1>2. fks \subseteq ForeignKeys
  BY DEF SearchInv, SearchOK
<1>3. components = {Class(t) : t \in Tables}
  BY SearchIsOver DEF ResolveCycles
<1>4. PICK cycles : /\ cycles = {c \in components : Cyclic(c)}
                    /\ deferred' = UNION {Inside(c) : c \in {d \in cycles : Deferrable(d)}}
                    /\ dropped' = UNION {c \in cycles : ~Deferrable(c)}
  BY DEF ResolveCycles
<1>5. deferred' \subseteq fks
  BY <1>4 DEF Inside
<1>6. dropped' \subseteq Tables
  BY <1>3, <1>4 DEF Class
<1>7. ASSUME NEW f \in fks, f.table \notin dropped', f \notin deferred'
      PROVE  ~Links(f.referenced, f.table)
  <2>1. SUFFICES ASSUME Links(f.referenced, f.table) PROVE FALSE
    OBVIOUS
  <2>2. PICK c : c = Class(f.table)
    OBVIOUS
  <2>3. c \in components /\ f \in Inside(c) /\ f.table \in c
    <3>1. f.table \in Tables /\ f \in Inside(c)
      BY <1>2, <2>1, <2>2, BackIsInside
    <3>2. QED
      BY <1>3, <2>2, <3>1 DEF Inside
  <2>4. c \in cycles
    BY <1>4, <2>3 DEF Cyclic
  <2>5. CASE Deferrable(c)
    BY <1>4, <1>7, <2>3, <2>4, <2>5
  <2>6. CASE ~Deferrable(c)
    BY <1>4, <1>7, <2>3, <2>4, <2>6
  <2>7. QED
    BY <2>5, <2>6
<1>8. ASSUME NEW t \in dropped'
      PROVE  \E f \in fks : ~f.nullable /\ Reaches(t, f.table) /\ Reaches(f.referenced, t)
  <2>1. PICK c \in components : t \in c /\ ~Deferrable(c)
    BY <1>4
  <2>2. c = Class(t) /\ t \in Tables
    BY <2>1 DEF SearchInv, SearchOK, ComponentFacts
  <2>3. PICK f \in Inside(c) : ~f.nullable
    BY <2>1 DEF Deferrable
  <2>4. f \in fks
    BY <2>3 DEF Inside
  <2>5. Reaches(t, f.table) /\ Reaches(f.referenced, t)
    BY <1>2, <2>2, <2>3, InsideReaches
  <2>6. QED
    BY <2>3, <2>4, <2>5
<1>9. /\ \A t, u : Reaches(t, u)' <=> Reaches(t, u)
      /\ \A t, u : Links(t, u)' <=> Links(t, u)
      /\ \A t : Class(t)' = Class(t)
  BY <1>1, SameKeys
<1>10. components' = {Class(t)' : t \in Tables}
  BY <1>1, <1>3, <1>9
<1>11. QED
  BY <1>1, <1>5, <1>6, <1>7, <1>8, <1>9, <1>10 DEF CycleFacts

LEMMA CycleFactsStay ==
  ASSUME CycleFacts, UNCHANGED <<fks, components, deferred, dropped>>,
         pc = "components" => pc' = "components" /\ UNCHANGED order,
         pc # "components" => pc' # "components"
  PROVE  CycleFacts'
<1>1. /\ \A t, u : Reaches(t, u)' <=> Reaches(t, u)
      /\ \A t, u : Links(t, u)' <=> Links(t, u)
      /\ \A t : Class(t)' = Class(t)
  BY SameKeys
<1>2. pc' # "components" => components' = {Class(t)' : t \in Tables}
  BY <1>1 DEF CycleFacts
<1>3. QED
  BY <1>1, <1>2 DEF CycleFacts

(***************************************************************************)
(* The order                                                               *)
(***************************************************************************)

Listed(t) == \E i \in DOMAIN order : order[i] = t
Left == {t \in Tables \ dropped : ~Listed(t)}
Awaited(t) == {p \in Blockers(t, deferred, dropped) : ~Listed(p)}

\* Each table is listed once, after those its loaded foreign keys refer to, which are
\* dropped if they are not listed; and what is left waits for those of them not listed.
OrderFacts ==
  /\ order \in Seq(Tables \ dropped)
  /\ \A i, j \in DOMAIN order : order[i] = order[j] => i = j
  /\ \A i, j \in DOMAIN order : \A f \in Of(order[i]) \ deferred : f.referenced = order[j] => j < i
  /\ pc = "order" => \A i \in DOMAIN order : \A f \in Of(order[i]) \ deferred :
       f.referenced \in dropped \/ \E j \in DOMAIN order : j < i /\ order[j] = f.referenced
  /\ pc = "order" => pending = {<<t, Awaited(t)>> : t \in Left}

\* While a table is left one of them waits for none: one with the fewest it reaches.
LEMMA SomeTableIsReady ==
  ASSUME SearchInv, CycleFacts, OrderFacts, pc = "order", Left # {}
  PROVE  Ready # {}
<1> SUFFICES ASSUME Ready = {} PROVE FALSE
  OBVIOUS
<1> DEFINE Cone(t) == {u \in Tables : Links(t, u)}
           Cones == {Cone(t) : t \in Left}
           R == StrictSubsetOrdering(Tables)
<1>1. Cones \subseteq FiniteSubsetsOf(Tables) /\ Cones # {}
  <2>1. ASSUME NEW t \in Left PROVE Cone(t) \in FiniteSubsetsOf(Tables)
    <3>1. Cone(t) \subseteq Tables
      OBVIOUS
    <3> HIDE DEF Cone
    <3>2. IsFiniteSet(Cone(t))
      BY <3>1, TablesAssumption, FS_Subset
    <3>3. QED
      BY <3>1, <3>2 DEF FiniteSubsetsOf
  <2> HIDE DEF Cone
  <2>2. QED
    BY <2>1
<1>2. \E x \in Cones : \A y \in Cones : ~(<<y, x>> \in R)
  <2> HIDE DEF Cones, Cone
  <2>1. IsWellFoundedOn(R, FiniteSubsetsOf(Tables))
    BY FS_StrictSubsetOrderingWellFounded
  <2>2. QED
    BY <1>1, <2>1, WFMin
<1>3. PICK t \in Left : \A p \in Left : ~(<<Cone(p), Cone(t)>> \in R)
  BY <1>2
<1>4. t \in Tables /\ t \notin dropped
  BY DEF Left
<1>5. Awaited(t) # {}
  <2>1. <<t, Awaited(t)>> \in pending
    BY DEF OrderFacts
  <2>2. QED
    BY <2>1 DEF Ready
<1>6. PICK f \in fks : f.table = t /\ f \notin deferred /\ f.referenced \notin dropped /\ ~Listed(f.referenced)
  BY <1>5 DEF Awaited, Blockers, Of
<1>7. PICK p : p = f.referenced
  OBVIOUS
<1>8. p \in Left
  BY <1>6, <1>7 DEF Left, SearchInv, SearchOK, ForeignKeys
<1>9. ~Links(p, t)
  BY <1>4, <1>6, <1>7 DEF CycleFacts
<1>10. Links(t, p)
  BY <1>6, <1>7, ParentReached DEF Links, Parents, Of
<1>11. Cone(p) \subseteq Cone(t)
  BY <1>10, LinksOn
<1>12. t \in Cone(t) /\ t \notin Cone(p)
  BY <1>4, <1>9 DEF Links
<1>13. <<Cone(p), Cone(t)>> \in R
  BY <1>11, <1>12 DEF StrictSubsetOrdering
<1>14. QED
  BY <1>3, <1>8, <1>13

\* A layer lists the tables that wait for none.
LEMMA LayerFacts ==
  ASSUME SearchInv, CycleFacts, OrderFacts, Layer
  PROVE  OrderFacts'
<1>1. UNCHANGED <<fks, pc, deferred, dropped>> /\ pc = "order" /\ order' = order \o Sorted(Ready)
      /\ pending' = {<<w[1], w[2] \ Ready>> : w \in {v \in pending : v[2] # {}}}
  BY DEF Layer
<1>2. pending = {<<t, Awaited(t)>> : t \in Left}
  BY <1>1 DEF OrderFacts
<1>3. Ready = {t \in Left : Awaited(t) = {}}
  <2>1. \A t \in Ready : t \in Left /\ Awaited(t) = {}
    BY <1>2 DEF Ready
  <2>2. ASSUME NEW t \in Left, Awaited(t) = {} PROVE t \in Ready
    <3>1. <<t, {}>> \in pending
      BY <1>2, <2>2
    <3>2. QED
      BY <3>1 DEF Ready
  <2>3. Ready \subseteq Left
    BY <2>1
  <2>4. QED
    BY <2>1, <2>2, <2>3
<1>4. Left \subseteq Tables \ dropped /\ \A t \in Left : ~Listed(t)
  BY DEF Left
<1>5. PICK n, m, s, T : n = Len(order) /\ s = Sorted(Ready) /\ m = Len(s) /\ T = Tables \ dropped
  OBVIOUS
<1>6. Lists(s, Ready)
  <2>1. Ready \in SUBSET Tables
    BY <1>3, <1>4
  <2>2. Ready \in SUBSET Nat /\ IsFiniteSet(Ready)
    BY <2>1, TablesAssumption, FS_Subset
  <2>3. QED
    BY <1>5, <2>2, SortedLists
<1>7. order \in Seq(T) /\ s \in Seq(T) /\ n \in Nat /\ m \in Nat
  BY <1>3, <1>4, <1>5, <1>6 DEF Lists, OrderFacts
<1>8. /\ order' \in Seq(T) /\ DOMAIN order' = 1..n + m
      /\ \A i \in 1..n : order'[i] = order[i]
      /\ \A i \in 1..m : order'[n + i] = s[i]
  BY <1>1, <1>5, <1>7
<1>9. DOMAIN order = 1..n /\ DOMAIN s = 1..m
  BY <1>5, <1>7
<1>10. \A i \in 1..n + m : i \in 1..n \/ \E k \in 1..m : i = n + k
  <2>1. SUFFICES ASSUME NEW i \in 1..n + m, i \notin 1..n PROVE \E k \in 1..m : i = n + k
    OBVIOUS
  <2>2. i - n \in 1..m /\ i = n + (i - n)
    BY <1>7, <2>1
  <2>3. QED
    BY <2>2
<1>11. \A k \in 1..m : s[k] \in Ready
  <2>1. s \in Seq(Ready) /\ m = Len(s)
    BY <1>5, <1>6 DEF Lists
  <2>2. QED
    BY <2>1
<1>12. \A t : Listed(t)' <=> Listed(t) \/ t \in Ready
  <2>1. ASSUME NEW t, Listed(t)' PROVE Listed(t) \/ t \in Ready
    <3>1. PICK i \in 1..n + m : order'[i] = t
      BY <1>8, <2>1 DEF Listed
    <3>2. CASE i \in 1..n
      BY <1>8, <1>9, <3>1, <3>2 DEF Listed
    <3>3. CASE \E k \in 1..m : i = n + k
      BY <1>8, <1>11, <3>1, <3>3
    <3>4. QED
      BY <1>10, <3>2, <3>3
  <2>2. ASSUME NEW t, Listed(t) PROVE Listed(t)'
    <3>1. PICK i \in 1..n : order[i] = t
      BY <1>9, <2>2 DEF Listed
    <3>2. i \in 1..n + m /\ order'[i] = t
      BY <1>7, <1>8, <3>1
    <3>3. QED
      BY <1>8, <3>2 DEF Listed
  <2>3. ASSUME NEW t \in Ready PROVE Listed(t)'
    <3>1. PICK k \in 1..m : s[k] = t
      BY <1>6, <1>9 DEF Lists
    <3>2. n + k \in 1..n + m /\ order'[n + k] = t
      BY <1>7, <1>8, <3>1
    <3>3. QED
      BY <1>8, <3>2 DEF Listed
  <2>4. QED
    BY <2>1, <2>2, <2>3
<1>13. \A i, j \in DOMAIN order' : order'[i] = order'[j] => i = j
  <2>1. SUFFICES ASSUME NEW i \in 1..n + m, NEW j \in 1..n + m, order'[i] = order'[j] PROVE i = j
    BY <1>8
  <2>2. CASE i \in 1..n /\ j \in 1..n
    BY <1>8, <1>9, <2>1, <2>2 DEF OrderFacts
  <2>3. CASE i \in 1..n /\ \E k \in 1..m : j = n + k
    <3>1. Listed(order[i]) /\ order[i] \in Ready
      BY <1>8, <1>9, <1>11, <2>1, <2>3 DEF Listed
    <3>2. QED
      BY <1>3, <1>4, <3>1
  <2>4. CASE j \in 1..n /\ \E k \in 1..m : i = n + k
    <3>1. Listed(order[j]) /\ order[j] \in Ready
      BY <1>8, <1>9, <1>11, <2>1, <2>4 DEF Listed
    <3>2. QED
      BY <1>3, <1>4, <3>1
  <2>5. CASE (\E k \in 1..m : i = n + k) /\ \E k \in 1..m : j = n + k
    <3>1. PICK k \in 1..m, l \in 1..m : i = n + k /\ j = n + l
      BY <2>5
    <3>2. s[k] = s[l]
      BY <1>8, <2>1, <3>1
    <3>3. k = l
      BY <1>6, <1>9, <3>2 DEF Lists
    <3>4. QED
      BY <3>1, <3>3
  <2>6. QED
    BY <1>10, <2>2, <2>3, <2>4, <2>5
<1>14. ASSUME NEW i \in 1..n + m, NEW f \in Of(order'[i]) \ deferred, f.referenced \notin dropped
       PROVE  \E j \in 1..n + m : j < i /\ order'[j] = f.referenced
  <2>1. CASE i \in 1..n
    <3>1. PICK j \in 1..n : j < i /\ order[j] = f.referenced
      BY <1>1, <1>8, <1>9, <1>14, <2>1 DEF OrderFacts
    <3>2. QED
      BY <1>7, <1>8, <3>1
  <2>2. CASE \E k \in 1..m : i = n + k
    <3>1. PICK k \in 1..m : i = n + k
      BY <2>2
    <3>2. PICK t : t = s[k]
      OBVIOUS
    <3>3. t \in Ready /\ order'[i] = t
      BY <1>8, <1>11, <3>1, <3>2
    <3>4. t \in Left /\ Awaited(t) = {} /\ t \notin dropped
      BY <1>3, <1>4, <3>3
    <3>5. f \in Of(t) /\ f \in fks /\ f.table = t
      BY <3>3 DEF Of
    <3>6. f.referenced # t
      <4>1. ~Links(f.referenced, t)
        BY <1>1, <3>4, <3>5 DEF CycleFacts
      <4>2. QED
        BY <4>1 DEF Links
    <3>7. f.referenced \in Blockers(t, deferred, dropped)
      BY <1>14, <3>5, <3>6 DEF Blockers
    <3>8. Listed(f.referenced)
      BY <3>4, <3>7 DEF Awaited
    <3>9. PICK j \in 1..n : order[j] = f.referenced
      BY <1>9, <3>8 DEF Listed
    <3>10. j \in 1..n + m /\ j < i /\ order'[j] = f.referenced
      BY <1>7, <1>8, <3>1, <3>9
    <3>11. QED
      BY <3>10
  <2>3. QED
    BY <1>10, <2>1, <2>2
<1>15. Left' = {t \in Left : Awaited(t) # {}}
  <2>1. \A t \in Tables \ dropped : Listed(t)' <=> Listed(t) \/ (t \in Left /\ Awaited(t) = {})
    BY <1>3, <1>12
  <2>2. Left' = {t \in Tables \ dropped : ~Listed(t)'}
    BY <1>1 DEF Left
  <2>3. QED
    BY <2>1, <2>2 DEF Left
<1>16. \A t : Awaited(t)' = Awaited(t) \ Ready
  <2>1. \A t : Blockers(t, deferred, dropped)' = Blockers(t, deferred, dropped)
    BY <1>1 DEF Blockers, Of
  <2>2. QED
    BY <1>12, <2>1 DEF Awaited
<1>17. pending' = {<<t, Awaited(t)'>> : t \in Left'}
  <2>1. \A w \in pending' : \E t \in Left' : w = <<t, Awaited(t)'>>
    <3>1. SUFFICES ASSUME NEW w \in pending' PROVE \E t \in Left' : w = <<t, Awaited(t)'>>
      OBVIOUS
    <3>2. PICK v \in pending : v[2] # {} /\ w = <<v[1], v[2] \ Ready>>
      BY <1>1
    <3>3. PICK t \in Left : v = <<t, Awaited(t)>>
      BY <1>2
    <3>4. QED
      BY <1>15, <1>16, <3>2, <3>3
  <2>2. \A t \in Left' : <<t, Awaited(t)'>> \in pending'
    <3>1. SUFFICES ASSUME NEW t \in Left' PROVE <<t, Awaited(t)'>> \in pending'
      OBVIOUS
    <3>2. <<t, Awaited(t)>> \in pending /\ Awaited(t) # {}
      BY <1>2, <1>15
    <3>3. <<t, Awaited(t) \ Ready>> \in pending'
      BY <1>1, <3>2
    <3>4. QED
      BY <1>16, <3>3
  <2>3. QED
    BY <2>1, <2>2
<1>18. /\ order' \in Seq(Tables \ dropped')
       /\ \A i \in DOMAIN order' : \A f \in Of(order[i])' \ deferred' :
            f.referenced \in dropped' \/ \E j \in DOMAIN order' : j < i /\ order'[j] = f.referenced
  <2>1. order' \in Seq(Tables \ dropped')
    BY <1>1, <1>5, <1>8
  <2>2. ASSUME NEW i \in DOMAIN order', NEW f \in Of(order[i])' \ deferred', f.referenced \notin dropped'
        PROVE  \E j \in DOMAIN order' : j < i /\ order'[j] = f.referenced
    <3>1. f \in Of(order'[i]) \ deferred
      BY <1>1 DEF Of
    <3>2. QED
      BY <1>1, <1>8, <1>14, <2>2, <3>1
  <2>3. QED
    BY <2>1, <2>2
<1>19. \A i, j \in DOMAIN order' : \A f \in Of(order[i])' \ deferred' : f.referenced = order'[j] => j < i
  <2>1. SUFFICES ASSUME NEW i \in DOMAIN order', NEW j \in DOMAIN order', NEW f \in Of(order[i])' \ deferred',
                        f.referenced = order'[j]
                 PROVE  j < i
    OBVIOUS
  <2>2. f.referenced \notin dropped'
    BY <1>18, <2>1
  <2>3. PICK l \in DOMAIN order' : l < i /\ order'[l] = f.referenced
    BY <1>18, <2>2
  <2>4. QED
    BY <1>13, <2>1, <2>3
<1>20. QED
  BY <1>13, <1>17, <1>18, <1>19 DEF OrderFacts

(***************************************************************************)
(* The load                                                                *)
(***************************************************************************)

\* A table is short of its rows for a reason that the rest of the load leaves as it is.
Explained(t) ==
  rows[t] < Scale =>
    key[t] = "uuid" \/ HasColumn(t) \/ \E f \in Of(t) \ deferred : ~f.nullable /\ rows[f.referenced] = 0

\* A table the load is through with is explained, and so are those its foreign keys refer
\* to; the load ends when none is listed, and leaves NULL only what it cannot fill.
LoadedFacts ==
  /\ rows \in [Tables -> Nat]
  /\ pc \in {"load", "fill", "committed"} =>
       \A t \in Left : Explained(t) /\ \A f \in Of(t) \ deferred : ~Listed(f.referenced)
  /\ pc \in {"fill", "committed"} => order = <<>>
  /\ pc = "committed" => \A f \in nulls \cap deferred : f.composite \/ rows[f.referenced] = 0

OrderInv == SearchInv /\ CycleFacts /\ OrderFacts /\ LoadedFacts

LEMMA OrderInvInit == Init => OrderInv
<1> SUFFICES ASSUME Init PROVE OrderInv
  OBVIOUS
<1>1. order = <<>> /\ DOMAIN order = {} /\ pc = "components" /\ deferred = {} /\ dropped = {} /\ rows = Zero
  BY DEF Init
<1>2. CycleFacts /\ OrderFacts
  BY <1>1 DEF CycleFacts, OrderFacts
<1>3. LoadedFacts
  BY <1>1 DEF LoadedFacts, Zero
<1>4. QED
  BY <1>2, <1>3, SearchInvInit DEF OrderInv

\* Nothing of the plan changes.
LEMMA OrderFactsStay ==
  ASSUME OrderFacts, UNCHANGED <<fks, deferred, dropped, order>>, pc' = "order" => pc = "order" /\ UNCHANGED pending
  PROVE  /\ OrderFacts' /\ Left' = Left
         /\ \A t : Of(t)' = Of(t)
         /\ \A t : Listed(t)' <=> Listed(t)
<1>1. \A t : Of(t)' = Of(t)
  BY DEF Of
<1>2. \A t : Listed(t)' <=> Listed(t)
  BY DEF Listed
<1>3. Left' = Left
  BY <1>2 DEF Left
<1>4. \A t : Awaited(t)' = Awaited(t)
  BY <1>1, <1>2 DEF Awaited, Blockers
<1>5. \A i : Of(order[i])' = Of(order[i])
  BY DEF Of
<1>6. pc' = "order" => pending' = {<<t, Awaited(t)'>> : t \in Left'}
  BY <1>3, <1>4 DEF OrderFacts
<1>7. OrderFacts'
  BY <1>5, <1>6 DEF OrderFacts
<1>8. QED
  BY <1>1, <1>2, <1>3, <1>7

LEMMA ResolveCyclesHolds ==
  ASSUME OrderInv, ResolveCycles
  PROVE  CycleFacts' /\ OrderFacts' /\ LoadedFacts'
<1>1. pc = "components" /\ pc' = "order" /\ UNCHANGED <<fks, order, rows>>
      /\ pending' = {<<t, Blockers(t, deferred', dropped')>> : t \in Tables \ dropped'}
  BY DEF ResolveCycles, data
<1>2. CycleFacts'
  BY ResolveCyclesFacts DEF OrderInv
<1>3. order = <<>> /\ DOMAIN order = {} /\ \A t : ~Listed(t)'
  BY <1>1 DEF OrderInv, CycleFacts, Listed
<1>4. Left' = Tables \ dropped' /\ \A t : Awaited(t)' = Blockers(t, deferred', dropped')
  BY <1>1, <1>3 DEF Left, Awaited, Blockers, Of
<1>5. OrderFacts'
  BY <1>1, <1>3, <1>4 DEF OrderFacts
<1>6. LoadedFacts'
  BY <1>1 DEF OrderInv, LoadedFacts
<1>7. QED
  BY <1>2, <1>5, <1>6

\* The load is through with the first table of the order.
LEMMA TailFacts ==
  ASSUME OrderInv, pc = "load", pc' = "load", order # <<>>, NextTable, UNCHANGED <<fks, deferred, dropped>>
  PROVE  /\ OrderFacts'
         /\ Loading \in Tables \ dropped
         /\ \A t : Listed(t)' <=> Listed(t) /\ t # Loading
         /\ Left' = Left \cup {Loading}
         /\ \A f \in Of(Loading) \ deferred : ~Listed(f.referenced)' /\ f.referenced # Loading
<1>1. PICK n, T : n = Len(order) /\ T = Tables \ dropped
  OBVIOUS
<1>2. order \in Seq(T) /\ n \in Nat /\ DOMAIN order = 1..n /\ 1 \in 1..n
  BY <1>1 DEF OrderInv, OrderFacts
<1>3. order' = Tail(order) /\ order' \in Seq(T) /\ DOMAIN order' = 1..n - 1
      /\ \A i \in 1..n - 1 : order'[i] = order[i + 1] /\ i + 1 \in 1..n
  BY <1>1, <1>2 DEF NextTable
<1>4. Loading = order[1] /\ Loading \in T
  BY <1>2 DEF Loading
<1>5. \A i, j \in 1..n : order[i] = order[j] => i = j
  BY <1>2 DEF OrderInv, OrderFacts
<1>6. \A t : Listed(t)' <=> Listed(t) /\ t # Loading
  <2>1. ASSUME NEW t, Listed(t)' PROVE Listed(t) /\ t # Loading
    <3>1. PICK i \in 1..n - 1 : order'[i] = t
      BY <1>3, <2>1 DEF Listed
    <3>2. order[i + 1] = t /\ i + 1 \in 1..n /\ i + 1 # 1
      BY <1>2, <1>3, <3>1
    <3>3. QED
      BY <1>2, <1>4, <1>5, <3>2 DEF Listed
  <2>2. ASSUME NEW t, Listed(t), t # Loading PROVE Listed(t)'
    <3>1. PICK i \in 1..n : order[i] = t
      BY <1>2, <2>2 DEF Listed
    <3>2. i - 1 \in 1..n - 1 /\ (i - 1) + 1 = i
      BY <1>2, <1>4, <2>2, <3>1
    <3>3. order'[i - 1] = t
      BY <1>3, <3>1, <3>2
    <3>4. QED
      BY <1>3, <3>2, <3>3 DEF Listed
  <2>3. QED
    BY <2>1, <2>2
<1>7. \A t : Of(t)' = Of(t)
  BY DEF Of
<1>8. \A i, j \in 1..n : \A f \in Of(order[i]) \ deferred : f.referenced = order[j] => j < i
  BY <1>2 DEF OrderInv, OrderFacts
<1>9. OrderFacts'
  <2>1. \A i, j \in DOMAIN order' : order'[i] = order'[j] => i = j
    <3>1. SUFFICES ASSUME NEW i \in 1..n - 1, NEW j \in 1..n - 1, order'[i] = order'[j] PROVE i = j
      BY <1>3
    <3>2. i + 1 = j + 1
      BY <1>3, <1>5, <3>1
    <3>3. QED
      BY <3>2
  <2>2. \A i, j \in DOMAIN order' : \A f \in Of(order[i])' \ deferred' : f.referenced = order'[j] => j < i
    <3>1. SUFFICES ASSUME NEW i \in 1..n - 1, NEW j \in 1..n - 1, NEW f \in Of(order[i])' \ deferred',
                          f.referenced = order'[j]
                   PROVE  j < i
      BY <1>3
    <3>2. f \in Of(order'[i]) \ deferred
      BY <3>1 DEF Of
    <3>3. f \in Of(order[i + 1]) \ deferred /\ f.referenced = order[j + 1]
      BY <1>3, <3>1, <3>2
    <3>4. j + 1 < i + 1
      BY <1>3, <1>8, <3>3
    <3>5. QED
      BY <3>4
  <2>3. order' \in Seq(Tables \ dropped')
    BY <1>1, <1>3
  <2>4. QED
    BY <2>1, <2>2, <2>3 DEF OrderFacts
<1>10. Left' = Left \cup {Loading}
  <2>1. Left' = {t \in Tables \ dropped : ~Listed(t)'}
    BY DEF Left
  <2>2. QED
    BY <1>1, <1>4, <1>6, <2>1 DEF Left
<1>11. ASSUME NEW f \in Of(Loading) \ deferred PROVE ~Listed(f.referenced)
  <2>1. SUFFICES ASSUME NEW j \in 1..n, order[j] = f.referenced PROVE FALSE
    BY <1>2 DEF Listed
  <2>2. j < 1
    BY <1>2, <1>4, <1>8, <2>1
  <2>3. QED
    BY <2>2
<1>12. Listed(Loading)
  BY <1>2, <1>4 DEF Listed
<1>13. QED
  BY <1>1, <1>4, <1>6, <1>9, <1>10, <1>11, <1>12

\* What is explained stays so: the rows that explain it are not of a listed table.
LEMMA ExplainedStays ==
  ASSUME OrderInv, NEW t \in Left, Explained(t), \A f \in Of(t) \ deferred : ~Listed(f.referenced),
         UNCHANGED <<fks, deferred, key, column>>, \A u : ~Listed(u) => rows'[u] = rows[u]
  PROVE  Explained(t)'
<1>1. rows'[t] = rows[t]
  BY DEF Left
<1>2. \A f \in Of(t) \ deferred : rows'[f.referenced] = rows[f.referenced]
  OBVIOUS
<1>3. Of(t)' = Of(t) /\ (HasColumn(t)' <=> HasColumn(t))
  BY DEF Of, HasColumn, First
<1>4. QED
  BY <1>1, <1>2, <1>3 DEF Explained

LEMMA TableHolds ==
  ASSUME OrderInv, SkipTable \/ CopyTable
  PROVE  OrderFacts' /\ LoadedFacts'
<1>1. /\ pc = "load" /\ pc' = "load" /\ order # <<>> /\ NextTable
      /\ UNCHANGED <<fks, deferred, dropped, key, column>>
  BY DEF SkipTable, CopyTable
<1>2. PICK t : t = Loading
  OBVIOUS
<1>3. /\ OrderFacts'
      /\ t \in Tables \ dropped
      /\ \A u : Listed(u)' <=> Listed(u) /\ u # t
      /\ Left' = Left \cup {t}
      /\ \A f \in Of(t) \ deferred : ~Listed(f.referenced)' /\ f.referenced # t
  BY <1>1, <1>2, TailFacts
<1>4. rows \in [Tables -> Nat] /\ Scale \in Nat
  BY BoundsAssumption DEF OrderInv, LoadedFacts
<1>5. RowCount(t) \in Nat /\ rows[t] + RowCount(t) >= Scale
  BY <1>3, <1>4 DEF RowCount
<1>6. rows' \in [Tables -> Nat] /\ \A u : u # t => rows'[u] = rows[u]
  <2>1. CASE SkipTable
    BY <1>4, <2>1 DEF SkipTable
  <2>2. CASE CopyTable
    <3>1. rows' = [rows EXCEPT ![t] = rows[t] + RowCount(t)]
      BY <1>2, <2>2 DEF CopyTable
    <3>2. QED
      BY <1>3, <1>4, <1>5, <3>1
  <2>3. QED
    BY <2>1, <2>2
<1>7. \A u : Of(u)' = Of(u)
  BY <1>1 DEF Of
<1>8. Explained(t)'
  <2>1. CASE SkipTable
    <3>1. NoValueSource(t) /\ rows' = rows
      BY <1>2, <2>1 DEF SkipTable
    <3>2. key[t] = "uuid" \/ HasColumn(t) \/ \E f \in Of(t) \ deferred : ~f.nullable /\ rows[f.referenced] = 0
      BY <3>1 DEF NoValueSource, Pooled, EmptyPool
    <3>3. Explained(t)' <=> Explained(t)
      BY <1>1, <1>7, <3>1 DEF Explained, HasColumn, First
    <3>4. QED
      BY <3>2, <3>3 DEF Explained
  <2>2. CASE CopyTable
    <3>1. rows'[t] = rows[t] + RowCount(t)
      BY <1>2, <1>3, <1>4, <2>2 DEF CopyTable
    <3>2. ~(rows'[t] < Scale)
      BY <1>3, <1>4, <1>5, <1>6, <3>1
    <3>3. QED
      BY <3>2 DEF Explained
  <2>3. QED
    BY <2>1, <2>2
<1>9. ASSUME NEW u \in Left
      PROVE  Explained(u)' /\ \A f \in Of(u) \ deferred : ~Listed(f.referenced)'
  <2>1. Explained(u) /\ \A f \in Of(u) \ deferred : ~Listed(f.referenced)
    BY <1>1 DEF OrderInv, LoadedFacts
  <2>2. Listed(t)
    <3>1. 1 \in DOMAIN order
      BY <1>1 DEF OrderInv, OrderFacts
    <3>2. QED
      BY <1>2, <3>1 DEF Loading, Listed
  <2>3. \A v : ~Listed(v) => rows'[v] = rows[v]
    BY <1>6, <2>2
  <2>4. Explained(u)'
    BY <1>1, <2>1, <2>3, ExplainedStays
  <2>5. QED
    BY <1>3, <2>1, <2>4
<1>10. \A u \in Left' : Explained(u)' /\ \A f \in (Of(u) \ deferred)' : ~Listed(f.referenced)'
  BY <1>1, <1>3, <1>7, <1>8, <1>9
<1>11. LoadedFacts'
  BY <1>1, <1>6, <1>10 DEF LoadedFacts
<1>12. QED
  BY <1>3, <1>11

LEMMA OrderInvStep == OrderInv /\ [Next]_vars => OrderInv'
<1> SUFFICES ASSUME OrderInv, [Next]_vars PROVE OrderInv'
  OBVIOUS
<1>1. SearchInv'
  BY SearchInvStep DEF OrderInv
<1>2. CASE NextRoot \/ NextSuccessor \/ FinishNode
  <2>1. UNCHANGED <<fks, pc, order, pending, deferred, dropped, rows>> /\ pc = "components"
    BY <1>2 DEF NextRoot, NextSuccessor, FinishNode, plan, data
  <2>2. CycleFacts'
    BY <2>1, SameKeys DEF OrderInv, CycleFacts
  <2>3. OrderFacts'
    BY <2>1, OrderFactsStay DEF OrderInv
  <2>4. LoadedFacts'
    BY <2>1 DEF OrderInv, LoadedFacts
  <2>5. QED
    BY <1>1, <2>2, <2>3, <2>4 DEF OrderInv
<1>3. CASE ResolveCycles
  BY <1>1, <1>3, ResolveCyclesHolds DEF OrderInv
<1>4. CASE Layer
  <2>1. UNCHANGED <<fks, pc, components, deferred, dropped, rows>> /\ pc = "order"
    BY <1>4 DEF Layer, search, data
  <2>2. CycleFacts'
    BY <2>1, CycleFactsStay DEF OrderInv
  <2>3. OrderFacts'
    BY <1>4, LayerFacts DEF OrderInv
  <2>4. LoadedFacts'
    BY <2>1 DEF OrderInv, LoadedFacts
  <2>5. QED
    BY <1>1, <2>2, <2>3, <2>4 DEF OrderInv
<1>5. CASE OpenDatabase \/ OpenDatabaseWithCheck
  <2>1. /\ UNCHANGED <<fks, components, order, deferred, dropped>>
        /\ pc = "order" /\ pc' = "load" /\ Ready = {}
    BY <1>5 DEF OpenDatabase, OpenDatabaseWithCheck, search, plan
  <2>2. CycleFacts'
    BY <2>1, CycleFactsStay DEF OrderInv
  <2>3. OrderFacts' /\ Left' = Left
    BY <2>1, OrderFactsStay DEF OrderInv
  <2>4. Left = {}
    BY <2>1, SomeTableIsReady DEF OrderInv
  <2>5. rows' \in [Tables -> Nat]
    <3>1. CASE OpenDatabase
      BY <3>1 DEF OpenDatabase
    <3>2. CASE OpenDatabaseWithCheck
      BY <3>2 DEF OpenDatabaseWithCheck, data, OrderInv, LoadedFacts
    <3>3. QED
      BY <1>5, <3>1, <3>2
  <2>6. LoadedFacts'
    BY <2>1, <2>3, <2>4, <2>5 DEF LoadedFacts
  <2>7. QED
    BY <1>1, <2>2, <2>3, <2>6 DEF OrderInv
<1>6. CASE SkipTable \/ CopyTable
  <2>1. UNCHANGED <<fks, components, deferred, dropped>> /\ pc = "load" /\ pc' = "load"
    BY <1>6 DEF SkipTable, CopyTable, search
  <2>2. CycleFacts'
    BY <2>1, CycleFactsStay DEF OrderInv
  <2>3. QED
    BY <1>1, <1>6, <2>2, TableHolds DEF OrderInv
<1>7. CASE CopyFails \/ SynchronizeSequences \/ FillDeferred \/ FillFails \/ UNCHANGED vars
  <2>1. /\ UNCHANGED <<fks, components, order, deferred, dropped, key, column, rows>>
        /\ pc = "components" => pc' = "components"
        /\ pc # "components" => pc' # "components"
        /\ pc' = "order" => pc = "order" /\ UNCHANGED pending
    BY <1>7 DEF CopyFails, SynchronizeSequences, FillDeferred, FillFails, vars, search, plan, data
  <2>2. CycleFacts'
    BY <2>1, CycleFactsStay DEF OrderInv
  <2>3. /\ OrderFacts' /\ Left' = Left
        /\ \A t : Of(t)' = Of(t)
        /\ \A t : Listed(t)' <=> Listed(t)
    BY <2>1, OrderFactsStay DEF OrderInv
  <2>4. \A t : Explained(t)' <=> Explained(t)
    BY <2>1, <2>3 DEF Explained, HasColumn, First
  <2>5. pc' \in {"load", "fill", "committed"} => pc \in {"load", "fill", "committed"}
    BY <1>7 DEF CopyFails, SynchronizeSequences, FillDeferred, FillFails, vars
  <2>6. pc' \in {"load", "fill", "committed"} =>
          \A t \in Left' : Explained(t)' /\ \A f \in (Of(t) \ deferred)' : ~Listed(f.referenced)'
    BY <2>1, <2>3, <2>4, <2>5 DEF OrderInv, LoadedFacts
  <2>7. pc' \in {"fill", "committed"} => order' = <<>>
    BY <1>7, <2>1 DEF OrderInv, LoadedFacts, CopyFails, SynchronizeSequences, FillDeferred, FillFails, vars
  <2>8. pc' = "committed" => \A f \in nulls' \cap deferred' : f.composite \/ rows'[f.referenced] = 0
    <3>1. CASE FillDeferred
      <4>1. SUFFICES ASSUME NEW f \in nulls', f \in deferred, ~f.composite PROVE rows[f.referenced] = 0
        BY <2>1
      <4>2. ~Fillable(f)
        BY <3>1, <4>1 DEF FillDeferred
      <4>3. f.referenced \in Tables
        BY <4>1 DEF OrderInv, CycleFacts, SearchInv, SearchOK, ForeignKeys
      <4>4. rows[f.referenced] \in Nat
        BY <4>3 DEF OrderInv, LoadedFacts
      <4>5. QED
        BY <4>1, <4>2, <4>4 DEF Fillable
    <3>2. CASE CopyFails \/ SynchronizeSequences \/ FillFails
      BY <3>2 DEF CopyFails, SynchronizeSequences, FillFails
    <3>3. CASE UNCHANGED vars
      BY <2>1, <3>3 DEF vars, data, OrderInv, LoadedFacts
    <3>4. QED
      BY <1>7, <3>1, <3>2, <3>3
  <2>9. LoadedFacts'
    BY <2>1, <2>6, <2>7, <2>8 DEF OrderInv, LoadedFacts
  <2>10. QED
    BY <1>1, <2>2, <2>3, <2>9 DEF OrderInv
<1>8. QED
  BY <1>2, <1>3, <1>4, <1>5, <1>6, <1>7 DEF Next

LEMMA OrderIsSound == OrderInv => LoadOrderIsSound
<1> SUFFICES ASSUME OrderInv PROVE LoadOrderIsSound
  OBVIOUS
<1>1. ComponentsAreCycles
  BY DEF OrderInv, CycleFacts, ComponentsAreCycles, Class
<1>2. ASSUME pc = "order", Ready = {}
      PROVE  /\ ToSet(order) = Tables \ dropped /\ IsInjective(order)
             /\ \A i, j \in DOMAIN order : (\E f \in Of(order[i]) \ deferred : f.referenced = order[j]) => j < i
  <2>1. Left = {}
    BY <1>2, SomeTableIsReady DEF OrderInv
  <2>2. Tables \ dropped \subseteq ToSet(order)
    BY <2>1 DEF Left, Listed, ToSet
  <2>3. ToSet(order) \subseteq Tables \ dropped
    BY DEF OrderInv, OrderFacts, ToSet
  <2>4. IsInjective(order)
    BY DEF OrderInv, OrderFacts, IsInjective
  <2>5. \A i, j \in DOMAIN order : (\E f \in Of(order[i]) \ deferred : f.referenced = order[j]) => j < i
    BY DEF OrderInv, OrderFacts
  <2>6. QED
    BY <2>2, <2>3, <2>4, <2>5
<1>3. \A t \in dropped : \E f \in fks : ~f.nullable /\ Reaches(t, f.table) /\ Reaches(f.referenced, t)
  BY DEF OrderInv, CycleFacts
<1>4. QED
  BY <1>1, <1>2, <1>3 DEF LoadOrderIsSound, OrderIsComplete

\* The components the search finds are the cycles of the foreign keys, and the tables
\* that are not dropped are listed once each, after the tables they refer to.
THEOREM LoadOrderHolds == Spec => []LoadOrderIsSound
BY OrderInvInit, OrderInvStep, OrderIsSound, PTL DEF Spec

\* What is committed has the rows it was to have, or a reason that stands.
THEOREM LoadedHolds == Spec => []LoadedIsComplete
<1>1. OrderInv => LoadedIsComplete
  <2> SUFFICES ASSUME OrderInv, pc = "committed" PROVE LoadedIsComplete
    BY DEF LoadedIsComplete
  <2>1. order = <<>> /\ \A t : ~Listed(t)
    BY DEF OrderInv, LoadedFacts, Listed
  <2>2. Left = Tables \ dropped
    BY <2>1 DEF Left
  <2>3. \A t \in Tables \ dropped : Explained(t)
    BY <2>2 DEF OrderInv, LoadedFacts
  <2>4. QED
    BY <2>3 DEF LoadedIsComplete, Explained, OrderInv, LoadedFacts
<1>2. QED
  BY <1>1, OrderInvInit, OrderInvStep, PTL DEF Spec

(***************************************************************************)
(* One column                                                              *)
(***************************************************************************)

\* Two comparisons bound the column in one direction.
TwiceBounded(args) ==
  \E i, j \in DOMAIN args : i # j /\ (IsLower(args[i]) <=> IsLower(args[j]))

\* A comparison's bound is the first integer that satisfies it.
LEMMA CandidateBounds ==
  ASSUME NEW a \in Comparisons, NEW v \in Int
  PROVE  /\ Candidate(a) \in Int
         /\ IsLower(a) /\ Candidate(a) <= v => Compare(v, a.literal, a.op)
         /\ ~IsLower(a) /\ v <= Candidate(a) => Compare(v, a.literal, a.op)
<1>1. a.literal \in Int /\ a.op \in {">=", ">", "<=", "<"}
  BY LiteralsAssumption DEF Comparisons, Literals, Operators
<1>2. CASE a.op = ">="
  BY <1>1, <1>2 DEF Candidate, IsLower, Compare
<1>3. CASE a.op = ">"
  BY <1>1, <1>3 DEF Candidate, IsLower, Compare
<1>4. CASE a.op = "<="
  BY <1>1, <1>4 DEF Candidate, IsLower, Compare
<1>5. CASE a.op = "<"
  BY <1>1, <1>5 DEF Candidate, IsLower, Compare
<1>6. QED
  BY <1>1, <1>2, <1>3, <1>4, <1>5

\* The bounds of comparisons that bound the column once in each direction are theirs.
LEMMA BoundsAreTheirs ==
  ASSUME NEW args, DOMAIN args \subseteq Int, ~TwiceBounded(args), NEW k \in DOMAIN args
  PROVE  /\ BoundsOf(args) = Nothing \/ BoundsOf(args).kind = "range"
         /\ BoundsOf(args).kind = "range" /\ IsLower(args[k]) => BoundsOf(args).low = Candidate(args[k])
         /\ BoundsOf(args).kind = "range" /\ ~IsLower(args[k]) => BoundsOf(args).high = Candidate(args[k])
<1> DEFINE lower == {i \in DOMAIN args : IsLower(args[i])}
           upper == DOMAIN args \ lower
           Final(S) == Candidate(args[CHOOSE i \in S : \A j \in S : j <= i])
           Initial(S) == Candidate(args[CHOOSE i \in S : \A j \in S : i <= j])
           least == IF lower = {} THEN Initial(upper) - Ceiling ELSE Final(lower)
           most == IF upper = {} THEN Initial(lower) + Ceiling ELSE Final(upper)
<1>1. BoundsOf(args) = RangeCheck(least, most)
  BY DEF BoundsOf
<1>2. /\ BoundsOf(args) = Nothing \/ BoundsOf(args) = [kind |-> "range", low |-> least, high |-> most]
      /\ BoundsOf(args).kind = "range" => BoundsOf(args).low = least /\ BoundsOf(args).high = most
  <2> HIDE DEF least, most
  <2>1. QED
    BY <1>1 DEF RangeCheck, Nothing
<1>3. ASSUME IsLower(args[k]) PROVE least = Candidate(args[k])
  <2>1. lower = {k}
    BY <1>3 DEF TwiceBounded
  <2>2. (CHOOSE i \in {k} : \A j \in {k} : j <= i) = k
    <3>1. k \in Int
      OBVIOUS
    <3>2. QED
      BY <3>1
  <2> HIDE DEF lower
  <2>3. Final(lower) = Candidate(args[k]) /\ lower # {}
    BY <2>1, <2>2
  <2>4. QED
    BY <2>3
<1>4. ASSUME ~IsLower(args[k]) PROVE most = Candidate(args[k])
  <2>1. upper = {k}
    BY <1>4 DEF TwiceBounded
  <2>2. (CHOOSE i \in {k} : \A j \in {k} : j <= i) = k
    <3>1. k \in Int
      OBVIOUS
    <3>2. QED
      BY <3>1
  <2> HIDE DEF upper
  <2>3. Final(upper) = Candidate(args[k]) /\ upper # {}
    BY <2>1, <2>2
  <2>4. QED
    BY <2>3
<1> HIDE DEF least, most
<1>5. QED
  BY <1>2, <1>3, <1>4

\* A value of a recognized AND satisfies it.
LEMMA AndSatisfied ==
  ASSUME NEW e \in Expressions, e.node = "and", Recognized(e) # Nothing, ~TwiceBounded(e.args),
         NEW v \in Int, Recognized(e).low <= v, v <= Recognized(e).high
  PROVE  Recognized(e).kind = "range" /\ Satisfied(e, v)
<1>1. e.args \in {<<a>> : a \in Comparisons} \cup (Comparisons \X Comparisons)
  BY DEF Expressions
<1>2. DOMAIN e.args \subseteq Int /\ \A k \in DOMAIN e.args : e.args[k] \in Comparisons
  <2>1. CASE \E a \in Comparisons : e.args = <<a>>
    BY <2>1
  <2>2. CASE \E a, b \in Comparisons : e.args = <<a, b>>
    BY <2>2
  <2>3. QED
    BY <1>1, <2>1, <2>2
<1>3. Recognized(e) = BoundsOf(e.args)
  BY DEF Recognized
<1>4. DOMAIN e.args # {}
  <2>1. 1 \in DOMAIN e.args
    BY <1>1
  <2>2. QED
    BY <2>1
<1>5. BoundsOf(e.args).kind = "range"
  BY <1>2, <1>3, <1>4, BoundsAreTheirs
<1>6. ASSUME NEW k \in DOMAIN e.args
      PROVE  Compare(v, e.args[k].literal, e.args[k].op)
  <2> DEFINE a == e.args[k]
  <2>1. /\ IsLower(a) => Recognized(e).low = Candidate(a)
        /\ ~IsLower(a) => Recognized(e).high = Candidate(a)
    BY <1>2, <1>3, <1>5, BoundsAreTheirs
  <2>2. QED
    BY <1>2, <2>1, CandidateBounds
<1>7. QED
  BY <1>3, <1>5, <1>6 DEF Satisfied

\* A CHECK that its column's values do not satisfy is one the recognizer made nothing of,
\* or an earlier branch of _plan_column did not ask, or one it took for less than it is.
LEMMA PlannedValues ==
  ASSUME NEW k \in Columns, NEW v \in PlanColumn(k), ~Satisfied(k.check, v)
  PROVE  \/ Recognized(k.check) = Nothing
         \/ k.unique \/ k.family = "boolean"
         \/ /\ Recognized(k.check).kind = "range"
            /\ k.family # "integer" \/ (k.check.node = "and" /\ TwiceBounded(k.check.args))
<1> DEFINE e == k.check
           check == Recognized(e)
<1>1. SUFFICES ASSUME check # Nothing, ~k.unique, k.family # "boolean"
               PROVE  /\ check.kind = "range"
                      /\ k.family # "integer" \/ (e.node = "and" /\ TwiceBounded(e.args))
  OBVIOUS
<1>2. e \in Expressions /\ k.unique \in BOOLEAN
  BY DEF Columns
<1>3. e.node \in {"in", "or", "and", "between"}
  BY <1>1, <1>2 DEF Expressions, Recognized
<1>4. CASE e.node = "in"
  <2>1. check = [kind |-> "set", literals |-> e.literals]
    BY <1>4 DEF Recognized, SetCheck
  <2>2. v \in e.literals
    BY <1>1, <2>1 DEF PlanColumn
  <2>3. QED
    BY <1>4, <2>2 DEF Satisfied
<1>5. CASE e.node = "or"
  <2>1. check = [kind |-> "set", literals |-> {e.first, e.last}]
    BY <1>1, <1>5 DEF Recognized, SetCheck
  <2>2. v \in {e.first, e.last}
    BY <1>1, <2>1 DEF PlanColumn
  <2>3. QED
    BY <1>5, <2>2 DEF Satisfied
<1>6. CASE e.node = "between"
  <2>1. check = [kind |-> "range", low |-> e.low, high |-> e.high]
    BY <1>1, <1>6 DEF Recognized, RangeCheck
  <2>2. k.family = "integer" => v \in e.low..e.high
    BY <1>1, <2>1 DEF PlanColumn
  <2>3. e.low \in Int /\ e.high \in Int
    BY <1>2, <1>6, LiteralsAssumption DEF Expressions, Literals
  <2>4. QED
    BY <1>6, <2>1, <2>2, <2>3 DEF Satisfied
<1>7. CASE e.node = "and"
  <2>1. check = BoundsOf(e.args)
    BY <1>1, <1>7 DEF Recognized
  <2>2. check.kind = "range" /\ check = [kind |-> "range", low |-> check.low, high |-> check.high]
    <3>1. \A a, b : RangeCheck(a, b) # Nothing
                   => /\ RangeCheck(a, b).kind = "range"
                      /\ RangeCheck(a, b) = [kind |-> "range", low |-> RangeCheck(a, b).low,
                                            high |-> RangeCheck(a, b).high]
      BY DEF RangeCheck, Nothing
    <3>2. \E a, b : BoundsOf(e.args) = RangeCheck(a, b)
      BY DEF BoundsOf
    <3>3. QED
      BY <1>1, <2>1, <3>1, <3>2
  <2>3. ASSUME k.family = "integer", ~TwiceBounded(e.args)
        PROVE  FALSE
    <3>1. v \in check.low..check.high
      BY <1>1, <2>2, <2>3 DEF PlanColumn
    <3>2. v \in Int /\ check.low <= v /\ v <= check.high
      BY <3>1
    <3>3. QED
      BY <1>1, <1>2, <1>7, <2>3, <3>2, AndSatisfied
  <2>4. QED
    BY <1>7, <2>2, <2>3
<1>8. QED
  BY <1>3, <1>4, <1>5, <1>6, <1>7

\* A value that a narrow type does not hold comes of no CHECK that lists the values or is
\* BETWEEN, or of a branch before it.
LEMMA PlannedFits ==
  ASSUME NEW k \in Columns, NEW v \in PlanColumn(k), ~Fits(k, v)
  PROVE  k.narrow /\ (k.unique \/ ~BoundedByCheck(k))
<1> DEFINE e == k.check
           check == Recognized(e)
<1>1. SUFFICES ASSUME ~k.unique, BoundedByCheck(k) PROVE FALSE
  BY DEF Fits
<1>2. /\ e \in Expressions /\ k.unique \in BOOLEAN /\ k.narrow /\ v \notin Literals
      /\ k.family \in {"integer", "numeric", "text"}
  BY DEF Columns, Fits
<1>3. CASE check.kind = "set"
  <2>1. v \in check.literals
    BY <1>1, <1>2, <1>3 DEF PlanColumn
  <2>2. check.literals \subseteq Literals
    <3>1. e.node \in {"in", "or", "and", "between", "other"}
      BY <1>2 DEF Expressions
    <3>2. CASE e.node = "in"
      <4>1. check = [kind |-> "set", literals |-> e.literals] /\ e.literals \subseteq Literals
        BY <1>2, <3>2 DEF Recognized, SetCheck, Expressions
      <4>2. QED
        BY <4>1
    <3>3. CASE e.node = "or"
      <4>1. e.first \in Literals /\ e.last \in Literals
        BY <1>2, <3>3 DEF Expressions
      <4>2. check = [kind |-> "set", literals |-> {e.first, e.last}]
        BY <1>3, <3>3 DEF Recognized, SetCheck, Nothing
      <4>3. QED
        BY <4>1, <4>2
    <3>4. CASE e.node \in {"and", "between", "other"}
      <4>1. \A a, b : RangeCheck(a, b).kind # "set"
        BY DEF RangeCheck, Nothing
      <4>2. Nothing.kind # "set"
        BY DEF Nothing
      <4>3. CASE e.node = "and"
        <5>1. check = Nothing \/ check = BoundsOf(e.args)
          BY <4>3 DEF Recognized
        <5>2. \E a, b : BoundsOf(e.args) = RangeCheck(a, b)
          BY DEF BoundsOf
        <5>3. QED
          BY <1>3, <4>1, <4>2, <5>1, <5>2
      <4>4. CASE e.node = "between"
        BY <1>3, <4>1, <4>4 DEF Recognized
      <4>5. CASE e.node = "other"
        BY <1>3, <4>2, <4>5 DEF Recognized
      <4>6. QED
        BY <3>4, <4>3, <4>4, <4>5
    <3>5. QED
      BY <3>1, <3>2, <3>3, <3>4
  <2>3. QED
    BY <1>2, <2>1, <2>2
<1>4. CASE k.family = "integer" /\ e.node = "between" /\ check # Nothing
  <2>1. check = [kind |-> "range", low |-> e.low, high |-> e.high]
    BY <1>4 DEF Recognized, RangeCheck
  <2>2. v \in e.low..e.high
    BY <1>1, <1>4, <2>1 DEF PlanColumn
  <2>3. e.low \in Literals /\ e.high \in Literals
    BY <1>2, <1>4 DEF Expressions
  <2>4. QED
    BY <1>2, <2>2, <2>3, LiteralsAssumption DEF Literals
<1>5. QED
  BY <1>1, <1>3, <1>4 DEF BoundedByCheck

(***************************************************************************)
(* What COPY is given                                                      *)
(***************************************************************************)

\* What is known of a load that nothing has stopped: a deferred column may hold NULL.
LoadFacts ==
  /\ \A f \in deferred : f.nullable
  /\ column \in Columns \cup {NoColumn}
  /\ failure # "none" => pc = "failed"

SeedInv == LoadFacts /\ CopyIsAccepted

\* A foreign key that a new row holds NULL in may be NULL, or the table gets no rows.
LEMMA NullsAreAllowed ==
  ASSUME LoadFacts, NEW t, ~NoValueSource(t), NEW f \in NewNulls(t)
  PROVE  f.nullable
<1>1. CASE f \in deferred
  BY <1>1 DEF LoadFacts
<1>2. CASE f \in Pooled(t) /\ EmptyPool(f)
  BY <1>2 DEF NoValueSource
<1>3. QED
  BY <1>1, <1>2 DEF NewNulls

LEMMA SeedInvInit == Init => SeedInv
BY DEF Init, SeedInv, LoadFacts, CopyIsAccepted

\* While nothing has failed there is nothing to say of the failure.
LEMMA NoFailure ==
  ASSUME LoadFacts, pc # "failed", UNCHANGED failure
  PROVE  CopyIsAccepted' /\ failure' = "none"
BY DEF LoadFacts, CopyIsAccepted

\* COPY raises only for what CopyIsAccepted lists.
LEMMA CopyFailsHolds ==
  ASSUME SeedInv, CopyFails
  PROVE  SeedInv'
<1> DEFINE t == Loading
<1>1. /\ UNCHANGED <<fks, order, key, column, behind, deferred>> /\ pc' = "failed"
      /\ ~NoValueSource(t) /\ failure' \in Violations(t) \cup Certain(t)
  BY DEF CopyFails, plan
<1>2. LoadFacts'
  BY <1>1 DEF SeedInv, LoadFacts
<1>3. failure' # "not_null"
  <2>1. {g \in NewNulls(t) : ~g.nullable} = {}
    BY <1>1, NullsAreAllowed DEF SeedInv
  <2>2. QED
    BY <1>1, <2>1 DEF Violations, Certain
<1>4. failure' = "foreign_key" => \E f \in Of(t) : f.composite
  BY <1>1 DEF Violations, Certain, Fabricated
<1>5. failure' = "unique" => key[t] \in {"timestamp", "referencing"} \/ t \in behind
  <2>1. \A f \in Pooled(t) : Collides(f) => key[t] = "referencing"
    BY DEF Pooled, Of, Collides
  <2>2. QED
    BY <1>1, <2>1 DEF Violations, Certain
<1>9. failure' # "fill_unique"
  BY <1>1 DEF Violations, Certain
<1>10. failure' = "syntax" => key[t] = "bare" /\ Of(t) = {}
  <2>1. SUFFICES ASSUME Copied(t) = {} PROVE key[t] = "bare" /\ Of(t) = {}
    BY <1>1 DEF Violations, Certain
  <2>2. ~\E f \in Of(t) : TRUE
    <3>1. \A f \in Of(t) : <<"foreign_key", f.referenced>> \in Copied(t)
      BY DEF Copied
    <3>2. QED
      BY <2>1, <3>1
  <2>3. key[t] # "bare" => <<"other">> \in Copied(t)
    BY <2>1 DEF Copied
  <2>4. QED
    BY <2>1, <2>2, <2>3
<1>11. ASSUME failure' = "range"
       PROVE  key[t] = "narrow" \/ (column.narrow /\ (column.unique \/ ~BoundedByCheck(column)))
  <2>1. SUFFICES ASSUME NEW v \in ColumnValues(t), ~Fits(column, v)
                 PROVE  column.narrow /\ (column.unique \/ ~BoundedByCheck(column))
    BY <1>1, <1>11 DEF Violations, Certain
  <2>2. column # NoColumn /\ v \in PlanColumn(column)
    BY <2>1 DEF ColumnValues, HasColumn
  <2>3. column \in Columns
    BY <2>2 DEF SeedInv, LoadFacts
  <2>4. QED
    BY <2>1, <2>2, <2>3, PlannedFits
<1>6. ASSUME failure' = "check"
      PROVE  \/ Recognized(column.check) = Nothing
             \/ column.unique \/ column.family = "boolean"
             \/ /\ Recognized(column.check).kind = "range"
                /\ \/ column.family # "integer"
                   \/ column.check.node = "and" /\ TwiceBounded(column.check.args)
  <2>1. PICK v \in ColumnValues(t) : ~Satisfied(column.check, v)
    BY <1>1, <1>6 DEF Violations, Certain
  <2>2. column # NoColumn /\ v \in PlanColumn(column)
    BY <2>1 DEF ColumnValues, HasColumn
  <2>3. column \in Columns
    BY <2>2 DEF SeedInv, LoadFacts
  <2>4. QED
    BY <2>1, <2>2, <2>3, PlannedValues
<1>7. CopyIsAccepted'
  <2>1. Loading' = t /\ Of(t)' = Of(t) /\ key' = key /\ column' = column /\ behind' = behind
    BY <1>1 DEF Loading, Of
  <2>2. ASSUME failure' = "check"
        PROVE  \/ Recognized(column.check) = Nothing
               \/ column.unique \/ column.family = "boolean"
               \/ /\ Recognized(column.check).kind = "range"
                  /\ \/ column.family # "integer"
                     \/ column.check.node = "and" /\ \E i, j \in DOMAIN column.check.args :
                          i # j /\ (IsLower(column.check.args[i]) <=> IsLower(column.check.args[j]))
    BY <1>6, <2>2 DEF TwiceBounded
  <2>4. (key[Loading])' = key[t] /\ (Loading \in behind)' = (t \in behind)
        /\ Of(Loading)' = Of(t) /\ fks' = fks /\ deferred' = deferred
    BY <1>1, <2>1 DEF Of
  <2>5. (/\ failure # "not_null"
         /\ failure = "foreign_key" => \E f \in Of(Loading) : f.composite
         /\ failure = "unique" => key[Loading] \in {"timestamp", "referencing"} \/ Loading \in behind
         /\ failure = "fill_unique" => \E f \in deferred : key[f.table] = "referencing" /\ ~f.composite
         /\ failure = "syntax" => key[Loading] = "bare" /\ Of(Loading) = {})'
    BY <2>1, <2>4, <1>3, <1>4, <1>5, <1>9, <1>10
  <2>6. (failure = "range" =>
          \/ key[Loading] = "narrow"
          \/ column.narrow /\ (column.unique \/ ~BoundedByCheck(column)))'
    BY <2>1, <2>4, <1>11
  <2>7. (failure = "check" =>
          \/ Recognized(column.check) = Nothing
          \/ column.unique \/ column.family = "boolean"
          \/ /\ Recognized(column.check).kind = "range"
             /\ \/ column.family # "integer"
                \/ column.check.node = "and" /\ \E i, j \in DOMAIN column.check.args :
                     i # j /\ (IsLower(column.check.args[i]) <=> IsLower(column.check.args[j])))'
    BY <2>1, <2>2
  <2>3. QED
    BY <2>5, <2>6, <2>7 DEF CopyIsAccepted
<1>8. QED
  BY <1>2, <1>7 DEF SeedInv

LEMMA SeedInvStep == SeedInv /\ [Next]_vars => SeedInv'
<1> SUFFICES ASSUME SeedInv, [Next]_vars PROVE SeedInv'
  OBVIOUS
<1>1. CASE NextRoot \/ NextSuccessor \/ FinishNode
  <2>1. UNCHANGED <<pc, deferred, column, failure>> /\ pc # "failed"
    BY <1>1 DEF NextRoot, NextSuccessor, FinishNode, plan, data
  <2>2. QED
    BY <2>1, NoFailure DEF SeedInv, LoadFacts
<1>2. CASE ResolveCycles
  <2>1. UNCHANGED <<column, failure>> /\ pc # "failed"
    BY <1>2 DEF ResolveCycles, data
  <2>2. \A f \in deferred' : f.nullable
    BY <1>2 DEF ResolveCycles, Deferrable
  <2>3. QED
    BY <2>1, <2>2, NoFailure DEF SeedInv, LoadFacts
<1>3. CASE Layer \/ OpenDatabase \/ SkipTable \/ CopyTable \/ SynchronizeSequences \/ FillDeferred
  <2>1. UNCHANGED <<deferred, column, failure>> /\ pc # "failed"
    BY <1>3 DEF Layer, OpenDatabase, SkipTable, CopyTable, SynchronizeSequences, FillDeferred, plan, data
  <2>2. QED
    BY <2>1, NoFailure DEF SeedInv, LoadFacts
<1>4. CASE OpenDatabaseWithCheck
  <2>1. UNCHANGED <<deferred, failure>> /\ pc # "failed" /\ column' \in Columns
    BY <1>4 DEF OpenDatabaseWithCheck, plan, data
  <2>2. QED
    BY <2>1, NoFailure DEF SeedInv, LoadFacts
<1>5. CASE CopyFails
  BY <1>5, CopyFailsHolds
<1>8. CASE FillFails
  <2>1. UNCHANGED <<deferred, key, column>> /\ pc' = "failed" /\ failure' = "fill_unique"
    BY <1>8 DEF FillFails, plan
  <2>2. \E f \in deferred : key[f.table] = "referencing" /\ ~f.composite
    BY <1>8 DEF FillFails, Fillable, Collides
  <2>3. CopyIsAccepted'
    BY <2>1, <2>2 DEF CopyIsAccepted
  <2>4. QED
    BY <2>1, <2>3 DEF SeedInv, LoadFacts
<1>6. CASE UNCHANGED vars
  <2>1. UNCHANGED <<fks, pc, order, deferred, key, column, behind, failure>>
    BY <1>6 DEF vars, plan, data
  <2>2. LoadFacts'
    BY <2>1 DEF SeedInv, LoadFacts
  <2>3. CopyIsAccepted'
    BY <2>1 DEF SeedInv, CopyIsAccepted, Loading, Of
  <2>4. QED
    BY <2>2, <2>3 DEF SeedInv
<1>7. QED
  BY <1>1, <1>2, <1>3, <1>4, <1>5, <1>6, <1>8 DEF Next

\* However the tables refer to each other and whatever their columns' CHECKs say, COPY is
\* refused only for the causes CopyIsAccepted names, and never for a NULL.
THEOREM CopiesAccepted == Spec => []CopyIsAccepted
<1>1. SeedInv => CopyIsAccepted
  BY DEF SeedInv
<1>2. QED
  BY <1>1, SeedInvInit, SeedInvStep, PTL DEF Spec
=============================================================================
