--------------------------- MODULE KernelTreeProofs ---------------------------
(***************************************************************************)
(* Proofs about the process tree of the kernel without time slices: slots  *)
(* keep their processes, the lists of children are sound, no wakeup of a   *)
(* join is lost, the dead stay dead, and fork1, quit and join implement    *)
(* ProcessTree.  The inductive invariant is TreeInv.                       *)
(***************************************************************************)
EXTENDS KernelProofs, FiniteSetTheorems, NaturalsInduction, WellFoundedInduction

-----------------------------------------------------------------------------
(***************************************************************************)
(* Walks along a list.                                                     *)
(***************************************************************************)

\* A set of natural numbers that is not empty has a least element.
LEMMA Least ==
    ASSUME NEW T \in SUBSET Nat, T # {}
    PROVE  \E x \in T : \A y \in T : x <= y
<1> DEFINE R == {r \in Nat \X Nat : r[1] < r[2]}
<1>1. R = OpToRel(<, Nat)
  BY DEF OpToRel
<1>2. IsWellFoundedOn(R, Nat)
  BY <1>1, NatLessThanWellFounded
<1>3. PICK x \in T : \A y \in T : ~ (<<y, x>> \in R)
  BY <1>2, WFMin
<1>4. ASSUME NEW y \in T, ~(x <= y)
      PROVE  <<y, x>> \in R
  BY <1>4
<1> QED
  BY <1>3, <1>4

\* f is the path of a walk of n steps from h along next that stays where it
\* meets Stop, or NULL.
PathOf(f, next, h, Stop, n) ==
    /\ f \in [0 .. n -> Link]
    /\ f[0] = h
    /\ \A k \in 1 .. n : f[k] = IF f[k - 1] = NULL \/ f[k - 1] \in Stop
                                THEN f[k - 1] ELSE next[f[k - 1]]

\* A walk has a path, and ends where the path does.
LEMMA WalkIs ==
    ASSUME NEW next \in [Slots -> Link], NEW h \in Link, NEW Stop
    PROVE  \E f : /\ PathOf(f, next, h, Stop, MAXPROC)
                  /\ Walk(next, h, Stop) = f[MAXPROC]
<1> DEFINE step == [x \in Link |-> IF x = NULL \/ x \in Stop THEN x ELSE next[x]]
           Walks(f) == f = [k \in 0 .. MAXPROC |-> IF k = 0 THEN h ELSE step[f[k - 1]]]
           Short == {n \in Nat : ~ \E f : PathOf(f, next, h, Stop, n)}
<1>1. \A x \in Link : step[x] \in Link /\ (x # NULL => x \in Slots)
  BY DEF Link
<1>2. Short = {}
  <2> SUFFICES ASSUME Short # {} PROVE FALSE
    OBVIOUS
  <2>1. PICK n \in Short : \A j \in Short : n <= j
    <3>1. Short \in SUBSET Nat
      OBVIOUS
    <3> HIDE DEF Short
    <3> QED
      BY <3>1, Least
  <2>2. n \in Nat /\ ~ \E f : PathOf(f, next, h, Stop, n)
    OBVIOUS
  <2>3. CASE n = 0
    <3>1. PathOf([k \in 0 .. 0 |-> h], next, h, Stop, 0)
      BY DEF PathOf
    <3> QED
      BY <2>2, <2>3, <3>1
  <2>4. CASE n # 0
    <3>1. n - 1 \in Nat /\ ~(n <= n - 1)
      BY <2>2, <2>4
    <3>2. n - 1 \notin Short
      BY <2>1, <3>1
    <3>3. PICK g : PathOf(g, next, h, Stop, n - 1)
      BY <3>1, <3>2
    <3> DEFINE f == [k \in 0 .. n |-> IF k = n THEN step[g[n - 1]] ELSE g[k]]
    <3>4. /\ g \in [0 .. n - 1 -> Link] /\ g[0] = h
          /\ \A k \in 1 .. n - 1 : g[k] = step[g[k - 1]]
      <4>1. g \in [0 .. n - 1 -> Link] /\ g[0] = h
        BY <3>3 DEF PathOf
      <4>2. ASSUME NEW k \in 1 .. n - 1
            PROVE  g[k] = step[g[k - 1]]
        <5>1. g[k - 1] \in Link
          BY <2>2, <4>1
        <5> QED
          BY <3>3, <5>1 DEF PathOf
      <4> QED
        BY <4>1, <4>2
    <3>5. g[n - 1] \in Link
      BY <3>1, <3>4
    <3>6. f \in [0 .. n -> Link]
      <4>1. ASSUME NEW k \in 0 .. n, k # n
            PROVE  g[k] \in Link
        BY <2>2, <3>4, <4>1
      <4> HIDE DEF step
      <4> QED
        BY <1>1, <3>5, <4>1
    <3>7. f[0] = h
      BY <2>2, <2>4, <3>4
    <3>8. ASSUME NEW k \in 1 .. n
          PROVE  f[k] = step[f[k - 1]]
      <4>1. k - 1 \in 0 .. n /\ k - 1 # n /\ f[k - 1] = g[k - 1]
        BY <2>2
      <4>2. CASE k = n
        BY <4>1, <4>2, <2>2 DEF f
      <4>3. CASE k # n
        <5>1. k \in 1 .. n - 1 /\ f[k] = g[k]
          BY <4>3, <2>2
        <5> QED
          BY <5>1, <4>1, <3>4
      <4> QED
        BY <4>2, <4>3
    <3> HIDE DEF f
    <3>9. ASSUME NEW k \in 1 .. n
          PROVE  f[k] = IF f[k - 1] = NULL \/ f[k - 1] \in Stop
                        THEN f[k - 1] ELSE next[f[k - 1]]
      <4>1. f[k - 1] \in Link
        BY <2>2, <3>6
      <4> QED
        BY <3>8, <4>1
    <3>10. PathOf(f, next, h, Stop, n)
      BY <3>6, <3>7, <3>9 DEF PathOf
    <3> QED
      BY <2>2, <3>10
  <2> QED
    BY <2>3, <2>4
<1>3. MAXPROC \in Nat
  BY MaxprocAssumption
<1>4. PICK g : PathOf(g, next, h, Stop, MAXPROC)
  BY <1>2, <1>3
<1>5. Walks(g)
  <2>1. g \in [0 .. MAXPROC -> Link] /\ g[0] = h
    BY <1>4 DEF PathOf
  <2>2. ASSUME NEW k \in 0 .. MAXPROC, k # 0
        PROVE  g[k] = step[g[k - 1]]
    <3>1. k \in 1 .. MAXPROC /\ g[k - 1] \in Link
      BY <1>3, <2>1, <2>2
    <3> QED
      BY <1>4, <3>1 DEF PathOf
  <2> HIDE DEF step
  <2> QED
    BY <2>1, <2>2
<1> DEFINE f == CHOOSE w : Walks(w)
<1>6. Walks(f)
  <2> HIDE DEF Walks
  <2> QED
    BY <1>5
<1>7. Walk(next, h, Stop) = f[MAXPROC]
  BY DEF Walk
<1> HIDE DEF f
<1>8. f = [k \in 0 .. MAXPROC |-> IF k = 0 THEN h ELSE step[f[k - 1]]]
  BY <1>6
<1> HIDE DEF Walks
<1>9. f[0] = h /\ \A k \in 1 .. MAXPROC : f[k] = step[f[k - 1]]
  BY <1>3, <1>8
<1>10. \A k \in 0 .. MAXPROC : f[k] \in Link
  <2> DEFINE Bad == {k \in 0 .. MAXPROC : f[k] \notin Link}
  <2> SUFFICES ASSUME Bad # {} PROVE FALSE
    OBVIOUS
  <2>1. PICK k \in Bad : \A j \in Bad : k <= j
    <3>1. Bad \in SUBSET Nat
      OBVIOUS
    <3> HIDE DEF Bad
    <3> QED
      BY <3>1, Least
  <2>2. k \in 0 .. MAXPROC /\ f[k] \notin Link /\ k # 0
    BY <1>9
  <2>3. k - 1 \in 0 .. MAXPROC /\ ~(k <= k - 1) /\ k \in 1 .. MAXPROC
    BY <2>2, <1>3
  <2>4. f[k - 1] \in Link
    BY <2>1, <2>3
  <2>5. f[k] = step[f[k - 1]]
    BY <1>9, <2>3
  <2> HIDE DEF step
  <2> QED
    BY <1>1, <2>2, <2>4, <2>5
<1>11. f \in [0 .. MAXPROC -> Link]
  <2>1. f = [k \in 0 .. MAXPROC |-> f[k]]
    BY <1>8
  <2> QED
    BY <2>1, <1>10
<1>12. ASSUME NEW k \in 1 .. MAXPROC
       PROVE  f[k] = IF f[k - 1] = NULL \/ f[k - 1] \in Stop
                     THEN f[k - 1] ELSE next[f[k - 1]]
  <2>1. f[k - 1] \in Link
    BY <1>3, <1>10
  <2> QED
    BY <1>9, <2>1
<1>13. PathOf(f, next, h, Stop, MAXPROC)
  BY <1>9, <1>11, <1>12 DEF PathOf
<1> QED
  BY <1>7, <1>13

\* C is the set of the nodes of a list that starts at h, with ranks that
\* decrease from each node to the next and leave none out between them.
Ranked(C, next, rank, h) ==
    /\ C \subseteq Slots /\ next \in [Slots -> Link] /\ rank \in [Slots -> Nat]
    /\ h \in C \cup {NULL}
    /\ \A x \in C : next[x] # NULL => next[x] \in C /\ rank[next[x]] < rank[x]
    /\ \A z \in C : h # NULL /\ rank[z] <= rank[h]
    /\ \A x, z \in C : x # z =>
          \/ rank[x] < rank[z]
          \/ next[x] # NULL /\ rank[z] <= rank[next[x]]

\* A walk along such a list ends: at a node of Stop if the list has one, and at
\* NULL otherwise.
LEMMA WalkFinds ==
    ASSUME NEW C, NEW next, NEW rank, NEW h, Ranked(C, next, rank, h), NEW Stop
    PROVE  /\ Walk(next, h, Stop) \in (C \cap Stop) \cup {NULL}
           /\ C \cap Stop # {} => Walk(next, h, Stop) # NULL
<1>1. /\ C \subseteq Slots /\ next \in [Slots -> Link] /\ rank \in [Slots -> Nat]
      /\ h \in Link /\ MAXPROC \in Nat /\ NULL \notin Slots
  BY MaxprocAssumption DEF Ranked, Link, Slots, NULL
<1>2. PICK f : /\ PathOf(f, next, h, Stop, MAXPROC)
               /\ Walk(next, h, Stop) = f[MAXPROC]
  BY <1>1, WalkIs
<1>3. /\ f[0] = h
      /\ \A k \in 1 .. MAXPROC : f[k] = IF f[k - 1] = NULL \/ f[k - 1] \in Stop
                                        THEN f[k - 1] ELSE next[f[k - 1]]
  BY <1>2 DEF PathOf
<1>4. \A k \in 0 .. MAXPROC : f[k] \in C \cup {NULL}
  <2> DEFINE Bad == {k \in 0 .. MAXPROC : f[k] \notin C \cup {NULL}}
  <2> SUFFICES ASSUME Bad # {} PROVE FALSE
    OBVIOUS
  <2>1. PICK k \in Bad : \A j \in Bad : k <= j
    <3>1. Bad \in SUBSET Nat
      OBVIOUS
    <3> HIDE DEF Bad
    <3> QED
      BY <3>1, Least
  <2>2. k \in 0 .. MAXPROC /\ f[k] \notin C \cup {NULL} /\ k # 0
    BY <1>3 DEF Ranked
  <2>3. k - 1 \in 0 .. MAXPROC /\ ~(k <= k - 1) /\ k \in 1 .. MAXPROC
    BY <2>2, <1>1
  <2>4. f[k - 1] \in C \cup {NULL}
    BY <2>1, <2>3
  <2> QED
    BY <1>3, <2>2, <2>3, <2>4 DEF Ranked
<1> DEFINE going(k) == f[k] # NULL /\ f[k] \notin Stop
\* While it goes on, it has gone on all the time, to lower and lower ranks.
<1>5. ASSUME NEW k \in 0 .. MAXPROC, going(k)
      PROVE  \A j \in 0 .. k - 1 : going(j) /\ rank[f[k]] < rank[f[j]]
  <2> DEFINE Bad == {i \in 0 .. k - 1 :
                        ~ (going(k - 1 - i) /\ rank[f[k]] < rank[f[k - 1 - i]])}
  <2>1. Bad = {}
    <3> SUFFICES ASSUME Bad # {} PROVE FALSE
      OBVIOUS
    <3>1. PICK i \in Bad : \A j \in Bad : i <= j
      <4>1. Bad \in SUBSET Nat
        OBVIOUS
      <4> HIDE DEF Bad
      <4> QED
        BY <4>1, Least
    <3> DEFINE a == k - 1 - i
    <3>2. /\ i \in 0 .. k - 1 /\ ~ (going(a) /\ rank[f[k]] < rank[f[a]])
          /\ a \in 0 .. MAXPROC /\ a + 1 \in 1 .. MAXPROC /\ (a + 1) - 1 = a
      BY <1>1
    <3>3. /\ going(a + 1) /\ rank[f[k]] <= rank[f[a + 1]]
      <4>1. CASE i = 0
        <5>1. a + 1 = k /\ f[k] \in Slots
          BY <4>1, <3>2, <1>4, <1>5, <1>1
        <5> QED
          BY <5>1, <1>5, <1>1
      <4>2. CASE i # 0
        <5>1. i - 1 \in 0 .. k - 1 /\ ~(i <= i - 1) /\ k - 1 - (i - 1) = a + 1
          BY <4>2, <3>2, <1>1
        <5>2. i - 1 \notin Bad
          BY <3>1, <5>1
        <5>3. going(a + 1) /\ rank[f[k]] < rank[f[a + 1]]
          BY <5>1, <5>2
        <5>4. f[k] \in Slots /\ f[a + 1] \in Slots
          BY <5>3, <1>1, <1>4, <1>5, <3>2
        <5> QED
          BY <5>3, <5>4, <1>1
      <4> QED
        BY <4>1, <4>2
    <3>4. f[a + 1] = IF f[a] = NULL \/ f[a] \in Stop THEN f[a] ELSE next[f[a]]
      BY <1>3, <3>2
    <3> HIDE DEF a
    <3>5. going(a) /\ f[a + 1] = next[f[a]]
      BY <3>3, <3>4
    <3>6. /\ f[a] \in C /\ f[a + 1] \in C /\ f[k] \in C
          /\ rank[f[a + 1]] < rank[f[a]]
      BY <3>2, <3>3, <3>5, <1>4, <1>5, <1>1 DEF Ranked
    <3>7. /\ rank[f[a]] \in Nat /\ rank[f[a + 1]] \in Nat /\ rank[f[k]] \in Nat
      BY <1>1, <3>6
    <3> QED
      BY <3>2, <3>3, <3>5, <3>6, <3>7
  <2>2. ASSUME NEW j \in 0 .. k - 1
        PROVE  going(j) /\ rank[f[k]] < rank[f[j]]
    <3>1. k - 1 - j \in 0 .. k - 1 /\ k - 1 - (k - 1 - j) = j
      BY <1>1
    <3>2. k - 1 - j \notin Bad
      BY <2>1
    <3> QED
      BY <3>1, <3>2
  <2> QED
    BY <2>2
\* There are more steps than slots.
<1>6. ~going(MAXPROC)
  <2> SUFFICES ASSUME going(MAXPROC) PROVE FALSE
    OBVIOUS
  <2>1. MAXPROC \in 0 .. MAXPROC
    BY <1>1
  <2>2. \A j \in 0 .. MAXPROC : going(j) /\ f[j] \in Slots
    <3>1. \A j \in 0 .. MAXPROC - 1 : going(j)
      BY <2>1, <1>5
    <3>2. ASSUME NEW j \in 0 .. MAXPROC
          PROVE  j = MAXPROC \/ j \in 0 .. MAXPROC - 1
      BY <1>1
    <3> HIDE DEF going
    <3>3. \A j \in 0 .. MAXPROC : going(j)
      BY <3>1, <3>2
    <3> QED
      BY <3>3, <1>1, <1>4 DEF going
  <2>3. ASSUME NEW j \in 0 .. MAXPROC, NEW k \in 0 .. MAXPROC, f[j] = f[k], j < k
        PROVE  FALSE
    <3>1. j \in 0 .. k - 1
      BY <2>3, <1>1
    <3>2. rank[f[k]] < rank[f[j]]
      BY <3>1, <2>2, <1>5
    <3> QED
      BY <3>2, <2>2, <2>3, <1>1
  <2> DEFINE g == [j \in 0 .. MAXPROC |-> f[j]]
  <2>4. g \in Injection(0 .. MAXPROC, Slots)
    <3>1. g \in [0 .. MAXPROC -> Slots]
      BY <2>2
    <3>2. ASSUME NEW j \in 0 .. MAXPROC, NEW k \in 0 .. MAXPROC, g[j] = g[k]
          PROVE  j = k
      <4>1. f[j] = f[k]
        BY <3>2
      <4>2. ~(j < k) /\ ~(k < j)
        BY <2>3, <4>1
      <4> QED
        BY <4>2, <1>1
    <3> HIDE DEF g
    <3> QED
      BY <3>1, <3>2 DEF Injection, IsInjective
  <2>5. IsFiniteSet(Slots) /\ Cardinality(Slots) = MAXPROC
    <3>1. IsFiniteSet(0 .. MAXPROC - 1)
          /\ Cardinality(0 .. MAXPROC - 1) = (MAXPROC - 1) - 0 + 1
      <4>1. 0 \in Int /\ MAXPROC - 1 \in Int /\ 0 <= MAXPROC
        BY <1>1
      <4>2. IsFiniteSet(0 .. MAXPROC - 1)
            /\ Cardinality(0 .. MAXPROC - 1)
                = IF 0 > MAXPROC - 1 THEN 0 ELSE (MAXPROC - 1) - 0 + 1
        BY <4>1, FS_Interval
      <4>3. ~(0 > MAXPROC - 1)
        BY MaxprocAssumption
      <4> QED
        BY <4>2, <4>3
    <3> QED
      BY <3>1, <1>1 DEF Slots
  <2>6. IsFiniteSet(0 .. MAXPROC) /\ Cardinality(0 .. MAXPROC) = MAXPROC + 1
    <3>1. 0 \in Int /\ MAXPROC \in Int /\ ~(0 > MAXPROC)
      BY <1>1
    <3>2. IsFiniteSet(0 .. MAXPROC)
          /\ Cardinality(0 .. MAXPROC) = IF 0 > MAXPROC THEN 0 ELSE MAXPROC - 0 + 1
      BY <3>1, FS_Interval
    <3> QED
      BY <3>1, <3>2
  <2>7. Cardinality(0 .. MAXPROC) <= Cardinality(Slots)
    <3> HIDE DEF g
    <3> QED
      BY <2>4, <2>5, FS_Injection
  <2> QED
    BY <2>5, <2>6, <2>7, <1>1
<1>7. Walk(next, h, Stop) \in (C \cap Stop) \cup {NULL}
  <2>1. MAXPROC \in 0 .. MAXPROC
    BY <1>1
  <2> QED
    BY <2>1, <1>2, <1>4, <1>6
<1>8. ASSUME NEW z \in C \cap Stop
      PROVE  f[MAXPROC] # NULL
  <2> DEFINE Bad == {k \in 0 .. MAXPROC : ~(f[k] # NULL /\ rank[z] <= rank[f[k]])}
  <2>1. Bad = {}
    <3> SUFFICES ASSUME Bad # {} PROVE FALSE
      OBVIOUS
    <3>1. PICK k \in Bad : \A j \in Bad : k <= j
      <4>1. Bad \in SUBSET Nat
        OBVIOUS
      <4> HIDE DEF Bad
      <4> QED
        BY <4>1, Least
    <3>2. k \in 0 .. MAXPROC /\ ~(f[k] # NULL /\ rank[z] <= rank[f[k]])
      OBVIOUS
    <3>3. k # 0
      BY <3>2, <1>3 DEF Ranked
    <3>4. k - 1 \in 0 .. MAXPROC /\ ~(k <= k - 1) /\ k \in 1 .. MAXPROC
      BY <3>2, <3>3, <1>1
    <3>5. k - 1 \notin Bad
      BY <3>1, <3>4
    <3>6. f[k - 1] # NULL /\ rank[z] <= rank[f[k - 1]] /\ f[k - 1] \in C
      BY <3>4, <3>5, <1>4
    <3>7. f[k] = IF f[k - 1] = NULL \/ f[k - 1] \in Stop
                 THEN f[k - 1] ELSE next[f[k - 1]]
      BY <3>4, <1>3
    <3>8. f[k - 1] \notin Stop /\ f[k] = next[f[k - 1]] /\ f[k - 1] # z
      BY <3>2, <3>6, <3>7
    <3>9. ~(rank[f[k - 1]] < rank[z])
      BY <3>6, <1>1
    <3> QED
      BY <3>2, <3>6, <3>8, <3>9 DEF Ranked
  <2>2. MAXPROC \in 0 .. MAXPROC
    BY <1>1
  <2> QED
    BY <2>1, <2>2
<1> QED
  BY <1>2, <1>7, <1>8

-----------------------------------------------------------------------------
(***************************************************************************)
(* The table: free or used slots, each process in the slot of its PID, all *)
(* PIDs below n, and the lists of children.                                *)
(***************************************************************************)
\* The state and the start function of a free slot.
NoName == ""

FreeSlot(p) ==
    /\ p.PID = 0 /\ p.state = NoName /\ p.startFunc = NoName
    /\ p.parent = NULL /\ p.firstChild = NULL
    /\ p.nextSibling = NULL /\ p.prevSibling = NULL

Filled(t, n) ==
    /\ t \in [Slots -> Process]
    /\ \A x \in Slots :
        /\ ~t[x].isInitialized => FreeSlot(t[x])
        /\ t[x].isInitialized => /\ t[x].state # NoName /\ 0 < t[x].PID /\ t[x].PID < n
                                 /\ getProcess(t[x].PID) = x

\* The links of x to its relatives agree with theirs to x, and the child before
\* it is younger.
Linked(t, x) ==
    /\ t[x].firstChild # NULL =>
            /\ t[t[x].firstChild].parent = x
            /\ t[t[x].firstChild].prevSibling = NULL
    /\ t[x].nextSibling # NULL =>
            /\ t[t[x].nextSibling].parent = t[x].parent
            /\ t[t[x].nextSibling].prevSibling = x
            /\ t[t[x].nextSibling].PID < t[x].PID
    /\ t[x].prevSibling # NULL => t[t[x].prevSibling].nextSibling = x
    /\ t[x].parent # NULL =>
            /\ t[t[x].parent].firstChild # NULL
            /\ t[x].prevSibling = NULL => t[t[x].parent].firstChild = x
    /\ t[x].parent = NULL => t[x].nextSibling = NULL /\ t[x].prevSibling = NULL

\* Between a child and its next sibling there is no other child of the parent,
\* and none beyond the head of the list.
Ordered(t) ==
    \A x, z \in Slots :
        (x # z /\ t[x].parent # NULL /\ t[x].parent = t[z].parent) =>
            /\ \/ t[x].PID < t[z].PID
               \/ /\ t[x].nextSibling # NULL
                  /\ t[z].PID <= t[t[x].nextSibling].PID
            /\ t[z].PID <= t[t[t[z].parent].firstChild].PID

TableOK(t, n) ==
    /\ n \in Nat /\ Filled(t, n)
    /\ \A x \in Slots : Linked(t, x)
    /\ Ordered(t)

\* What the fields of a table can be.
LEMMA TableFields ==
    ASSUME NEW t, NEW n, TableOK(t, n)
    PROVE  /\ t \in [Slots -> Process] /\ n \in Nat /\ NULL \notin Slots
           /\ \A x \in Slots :
                /\ t[x] \in Process /\ Linked(t, x)
                /\ t[x].PID \in Nat
                /\ t[x].parent \in Slots \cup {NULL}
                /\ t[x].firstChild \in Slots \cup {NULL}
                /\ t[x].nextSibling \in Slots \cup {NULL}
                /\ t[x].prevSibling \in Slots \cup {NULL}
                /\ ~t[x].isInitialized => FreeSlot(t[x])
<1>1. t \in [Slots -> Process] /\ n \in Nat
  BY DEF TableOK, Filled
<1>2. NULL \notin Slots
  BY MaxprocAssumption DEF Slots, NULL
<1>3. \A x \in Slots : t[x] \in Process
  BY <1>1
<1>4. \A x \in Slots : Linked(t, x) /\ (~t[x].isInitialized => FreeSlot(t[x]))
  BY DEF TableOK, Filled
<1>5. \A x \in Slots :
        /\ t[x].PID \in Nat
        /\ t[x].parent \in Slots \cup {NULL}
        /\ t[x].firstChild \in Slots \cup {NULL}
        /\ t[x].nextSibling \in Slots \cup {NULL}
        /\ t[x].prevSibling \in Slots \cup {NULL}
  BY <1>3 DEF Process, Link
<1> QED
  BY <1>1, <1>2, <1>3, <1>4, <1>5

\* Nothing points at a free slot.
LEMMA FreeIsFree ==
    ASSUME NEW t, NEW n, TableOK(t, n),
           NEW c \in Slots, ~t[c].isInitialized, NEW x \in Slots
    PROVE  /\ t[x].parent # c /\ t[x].firstChild # c
           /\ t[x].nextSibling # c /\ t[x].prevSibling # c
<1>1. FreeSlot(t[c]) /\ Linked(t, x) /\ x # NULL /\ c # NULL
  BY TableFields
<1> QED
  BY <1>1 DEF Linked, FreeSlot

\* A parent is a process that has children.
LEMMA ParentIsUsed ==
    ASSUME NEW t, NEW n, TableOK(t, n), NEW x \in Slots, t[x].parent # NULL
    PROVE  /\ t[x].isInitialized
           /\ t[x].parent \in Slots /\ t[t[x].parent].isInitialized
           /\ t[t[x].parent].firstChild # NULL
<1>1. t[x].isInitialized
  BY TableFields DEF FreeSlot
<1>2. t[x].parent \in Slots /\ t[t[x].parent].firstChild # NULL
  BY TableFields DEF Linked
<1>3. t[t[x].parent].isInitialized
  BY <1>2, TableFields DEF FreeSlot
<1> QED
  BY <1>1, <1>2, <1>3

\* States and the links of queues and zap lists do not matter to the table.
LEMMA TableStays ==
    ASSUME NEW t, NEW n, TableOK(t, n), NEW u \in [Slots -> Process],
           NEW k \in Nat, n <= k,
           \A x \in Slots : /\ Kin(t[x], u[x])
                            /\ u[x].state = NoName <=> ~t[x].isInitialized
    PROVE  TableOK(u, k)
<1>1. \A x \in Slots :
        /\ u[x].isInitialized = t[x].isInitialized /\ u[x].PID = t[x].PID
        /\ u[x].startFunc = t[x].startFunc
        /\ u[x].parent = t[x].parent /\ u[x].firstChild = t[x].firstChild
        /\ u[x].nextSibling = t[x].nextSibling
        /\ u[x].prevSibling = t[x].prevSibling
  BY DEF Kin
<1>2. Filled(u, k)
  <2>1. ASSUME NEW x \in Slots, ~u[x].isInitialized
        PROVE  FreeSlot(u[x])
    BY <2>1, <1>1, TableFields DEF FreeSlot
  <2>2. ASSUME NEW x \in Slots, u[x].isInitialized
        PROVE  /\ u[x].state # NoName /\ 0 < u[x].PID /\ u[x].PID < k
               /\ getProcess(u[x].PID) = x
    <3>1. t[x].isInitialized /\ u[x].PID = t[x].PID /\ u[x].state # NoName
      BY <2>2, <1>1
    <3>2. 0 < t[x].PID /\ t[x].PID < n /\ getProcess(t[x].PID) = x
      BY <3>1 DEF TableOK, Filled
    <3>3. t[x].PID < k
      BY <3>2, TableFields
    <3> QED
      BY <3>1, <3>2, <3>3
  <2> QED
    BY <2>1, <2>2 DEF Filled
<1>3. ASSUME NEW x \in Slots PROVE Linked(u, x)
  <2>1. Linked(t, x)
    BY TableFields
  <2> QED
    BY <1>1, <2>1, TableFields DEF Linked
<1>4. Ordered(u)
  <2> SUFFICES ASSUME NEW x \in Slots, NEW z \in Slots,
                      x # z, u[x].parent # NULL, u[x].parent = u[z].parent
               PROVE  /\ \/ u[x].PID < u[z].PID
                         \/ /\ u[x].nextSibling # NULL
                            /\ u[z].PID <= u[u[x].nextSibling].PID
                      /\ u[z].PID <= u[u[u[z].parent].firstChild].PID
    BY DEF Ordered
  <2>1. t[x].parent # NULL /\ t[x].parent = t[z].parent
    BY <1>1
  <2>2. /\ \/ t[x].PID < t[z].PID
           \/ /\ t[x].nextSibling # NULL
              /\ t[z].PID <= t[t[x].nextSibling].PID
        /\ t[z].PID <= t[t[t[z].parent].firstChild].PID
    BY <2>1 DEF TableOK, Ordered
  <2>3. /\ t[z].parent \in Slots
        /\ t[t[z].parent].firstChild \in Slots
        /\ t[x].nextSibling \in Slots \cup {NULL}
    BY <2>1, ParentIsUsed, TableFields
  <2>4. u[u[u[z].parent].firstChild].PID = t[t[t[z].parent].firstChild].PID
    BY <1>1, <2>3
  <2>5. t[x].nextSibling # NULL => u[u[x].nextSibling].PID = t[t[x].nextSibling].PID
    BY <1>1, <2>3
  <2> QED
    BY <1>1, <2>2, <2>4, <2>5
<1> QED
  BY <1>2, <1>3, <1>4 DEF TableOK


\* createProcess: a new process, with a PID beyond all others and no links.
LEMMA CreatedInTable ==
    ASSUME NEW t, NEW n, TableOK(t, n), NEW u \in [Slots -> Process],
           NEW c \in Slots, ~t[c].isInitialized,
           u[c].isInitialized, u[c].state # NoName, n <= u[c].PID, 1 <= u[c].PID,
           getProcess(u[c].PID) = c,
           u[c].parent = NULL, u[c].firstChild = NULL,
           u[c].nextSibling = NULL, u[c].prevSibling = NULL,
           \A x \in Slots \ {c} : /\ Kin(t[x], u[x])
                                  /\ u[x].state = t[x].state
    PROVE  TableOK(u, u[c].PID + 1)
<1>1. u[c].PID \in Nat /\ \A x \in Slots : x # c =>
        /\ u[x].isInitialized = t[x].isInitialized /\ u[x].PID = t[x].PID
        /\ u[x].startFunc = t[x].startFunc /\ u[x].state = t[x].state
        /\ u[x].parent = t[x].parent /\ u[x].firstChild = t[x].firstChild
        /\ u[x].nextSibling = t[x].nextSibling
        /\ u[x].prevSibling = t[x].prevSibling
  BY DEF Kin, Process
<1>2. Filled(u, u[c].PID + 1)
  <2>1. ASSUME NEW x \in Slots, ~u[x].isInitialized
        PROVE  FreeSlot(u[x])
    BY <2>1, <1>1, TableFields DEF FreeSlot
  <2>2. ASSUME NEW x \in Slots, u[x].isInitialized
        PROVE  /\ u[x].state # NoName /\ 0 < u[x].PID /\ u[x].PID < u[c].PID + 1
               /\ getProcess(u[x].PID) = x
    <3>1. CASE x = c
      BY <3>1, <1>1
    <3>2. CASE x # c
      <4>1. t[x].isInitialized /\ u[x].PID = t[x].PID /\ u[x].state = t[x].state
        BY <2>2, <3>2, <1>1
      <4>2. 0 < t[x].PID /\ t[x].PID < n /\ getProcess(t[x].PID) = x
            /\ t[x].state # NoName
        BY <4>1 DEF TableOK, Filled
      <4>3. t[x].PID < u[c].PID + 1
        BY <4>2, <1>1, TableFields
      <4> QED
        BY <4>1, <4>2, <4>3
    <3> QED
      BY <3>1, <3>2
  <2> QED
    BY <2>1, <2>2 DEF Filled
<1>3. ASSUME NEW x \in Slots PROVE Linked(u, x)
  <2>1. CASE x = c
    BY <2>1 DEF Linked
  <2>2. CASE x # c
    <3>1. Linked(t, x)
      BY TableFields
    <3>2. /\ t[x].parent # c /\ t[x].firstChild # c
          /\ t[x].nextSibling # c /\ t[x].prevSibling # c
      BY FreeIsFree
    <3> QED
      BY <1>1, <2>2, <3>1, <3>2, TableFields DEF Linked
  <2> QED
    BY <2>1, <2>2
<1>4. Ordered(u)
  <2> SUFFICES ASSUME NEW x \in Slots, NEW z \in Slots,
                      x # z, u[x].parent # NULL, u[x].parent = u[z].parent
               PROVE  /\ \/ u[x].PID < u[z].PID
                         \/ /\ u[x].nextSibling # NULL
                            /\ u[z].PID <= u[u[x].nextSibling].PID
                      /\ u[z].PID <= u[u[u[z].parent].firstChild].PID
    BY DEF Ordered
  <2>1. x # c /\ z # c
    OBVIOUS
  <2>2. t[x].parent # NULL /\ t[x].parent = t[z].parent
    BY <1>1, <2>1
  <2>3. /\ \/ t[x].PID < t[z].PID
           \/ /\ t[x].nextSibling # NULL
              /\ t[z].PID <= t[t[x].nextSibling].PID
        /\ t[z].PID <= t[t[t[z].parent].firstChild].PID
    BY <2>2 DEF TableOK, Ordered
  <2>4. /\ t[z].parent \in Slots \ {c}
        /\ t[x].nextSibling \in (Slots \ {c}) \cup {NULL}
    BY <2>2, FreeIsFree, ParentIsUsed, TableFields
  <2>5. t[t[z].parent].firstChild \in Slots \ {c}
    BY <2>2, <2>4, FreeIsFree, ParentIsUsed, TableFields
  <2>6. u[u[u[z].parent].firstChild].PID = t[t[t[z].parent].firstChild].PID
    BY <1>1, <2>1, <2>4, <2>5
  <2>7. t[x].nextSibling # NULL => u[u[x].nextSibling].PID = t[t[x].nextSibling].PID
    BY <1>1, <2>1, <2>4
  <2> QED
    BY <1>1, <2>1, <2>3, <2>6, <2>7
<1> QED
  BY <1>1, <1>2, <1>3, <1>4 DEF TableOK

\* u is t with c, which had no parent, at the head of the list of q's children.
Adopted(t, q, c, u) ==
    \A x \in Slots :
        /\ u[x].isInitialized = t[x].isInitialized
        /\ u[x].PID = t[x].PID /\ u[x].startFunc = t[x].startFunc
        /\ u[x].parent = IF x = c THEN q ELSE t[x].parent
        /\ u[x].prevSibling = IF x = t[q].firstChild THEN c ELSE t[x].prevSibling
        /\ u[x].nextSibling = IF x = c /\ t[q].firstChild # NULL
                              THEN t[q].firstChild ELSE t[x].nextSibling
        /\ u[x].firstChild = IF x = q THEN c ELSE t[x].firstChild

\* fork1: the youngest process, with no links yet, becomes the head of its
\* parent's list.
LEMMA AdoptedInTable ==
    ASSUME NEW t, NEW n, TableOK(t, n), NEW u \in [Slots -> Process],
           NEW q \in Slots, NEW c \in Slots, q # c,
           t[q].isInitialized, t[c].isInitialized,
           t[c].parent = NULL, t[c].firstChild = NULL, n = t[c].PID + 1,
           Adopted(t, q, c, u),
           \A x \in Slots : u[x].state = NoName <=> t[x].state = NoName
    PROVE  TableOK(u, n)
<1> DEFINE first == t[q].firstChild
<1>1. /\ t \in [Slots -> Process] /\ NULL \notin Slots /\ q # NULL /\ c # NULL
      /\ \A x \in Slots : t[x] \in Process /\ Linked(t, x)
  BY TableFields
<1>2. ASSUME NEW x \in Slots
      PROVE  /\ u[x].isInitialized = t[x].isInitialized
             /\ u[x].PID = t[x].PID
             /\ u[x].parent = IF x = c THEN q ELSE t[x].parent
             /\ u[x].prevSibling = IF x = first THEN c ELSE t[x].prevSibling
             /\ u[x].nextSibling = IF x = c /\ first # NULL
                                   THEN first ELSE t[x].nextSibling
             /\ u[x].firstChild = IF x = q THEN c ELSE t[x].firstChild
  BY DEF Adopted
<1>3. \A x \in Slots : x # c /\ t[x].isInitialized => t[x].PID < t[c].PID
  <2> SUFFICES ASSUME NEW x \in Slots, x # c, t[x].isInitialized
               PROVE  t[x].PID < t[c].PID
    OBVIOUS
  <2>1. t[x].PID < n /\ getProcess(t[x].PID) = x /\ getProcess(t[c].PID) = c
    BY DEF TableOK, Filled
  <2>2. t[x].PID # t[c].PID
    BY <2>1
  <2>3. t[x].PID \in Nat /\ t[c].PID \in Nat
    BY TableFields
  <2> QED
    BY <2>1, <2>2, <2>3
<1>4. /\ first # c
      /\ first # NULL => /\ first \in Slots /\ t[first].parent = q
                         /\ t[first].prevSibling = NULL
      /\ t[c].nextSibling = NULL /\ t[c].prevSibling = NULL
  BY <1>1, TableFields DEF Linked
<1> HIDE DEF first
<1>5. ASSUME NEW x \in Slots PROVE Linked(u, x)
  <2>1. /\ t[x].firstChild \in Slots \cup {NULL}
        /\ t[x].nextSibling \in Slots \cup {NULL}
        /\ t[x].prevSibling \in Slots \cup {NULL}
        /\ t[x].parent \in Slots \cup {NULL}
    BY TableFields
  <2>2. x # NULL
    BY <1>1
  <2>8. t[x].isInitialized /\ x # c => t[x].PID < t[c].PID
    BY <1>3
  <2>9. first # NULL => t[first].PID < t[c].PID
    <3> SUFFICES ASSUME first # NULL PROVE t[first].PID < t[c].PID
      OBVIOUS
    <3>1. first \in Slots /\ first # c /\ t[first].parent # NULL
      BY <1>1, <1>4
    <3>2. t[first].isInitialized
      BY <3>1, ParentIsUsed
    <3> QED
      BY <3>1, <3>2, <1>3
  <2>3. u[x].firstChild # NULL =>
            /\ u[u[x].firstChild].parent = x
            /\ u[u[x].firstChild].prevSibling = NULL
    BY <1>1, <1>2, <1>4, <2>1, <2>2 DEF Linked, first
  <2>4. u[x].nextSibling # NULL =>
            /\ u[u[x].nextSibling].parent = u[x].parent
            /\ u[u[x].nextSibling].prevSibling = x
            /\ u[u[x].nextSibling].PID < u[x].PID
    <3>1. CASE x = c /\ first # NULL
      <4>1. u[x].nextSibling = first /\ u[x].parent = q /\ u[first].parent = q
        BY <3>1, <1>2, <1>4
      <4>2. u[first].prevSibling = x /\ u[first].PID < u[x].PID
        BY <3>1, <1>2, <1>4, <2>9
      <4> QED
        BY <4>1, <4>2
    <3>2. CASE x = c /\ first = NULL
      BY <3>2, <1>2, <1>4
    <3>3. CASE x # c /\ t[x].nextSibling # NULL
      <4> DEFINE y == t[x].nextSibling
      <4>1. /\ y \in Slots /\ t[y].parent = t[x].parent /\ t[y].prevSibling = x
            /\ t[y].PID < t[x].PID
        BY <3>3, <2>1, <1>1 DEF Linked
      <4>2. y # c /\ y # first
        BY <4>1, <2>2, <1>4, <1>1
      <4>3. u[x].nextSibling = y /\ u[x].parent = t[x].parent /\ u[x].PID = t[x].PID
        BY <3>3, <1>2
      <4> HIDE DEF y
      <4>4. /\ u[y].parent = t[y].parent /\ u[y].prevSibling = t[y].prevSibling
            /\ u[y].PID = t[y].PID
        BY <4>1, <4>2, <1>2
      <4> QED
        BY <4>1, <4>3, <4>4
    <3>4. CASE x # c /\ t[x].nextSibling = NULL
      BY <3>4, <1>2
    <3> QED
      BY <3>1, <3>2, <3>3, <3>4
  <2>5. u[x].prevSibling # NULL => u[u[x].prevSibling].nextSibling = x
    BY <1>1, <1>2, <1>4, <2>1, <2>2 DEF Linked
  <2>6. u[x].parent # NULL =>
            /\ u[u[x].parent].firstChild # NULL
            /\ u[x].prevSibling = NULL => u[u[x].parent].firstChild = x
    BY <1>1, <1>2, <1>4, <2>1, <2>2 DEF Linked, first
  <2>7. u[x].parent = NULL => u[x].nextSibling = NULL /\ u[x].prevSibling = NULL
    BY <1>1, <1>2, <1>4, <2>1, <2>2 DEF Linked
  <2> QED
    BY <2>3, <2>4, <2>5, <2>6, <2>7 DEF Linked
<1>6. Ordered(u)
  <2> SUFFICES ASSUME NEW x \in Slots, NEW z \in Slots,
                      x # z, u[x].parent # NULL, u[x].parent = u[z].parent
               PROVE  /\ \/ u[x].PID < u[z].PID
                         \/ /\ u[x].nextSibling # NULL
                            /\ u[z].PID <= u[u[x].nextSibling].PID
                      /\ u[z].PID <= u[u[u[z].parent].firstChild].PID
    BY DEF Ordered
  <2>1. /\ t[x].nextSibling \in Slots \cup {NULL}
        /\ t[z].parent \in Slots \cup {NULL}
        /\ Linked(t, z) /\ Linked(t, x)
        /\ \A y \in Slots : t[y].PID \in Nat /\ t[y].firstChild \in Slots \cup {NULL}
    BY TableFields
  <2>0. ASSUME NEW y \in Slots, t[y].parent # NULL, y # c
        PROVE  t[y].PID < t[c].PID
    BY <2>0, <1>3, ParentIsUsed
  <2>2. CASE x = c
    <3>1. t[z].parent = q /\ first # NULL /\ t[z].PID <= t[first].PID
      <4>1. t[z].parent = q /\ first # NULL
        BY <2>1, <2>2, <1>1, <1>2 DEF Linked, first
      <4>2. CASE z = first
        BY <4>1, <4>2, <2>1
      <4>3. CASE z # first
        BY <4>1, <4>3, <1>1, <1>4 DEF TableOK, Ordered, first
      <4> QED
        BY <4>1, <4>2, <4>3
    <3>2. t[z].PID < t[c].PID
      BY <3>1, <2>2, <2>0, <1>1
    <3>3. u[z].PID <= u[u[x].nextSibling].PID /\ u[x].nextSibling # NULL
      BY <3>1, <2>2, <1>2, <1>4
    <3>4. u[u[z].parent].firstChild = c /\ u[c].PID = t[c].PID /\ u[z].PID = t[z].PID
      BY <3>1, <2>2, <1>2
    <3> QED
      BY <3>2, <3>3, <3>4, <2>1
  <2>3. CASE z = c
    <3>1. t[x].parent = q /\ t[x].PID < t[c].PID
      BY <2>3, <2>0, <1>1, <1>2
    <3>2. u[x].PID = t[x].PID /\ u[z].PID = t[c].PID /\ u[z].parent = q
      BY <2>3, <1>2
    <3>3. u[q].firstChild = c
      BY <1>2
    <3> QED
      BY <3>1, <3>2, <3>3, <2>1, <2>3
  <2>4. CASE x # c /\ z # c
    <3>1. /\ t[x].parent = t[z].parent /\ t[x].parent # NULL
          /\ \/ t[x].PID < t[z].PID
             \/ /\ t[x].nextSibling # NULL
                /\ t[z].PID <= t[t[x].nextSibling].PID
          /\ t[z].PID <= t[t[t[z].parent].firstChild].PID
      BY <2>4, <1>2 DEF TableOK, Ordered
    <3>2. /\ u[x].nextSibling = t[x].nextSibling
          /\ u[x].PID = t[x].PID /\ u[z].PID = t[z].PID
          /\ u[z].parent = t[z].parent
      BY <2>4, <1>2
    <3>3. \/ u[x].PID < u[z].PID
          \/ /\ u[x].nextSibling # NULL
             /\ u[z].PID <= u[u[x].nextSibling].PID
      BY <3>1, <3>2, <2>1, <1>2
    <3>4. u[z].PID <= u[u[u[z].parent].firstChild].PID
      <4>1. CASE t[z].parent = q
        <5>1. t[z].PID < t[c].PID
          BY <3>1, <2>4, <2>0
        <5>2. u[u[z].parent].firstChild = c /\ u[c].PID = t[c].PID
          BY <4>1, <3>2, <1>2
        <5> QED
          BY <5>1, <5>2, <3>2, <2>1
      <4>2. CASE t[z].parent # q
        BY <4>2, <3>1, <3>2, <2>1, <1>2, <1>1 DEF Linked
      <4> QED
        BY <4>1, <4>2
    <3> QED
      BY <3>3, <3>4
  <2> QED
    BY <2>2, <2>3, <2>4
<1>7. Filled(u, n)
  <2>1. ASSUME NEW x \in Slots, ~u[x].isInitialized
        PROVE  FreeSlot(u[x])
    <3>1. FreeSlot(t[x]) /\ x # c /\ x # q
      BY <2>1, <1>2, TableFields
    <3>2. x # first
      BY <3>1, <1>4, <1>1 DEF FreeSlot
    <3>3. u[x].startFunc = t[x].startFunc /\ (t[x].state = NoName => u[x].state = NoName)
      BY DEF Adopted
    <3> QED
      BY <3>1, <3>2, <3>3, <1>2 DEF FreeSlot
  <2>2. ASSUME NEW x \in Slots, u[x].isInitialized
        PROVE  /\ u[x].state # NoName /\ 0 < u[x].PID /\ u[x].PID < n
               /\ getProcess(u[x].PID) = x
    <3>1. t[x].isInitialized /\ u[x].PID = t[x].PID
      BY <2>2, <1>2
    <3>2. /\ t[x].state # NoName /\ 0 < t[x].PID /\ t[x].PID < n
          /\ getProcess(t[x].PID) = x
      BY <3>1 DEF TableOK, Filled
    <3> QED
      BY <3>1, <3>2
  <2> QED
    BY <2>1, <2>2 DEF Filled
<1> QED
  BY <1>5, <1>6, <1>7 DEF TableOK

\* u is t without c, which leaves the list of q's children and a blank slot.
Unlinked(t, q, c, u) ==
    /\ u[c] = Blank
    /\ \A x \in Slots \ {c} :
        /\ u[x].isInitialized = t[x].isInitialized
        /\ u[x].PID = t[x].PID /\ u[x].startFunc = t[x].startFunc
        /\ u[x].state = t[x].state /\ u[x].parent = t[x].parent
        /\ u[x].nextSibling = IF x = t[c].prevSibling
                              THEN t[c].nextSibling ELSE t[x].nextSibling
        /\ u[x].firstChild = IF x = q /\ t[c].prevSibling = NULL
                             THEN t[c].nextSibling ELSE t[x].firstChild
        /\ u[x].prevSibling = IF x = t[c].nextSibling
                              THEN t[c].prevSibling ELSE t[x].prevSibling

\* A blank slot is free.
LEMMA BlankIsFree == FreeSlot(Blank) /\ ~Blank.isInitialized
  BY DEF FreeSlot, Blank, NoName

\* join: a childless process leaves the list of its parent, and its slot is
\* blank.
LEMMA UnlinkedInTable ==
    ASSUME NEW t, NEW n, TableOK(t, n), NEW w \in [Slots -> Process],
           NEW q \in Slots, NEW c \in Slots,
           t[c].parent = q, t[c].firstChild = NULL, t[c].isInitialized,
           Unlinked(t, q, c, w)
    PROVE  TableOK(w, n)
<1> DEFINE younger == t[c].prevSibling
           older == t[c].nextSibling
<1>1. /\ t \in [Slots -> Process] /\ NULL \notin Slots /\ q # NULL /\ c # NULL
      /\ \A x \in Slots : t[x] \in Process /\ Linked(t, x)
  BY TableFields
<1>2. ASSUME NEW x \in Slots, x # c
      PROVE  /\ w[x].isInitialized = t[x].isInitialized
             /\ w[x].PID = t[x].PID /\ w[x].state = t[x].state
             /\ w[x].startFunc = t[x].startFunc
             /\ w[x].parent = t[x].parent
             /\ w[x].nextSibling = IF x = younger THEN older ELSE t[x].nextSibling
             /\ w[x].firstChild = IF x = q /\ younger = NULL
                                  THEN older ELSE t[x].firstChild
             /\ w[x].prevSibling = IF x = older THEN younger ELSE t[x].prevSibling
  BY <1>2 DEF Unlinked
<1>3. FreeSlot(w[c]) /\ ~w[c].isInitialized
  BY BlankIsFree DEF Unlinked
<1>4. /\ w[c].parent = NULL /\ w[c].firstChild = NULL
      /\ w[c].nextSibling = NULL /\ w[c].prevSibling = NULL
  BY <1>3 DEF FreeSlot
<1> HIDE DEF younger, older
\* The neighbours of the child that leaves.
<1>5. /\ older \in Slots \cup {NULL} /\ older # c
      /\ older # NULL => /\ t[older].parent = q /\ t[older].prevSibling = c
                         /\ t[older].PID < t[c].PID
  BY <1>1, TableFields DEF Linked, older
<1>6. /\ younger \in Slots \cup {NULL} /\ younger # c
      /\ younger # NULL => /\ t[younger].nextSibling = c
                           /\ t[younger].parent = q
                           /\ t[c].PID < t[younger].PID
  <2>1. younger \in Slots \cup {NULL}
    BY TableFields DEF younger
  <2>2. ASSUME younger # NULL
        PROVE  /\ t[younger].nextSibling = c
               /\ t[younger].parent = q
               /\ t[c].PID < t[younger].PID
    <3>1. younger \in Slots /\ t[younger].nextSibling = c
      BY <2>1, <2>2, <1>1 DEF Linked, younger
    <3> QED
      BY <3>1, <1>1 DEF Linked
  <2>3. younger # c
    <3> SUFFICES ASSUME younger = c PROVE FALSE
      OBVIOUS
    <3>1. t[c].PID < t[c].PID
      BY <2>2, <1>1
    <3> QED
      BY <3>1, TableFields
  <2> QED
    BY <2>1, <2>2, <2>3
<1>7. /\ q # c /\ t[q].firstChild # NULL
      /\ younger = NULL => t[q].firstChild = c
  BY <1>1 DEF Linked, younger
\* Another child of the same parent, if it is not younger, is not beyond the next.
<1>8. ASSUME NEW z \in Slots, z # c, t[z].parent = q, t[z].PID <= t[c].PID
      PROVE  /\ older # NULL /\ t[z].PID <= t[older].PID
  <2>4. t[z].isInitialized
    BY <1>1, <1>8, ParentIsUsed
  <2>5. getProcess(t[z].PID) = z /\ getProcess(t[c].PID) = c
    BY <2>4 DEF TableOK, Filled
  <2>1. t[z].PID # t[c].PID
    BY <1>8, <2>5
  <2>3. t[z].PID \in Nat /\ t[c].PID \in Nat
    BY TableFields
  <2>2. t[z].PID < t[c].PID
    BY <1>8, <2>1, <2>3
  <2>6. \/ t[c].PID < t[z].PID
        \/ older # NULL /\ t[z].PID <= t[older].PID
    BY <1>1, <1>8 DEF TableOK, Ordered, older
  <2> QED
    BY <2>2, <2>3, <2>6
<1>9. ASSUME NEW x \in Slots, x # c
      PROVE  /\ t[x].firstChild \in Slots \cup {NULL}
             /\ t[x].nextSibling \in Slots \cup {NULL}
             /\ t[x].prevSibling \in Slots \cup {NULL}
             /\ t[x].parent \in (Slots \cup {NULL}) \ {c}
             /\ t[x].PID \in Nat
             /\ t[x].nextSibling = c => x = younger
             /\ t[x].prevSibling = c => x = older
             /\ t[x].firstChild = c => x = q /\ younger = NULL
  BY <1>1, <1>9, TableFields DEF Linked, younger, older
<1>10. ASSUME NEW x \in Slots PROVE Linked(w, x)
  <2>1. CASE x = c
    BY <2>1, <1>4 DEF Linked
  <2>2. CASE x # c
    <3>1. w[x].firstChild # NULL =>
              /\ w[w[x].firstChild].parent = x
              /\ w[w[x].firstChild].prevSibling = NULL
      BY <2>2, <1>1, <1>2, <1>5, <1>6, <1>7, <1>9 DEF Linked
    <3>2. w[x].nextSibling # NULL =>
              /\ w[w[x].nextSibling].parent = w[x].parent
              /\ w[w[x].nextSibling].prevSibling = x
              /\ w[w[x].nextSibling].PID < w[x].PID
      <4>1. CASE x = younger
        <5>1. w[x].nextSibling = older /\ w[x].PID = t[x].PID /\ w[x].parent = q
          BY <2>2, <4>1, <1>1, <1>2, <1>6
        <5>2. CASE older # NULL
          <6>1. /\ w[older].parent = q /\ w[older].prevSibling = younger
                /\ w[older].PID = t[older].PID /\ t[older].PID \in Nat
            BY <5>2, <1>2, <1>5, <1>9
          <6>2. t[older].PID < t[x].PID
            BY <5>2, <6>1, <4>1, <1>1, <1>5, <1>6, <2>2, TableFields
          <6> QED
            BY <5>1, <6>1, <6>2, <4>1
        <5> QED
          BY <5>1, <5>2
      <4>2. CASE x # younger
        BY <4>2, <2>2, <1>1, <1>2, <1>5, <1>6, <1>9 DEF Linked
      <4> QED
        BY <4>1, <4>2
    <3>3. w[x].prevSibling # NULL => w[w[x].prevSibling].nextSibling = x
      BY <2>2, <1>1, <1>2, <1>5, <1>6, <1>9 DEF Linked
    <3>4. w[x].parent # NULL =>
              /\ w[w[x].parent].firstChild # NULL
              /\ w[x].prevSibling = NULL => w[w[x].parent].firstChild = x
      <4>1. CASE t[x].parent = q /\ younger = NULL
        <5>1. t[q].firstChild = c
          BY <4>1, <1>7
        <5>2. t[x].PID <= t[c].PID
          BY <4>1, <5>1, <2>2, <1>1 DEF TableOK, Ordered
        <5>3. older # NULL
          BY <4>1, <5>2, <2>2, <1>8
        <5>4. w[x].parent = q /\ w[q].firstChild = older
          BY <4>1, <2>2, <1>2, <1>7
        <5>5. w[x].prevSibling = NULL => x = older
          BY <4>1, <5>1, <2>2, <1>1, <1>2 DEF Linked
        <5> QED
          BY <5>3, <5>4, <5>5
      <4>2. CASE ~(t[x].parent = q /\ younger = NULL)
        <5>1. w[x].parent = t[x].parent
          BY <2>2, <1>2
        <5>2. CASE t[x].parent # NULL
          <6>1. /\ t[x].parent \in Slots /\ t[x].parent # c
                /\ t[t[x].parent].firstChild # NULL
            BY <5>2, <2>2, <1>1, <1>9 DEF Linked
          <6>2. w[t[x].parent].firstChild = t[t[x].parent].firstChild
            BY <6>1, <4>2, <1>2
          <6>3. w[x].prevSibling = NULL => t[x].prevSibling = NULL
            BY <2>2, <4>2, <1>1, <1>2, <1>5
          <6> QED
            BY <5>1, <5>2, <6>1, <6>2, <6>3, <1>1 DEF Linked
        <5> QED
          BY <5>1, <5>2
      <4> QED
        BY <4>1, <4>2
    <3>5. w[x].parent = NULL => w[x].nextSibling = NULL /\ w[x].prevSibling = NULL
      BY <2>2, <1>1, <1>2, <1>5, <1>6 DEF Linked
    <3> QED
      BY <3>1, <3>2, <3>3, <3>4, <3>5 DEF Linked
  <2> QED
    BY <2>1, <2>2
<1>11. Ordered(w)
  <2> SUFFICES ASSUME NEW x \in Slots, NEW z \in Slots,
                      x # z, w[x].parent # NULL, w[x].parent = w[z].parent
               PROVE  /\ \/ w[x].PID < w[z].PID
                         \/ /\ w[x].nextSibling # NULL
                            /\ w[z].PID <= w[w[x].nextSibling].PID
                      /\ w[z].PID <= w[w[w[z].parent].firstChild].PID
    BY DEF Ordered
  <2>1. x # c /\ z # c
    BY <1>4
  <2>2. /\ w[x].parent = t[x].parent /\ w[z].parent = t[z].parent
        /\ w[x].PID = t[x].PID /\ w[z].PID = t[z].PID
    BY <2>1, <1>2
  <2>3. /\ \/ t[x].PID < t[z].PID
           \/ /\ t[x].nextSibling # NULL
              /\ t[z].PID <= t[t[x].nextSibling].PID
        /\ t[z].PID <= t[t[t[z].parent].firstChild].PID
    BY <2>1, <2>2 DEF TableOK, Ordered
  <2>4. \/ w[x].PID < w[z].PID
        \/ /\ w[x].nextSibling # NULL
           /\ w[z].PID <= w[w[x].nextSibling].PID
    <3>1. CASE x = younger
      <4>1. CASE t[x].PID < t[z].PID
        BY <4>1, <2>2
      <4>2. CASE ~(t[x].PID < t[z].PID)
        <5>1. t[z].PID <= t[c].PID /\ t[z].parent = q
          BY <4>2, <3>1, <2>1, <2>2, <2>3, <1>1, <1>6
        <5>2. older # NULL /\ t[z].PID <= t[older].PID
          BY <5>1, <2>1, <1>8
        <5> QED
          BY <5>2, <3>1, <2>1, <2>2, <1>2, <1>5
      <4> QED
        BY <4>1, <4>2
    <3>2. CASE x # younger
      BY <3>2, <2>1, <2>2, <2>3, <1>2, <1>9
    <3> QED
      BY <3>1, <3>2
  <2>5. w[z].PID <= w[w[w[z].parent].firstChild].PID
    <3>1. t[z].parent \in Slots /\ t[z].parent # c
      BY <2>1, <2>2, <1>9
    <3>2. CASE t[z].parent = q /\ younger = NULL
      <4>1. older # NULL /\ t[z].PID <= t[older].PID
        BY <3>2, <2>1, <2>3, <1>7, <1>8
      <4>2. w[q].firstChild = older
        BY <3>2, <1>2, <1>7
      <4>3. w[older].PID = t[older].PID
        BY <4>1, <1>2, <1>5
      <4>4. w[w[z].parent].firstChild = older
        BY <3>2, <4>2, <2>2
      <4> QED
        BY <4>1, <4>3, <4>4, <2>2
    <3>3. CASE ~(t[z].parent = q /\ younger = NULL)
      <4>1. w[t[z].parent].firstChild = t[t[z].parent].firstChild
        BY <3>1, <3>3, <1>2
      <4>2. /\ t[t[z].parent].firstChild \in Slots
            /\ t[t[z].parent].firstChild # c
        BY <3>1, <3>3, <2>1, <1>1, <1>9 DEF Linked
      <4>3. w[t[t[z].parent].firstChild].PID = t[t[t[z].parent].firstChild].PID
        BY <4>2, <1>2
      <4>4. w[w[w[z].parent].firstChild].PID = t[t[t[z].parent].firstChild].PID
        BY <4>1, <4>3, <2>2
      <4> QED
        BY <4>4, <2>2, <2>3
    <3> QED
      BY <3>2, <3>3
  <2> QED
    BY <2>4, <2>5
<1>12. Filled(w, n)
  <2>1. ASSUME NEW x \in Slots, ~w[x].isInitialized
        PROVE  FreeSlot(w[x])
    <3>1. CASE x # c
      <4>1. FreeSlot(t[x]) /\ ~t[x].isInitialized
        BY <3>1, <2>1, <1>2, TableFields
      <4>2. x # older /\ x # younger /\ x # q
        BY <4>1, <1>7, FreeIsFree DEF older, younger
      <4> QED
        BY <4>1, <4>2, <3>1, <1>2 DEF FreeSlot
    <3> QED
      BY <3>1, <1>3
  <2>2. ASSUME NEW x \in Slots, w[x].isInitialized
        PROVE  /\ w[x].state # NoName /\ 0 < w[x].PID /\ w[x].PID < n
               /\ getProcess(w[x].PID) = x
    <3>1. x # c
      BY <2>2, <1>3
    <3>2. t[x].isInitialized /\ w[x].state = t[x].state /\ w[x].PID = t[x].PID
      BY <3>1, <2>2, <1>2
    <3> QED
      BY <3>2 DEF TableOK, Filled
  <2> QED
    BY <2>1, <2>2 DEF Filled
<1> QED
  BY <1>10, <1>11, <1>12, TableFields DEF TableOK

\* The list of the children of p: a walk along it that stops in Stop ends at a
\* child in Stop, if there is one, or at NULL.
LEMMA ChildWalk ==
    ASSUME NEW t, NEW n, TableOK(t, n), NEW p \in Slots, NEW Stop
    PROVE  LET found == Walk([x \in Slots |-> t[x].nextSibling],
                             t[p].firstChild, Stop)
           IN  /\ found # NULL => /\ found \in Slots /\ found \in Stop
                                  /\ t[found].parent = p
               /\ found = NULL => \A x \in Slots : t[x].parent = p => x \notin Stop
<1> DEFINE C == {x \in Slots : t[x].parent = p}
           next == [x \in Slots |-> t[x].nextSibling]
           rank == [x \in Slots |-> t[x].PID]
           h == t[p].firstChild
           found == Walk(next, h, Stop)
<1>1. /\ \A x \in Slots : next[x] = t[x].nextSibling /\ rank[x] = t[x].PID
      /\ p # NULL /\ NULL \notin Slots
  BY TableFields
<1>2. next \in [Slots -> Link] /\ rank \in [Slots -> Nat]
  <2>1. \A x \in Slots : t[x].nextSibling \in Link /\ t[x].PID \in Nat
    BY TableFields DEF Link
  <2> QED
    BY <2>1
<1>3. \A x : x \in C <=> x \in Slots /\ t[x].parent = p
  OBVIOUS
<1> HIDE DEF C, next, rank
<1>4. h \in C \cup {NULL}
  BY <1>1, <1>3, TableFields DEF Linked
<1>5. ASSUME NEW x \in C, next[x] # NULL
      PROVE  next[x] \in C /\ rank[next[x]] < rank[x]
  BY <1>1, <1>3, <1>5, TableFields DEF Linked
<1>6. ASSUME NEW z \in C
      PROVE  h # NULL /\ rank[z] <= rank[h]
  <2>1. z \in Slots /\ t[z].parent = p /\ h # NULL
    BY <1>1, <1>3, ParentIsUsed
  <2>2. h \in Slots /\ t[h].parent = p
    BY <2>1, <1>3, <1>4
  <2>3. CASE z = h
    BY <2>2, <2>3, <1>1, TableFields
  <2>4. CASE z # h
    <3>1. t[z].PID <= t[t[t[z].parent].firstChild].PID
      BY <2>1, <2>2, <2>4, <1>1 DEF TableOK, Ordered
    <3> QED
      BY <3>1, <2>1, <2>2, <1>1
  <2> QED
    BY <2>3, <2>4
<1>7. ASSUME NEW x \in C, NEW z \in C, x # z
      PROVE  \/ rank[x] < rank[z]
             \/ next[x] # NULL /\ rank[z] <= rank[next[x]]
  <2>1. /\ x \in Slots /\ z \in Slots /\ t[x].parent # NULL
        /\ t[x].parent = t[z].parent
    BY <1>1, <1>3
  <2>2. \/ t[x].PID < t[z].PID
        \/ /\ t[x].nextSibling # NULL
           /\ t[z].PID <= t[t[x].nextSibling].PID
    BY <2>1, <1>7 DEF TableOK, Ordered
  <2>3. t[x].nextSibling \in Slots \cup {NULL}
    BY <2>1, TableFields
  <2> QED
    BY <2>1, <2>2, <2>3, <1>1
<1>8. C \subseteq Slots
  BY <1>3
<1>9. Ranked(C, next, rank, h)
  BY <1>2, <1>4, <1>5, <1>6, <1>7, <1>8 DEF Ranked
<1>10. /\ found \in (C \cap Stop) \cup {NULL}
       /\ C \cap Stop # {} => found # NULL
  BY <1>9, WalkFinds
<1> HIDE DEF found
<1>11. found # NULL => found \in Slots /\ found \in Stop /\ t[found].parent = p
  BY <1>3, <1>10
<1>12. found = NULL => \A x \in Slots : t[x].parent = p => x \notin Stop
  BY <1>3, <1>10
<1> QED
  BY <1>11, <1>12 DEF found, next, h

-----------------------------------------------------------------------------
(***************************************************************************)
(* The inductive invariant, once the kernel runs.                          *)
(***************************************************************************)
Forking == {"fork_pid", "fork_parent", "fork_link"}
NewChild == getProcess(pidCounter - 1)

\* The table without the one link that goes before the others: the parent of a
\* child that is not in a list yet.
Listed ==
    IF ctx[Current].pc = "fork_link"
    THEN [processTable EXCEPT ![NewChild].parent = NULL] ELSE processTable

\* quit is refused while there are children.
ParentsLive ==
    \A x \in Slots : processTable[x].parent # NULL =>
        processTable[processTable[x].parent].state # "Terminated"

InitStays ==
    /\ processTable[Init1].isInitialized /\ processTable[Init1].PID = 1
    /\ processTable[Init1].parent = NULL
    /\ processTable[Init1].startFunc = "init_main"
    /\ processTable[Init1].state # "Terminated"
    /\ \A x \in Slots \ {Init1} : processTable[x].startFunc # "init_main"

Returning == Forking \cup {"block_state", "block_remove", "unblock_state",
                           "unblock_add", "dispatch"}
InitPCs == Forking \cup {"init_sentinel", "init_testcase", "init_loop", "join",
                         "block_state", "block_remove", "dispatch", "dead"}
LivePCs == Returning \cup {"sentinel", "user", "null_func", "join"}
DyingPCs == {"quit_remove", "quit_wake", "wake_state", "wake_add",
             "unblock_state", "unblock_add", "dispatch", "dead"}
Resting == {"init_testcase", "join", "user", "null_func", "sentinel", "dead"}

\* Where process x, with context k, can be: init never quits, and the others are
\* Terminated exactly while they are in quit or have returned from it.
PlaceOK(x, k, dead) ==
    IF x = Init1
    THEN /\ k.pc \in InitPCs
         /\ k.pc \in Returning => k.ret \in {"init_testcase", "join"}
    ELSE IF dead
    THEN /\ k.pc \in DyingPCs
         /\ k.pc \in Returning => k.ret = "dead"
    ELSE /\ k.pc \in LivePCs
         /\ k.pc \in Returning => k.ret \in {"user", "join"}

Places ==
    \A x \in Used :
        /\ PlaceOK(x, ctx[x], processTable[x].state = "Terminated")
        /\ x # Current => ctx[x].pc \in Resting
        /\ processTable[x].startFunc = "NULL" => ctx[x].pc = "null_func"

Runner ==
    /\ Current \in Slots
    /\ processTable[Current].isInitialized
    /\ processTable[Current].PID = runningProcessID

\* Until fork1 has linked it, the child is the youngest process.
ForkInv ==
    LET c == NewChild
    IN  ctx[Current].pc \in Forking =>
        /\ c \in Slots /\ c # Current /\ c # Init1
        /\ processTable[c].isInitialized /\ processTable[c].PID = pidCounter - 1
        /\ processTable[c].state = "Runnable" /\ processTable[c].firstChild = NULL
        /\ processTable[c].parent = IF ctx[Current].pc = "fork_link"
                                    THEN Current ELSE NULL
        /\ ctx[Current].pc # "fork_pid" => ctx[Current].arg = c

\* What the running process x, with context k, knows in table t from the steps
\* of its kernel call that lie behind it.
CallOK(t, x, k) ==
    /\ k.pc = "block_state" =>
        /\ k.block # NoName
        /\ k.block = JoinBlocked =>
            \A y \in Slots : t[y].parent = x => t[y].state # "Terminated"
    /\ k.pc \in {"unblock_state", "wake_state"} =>
            t[k.arg].state # NoName /\ t[k.arg].state # "Terminated"
    /\ (t[x].state = "Terminated" /\ k.pc # "quit_remove") => t[x].parent # NULL
    /\ k.pc \in {"quit_wake", "wake_state", "wake_add"} => k.parent = t[x].parent
    /\ (t[x].state = "Terminated" /\ k.pc = "unblock_state") =>
            k.arg = t[x].parent
    /\ (t[x].state = "Terminated"
            /\ k.pc \in {"unblock_add", "dispatch", "dead"}) =>
            t[t[x].parent].state # JoinBlocked

\* Only fork1 leaves a process without a parent: for a moment, or for ever when
\* it refuses the arguments.
Orphans ==
    \A x \in Used : (x # Init1 /\ processTable[x].parent = NULL) =>
        \/ ctx[Current].pc \in Forking /\ x = NewChild
        \/ ~ValidArgs(processTable[x])

Waiting ==
    \A x \in Slots :
        (/\ processTable[x].parent # NULL /\ processTable[x].state = "Terminated"
         /\ processTable[processTable[x].parent].state = JoinBlocked) => x = Current

\* Before testcase_main is made there are init and the sentinel.
Booting(k) == k.pc = "init_testcase" \/ (k.pc \in Returning /\ k.ret = "init_testcase")

BootPhase ==
    /\ ctx[Init1].pc = "init_sentinel" => pidCounter = 2 /\ Used = {Init1}
    /\ Booting(ctx[Init1]) =>
        /\ pidCounter = 3
        /\ \A x \in Used : x = Init1 \/ (x = getProcess(2) /\ ctx[x].pc = "sentinel")
    /\ pidCounter <= MaxPid + MAXPROC

RunInv ==
    /\ TableOK(Listed, pidCounter)
    /\ ParentsLive /\ InitStays /\ Places /\ Runner /\ ForkInv
    /\ CallOK(processTable, Current, ctx[Current])
    /\ Orphans /\ Waiting /\ BootPhase

TreeInv == IF runningProcessID = -1 THEN Init ELSE RunInv

-----------------------------------------------------------------------------
(***************************************************************************)
(* What a step does to the tree.                                           *)
(***************************************************************************)
\* Nobody is born, adopted, dies or is collected.
Calm ==
    \A x \in Slots :
        /\ processTable'[x].isInitialized = processTable[x].isInitialized
        /\ processTable'[x].PID = processTable[x].PID
        /\ processTable'[x].parent = processTable[x].parent
        /\ processTable'[x].state = "Terminated"
                <=> processTable[x].state = "Terminated"

\* The same, in all slots but c.
CalmBut(c) ==
    \A x \in Slots \ {c} :
        /\ processTable'[x].isInitialized = processTable[x].isInitialized
        /\ processTable'[x].PID = processTable[x].PID
        /\ processTable'[x].parent = processTable[x].parent
        /\ processTable'[x].state = "Terminated"
                <=> processTable[x].state = "Terminated"

Born(c) ==
    /\ CalmBut(c) /\ c # Init1 /\ ~processTable[c].isInitialized
    /\ processTable'[c].parent = NULL

Joins(c) ==
    /\ CalmBut(c) /\ c # Init1 /\ c # Current
    /\ processTable[c].isInitialized /\ processTable[c].parent = NULL
    /\ processTable'[c].isInitialized /\ processTable'[c].parent = Current
    /\ processTable'[c].PID = processTable[c].PID
    /\ processTable[c].state # "Terminated" /\ processTable'[c].state # "Terminated"
    /\ processTable[c].PID <= MaxPid + MAXPROC
    /\ processTable[Current].state # "Terminated"
    /\ ctx[Current].pc # "null_func"

Quits ==
    /\ CalmBut(Current) /\ Current # Init1
    /\ \A x \in Slots : processTable[x].parent # Current
    /\ processTable[Current].state # "Terminated"
    /\ processTable'[Current].isInitialized
    /\ processTable'[Current].PID = processTable[Current].PID
    /\ processTable'[Current].parent = processTable[Current].parent
    /\ processTable'[Current].state = "Terminated"
    /\ ctx[Current].pc # "null_func"

Collects(c) ==
    /\ CalmBut(c) /\ c # Init1
    /\ processTable[c].isInitialized
    /\ processTable[c].parent = Current /\ processTable[c].state = "Terminated"
    /\ \A x \in Slots : processTable[x].parent # c
    /\ processTable'[c] = Blank

Change ==
    \/ Calm \/ Quits
    \/ \E c \in Slots : Born(c) \/ Joins(c) \/ Collects(c)

-----------------------------------------------------------------------------
(***************************************************************************)
(* Steps that leave the lists of children alone.                           *)
(***************************************************************************)
\* The states that a process can have are names.
LEMMA NamesDiffer ==
    /\ NoName # "Runnable" /\ NoName # "Running" /\ NoName # "Blocked"
    /\ NoName # "Terminated" /\ NoName # ZapBlocked /\ NoName # JoinBlocked
  BY DEF NoName, ZapBlocked, JoinBlocked

\* Outside fork1's last step all links are in the lists.
LEMMA ListedIs ==
    /\ ctx[Current].pc # "fork_link" => Listed = processTable
    /\ ctx'[Current'].pc # "fork_link" => Listed' = processTable'
  BY DEF Listed

\* Slot d gets the state s.
SameButState(d, s) ==
    \A x \in Slots :
        /\ Kin(processTable[x], processTable'[x])
        /\ processTable'[x].state = IF x = d THEN s ELSE processTable[x].state

OthersRest == \A x \in Slots \ {Current} : ctx'[x] = ctx[x]

\* The current process goes on to another place in the kernel, and at most one
\* process gets another state.
LEMMA CallStep ==
    ASSUME CoreInv, CoreInv', RunInv, runningProcessID # -1,
           UNCHANGED runningProcessID,
           pidCounter <= pidCounter', pidCounter' <= MaxPid + MAXPROC,
           NEW d \in Slots, NEW s, SameButState(d, s), OthersRest,
           processTable[d].isInitialized, s # NoName,
           \/ s = "Terminated" <=> processTable[d].state = "Terminated"
           \/ /\ d = Current /\ s = "Terminated" /\ d # Init1
              /\ processTable[d].firstChild = NULL,
           s = JoinBlocked =>
              \/ processTable[d].state = JoinBlocked
              \/ \A x \in Slots : processTable[x].parent = d =>
                     processTable[x].state # "Terminated",
           ctx[Current].pc \notin Forking \cup {"null_func", "sentinel"},
           ctx'[Current].pc \notin Forking,
           PlaceOK(Current, ctx'[Current], processTable'[Current].state = "Terminated"),
           CallOK(processTable', Current, ctx'[Current]),
           Current = Init1 =>
              /\ ctx'[Current].pc # "init_sentinel"
              /\ Booting(ctx'[Current]) =>
                    Booting(ctx[Current]) /\ pidCounter' = pidCounter
    PROVE  RunInv' /\ Change
<1>1. Current' = Current
  BY DEF Current, getProcess
<1>2. /\ Listed = processTable /\ Listed' = processTable'
      /\ ctx[Current].pc # "null_func" /\ ctx[Current].pc # "sentinel"
  BY <1>1, ListedIs DEF Forking
<1>3. /\ TableOK(processTable, pidCounter)
      /\ processTable' \in [Slots -> Process] /\ pidCounter' \in Nat
  BY <1>2 DEF RunInv, CoreInv, TypeOK
<1>4. \A x \in Slots :
        /\ processTable'[x].isInitialized = processTable[x].isInitialized
        /\ processTable'[x].PID = processTable[x].PID
        /\ processTable'[x].priority = processTable[x].priority
        /\ processTable'[x].startFunc = processTable[x].startFunc
        /\ processTable'[x].parent = processTable[x].parent
        /\ processTable'[x].firstChild = processTable[x].firstChild
        /\ processTable'[x].state = IF x = d THEN s ELSE processTable[x].state
  BY DEF SameButState, Kin
<1>5. Current \in Slots /\ Init1 \in Slots /\ NULL \notin Slots
  BY <1>3, SlotOfPid, TableFields DEF RunInv, Runner, Init1
<1>6. TableOK(Listed', pidCounter')
  <2>1. ASSUME NEW x \in Slots
        PROVE  /\ Kin(processTable[x], processTable'[x])
               /\ processTable'[x].state = NoName <=> ~processTable[x].isInitialized
    <3>1. processTable[x].state = NoName <=> ~processTable[x].isInitialized
      BY <1>3 DEF TableOK, Filled, FreeSlot
    <3>2. Kin(processTable[x], processTable'[x])
      BY DEF SameButState
    <3> QED
      BY <3>1, <3>2, <1>4
  <2>2. TableOK(processTable', pidCounter')
    BY <1>3, <2>1, TableStays
  <2> QED
    BY <1>2, <2>2
<1>7. ParentsLive'
  <2> SUFFICES ASSUME NEW x \in Slots, processTable'[x].parent # NULL
               PROVE  processTable'[processTable'[x].parent].state # "Terminated"
    BY DEF ParentsLive
  <2> DEFINE p == processTable[x].parent
  <2>1. processTable'[x].parent = p /\ p # NULL
    BY <1>4
  <2>2. p \in Slots /\ processTable[p].firstChild # NULL
        /\ processTable[p].state # "Terminated"
    BY <1>3, <2>1, ParentIsUsed DEF RunInv, ParentsLive
  <2> HIDE DEF p
  <2>3. processTable'[p].state # "Terminated"
    BY <1>4, <2>2
  <2> QED
    BY <2>1, <2>3
<1>8. InitStays'
  BY <1>4, <1>5 DEF RunInv, InitStays, Init1, getProcess
<1>9. Places'
  <2> SUFFICES ASSUME NEW x \in Slots, processTable'[x].isInitialized
               PROVE  /\ PlaceOK(x, ctx'[x], processTable'[x].state = "Terminated")
                      /\ x # Current => ctx'[x].pc \in Resting
                      /\ processTable'[x].startFunc = "NULL" =>
                            ctx'[x].pc = "null_func"
    BY <1>1 DEF Places, Used, PlaceOK, Init1, getProcess
  <2>1. /\ PlaceOK(x, ctx[x], processTable[x].state = "Terminated")
        /\ x # Current => ctx[x].pc \in Resting
        /\ processTable[x].startFunc = "NULL" => ctx[x].pc = "null_func"
    BY <1>4 DEF RunInv, Places, Used
  <2>2. CASE x = Current
    BY <2>1, <2>2, <1>2, <1>4
  <2>3. CASE x # Current
    <3>1. ctx'[x] = ctx[x]
      BY <2>3 DEF OthersRest
    <3>2. processTable'[x].state = "Terminated" <=> processTable[x].state = "Terminated"
      BY <2>3, <1>4
    <3>3. PlaceOK(x, ctx'[x], processTable'[x].state = "Terminated")
      BY <2>1, <3>1, <3>2 DEF PlaceOK
    <3> QED
      BY <2>1, <2>3, <3>1, <3>3, <1>4
  <2> QED
    BY <2>2, <2>3
<1>10. Runner'
  BY <1>1, <1>4, <1>5 DEF RunInv, Runner
<1>11. ForkInv'
  BY <1>1 DEF ForkInv
<1>12. CallOK(processTable', Current', ctx'[Current'])
  BY <1>1
<1>13. Orphans'
  <2> SUFFICES ASSUME NEW x \in Slots, processTable'[x].isInitialized, x # Init1,
                      processTable'[x].parent = NULL
               PROVE  ~ValidArgs(processTable'[x])
    BY DEF Orphans, Used, Init1, getProcess
  <2>1. ~ValidArgs(processTable[x])
    BY <1>4 DEF RunInv, Orphans, Used
  <2> QED
    BY <2>1, <1>4 DEF ValidArgs
<1>14. Waiting'
  <2> SUFFICES ASSUME NEW x \in Slots, processTable'[x].parent # NULL,
                      processTable'[x].state = "Terminated",
                      processTable'[processTable'[x].parent].state = JoinBlocked,
                      x # Current
               PROVE  FALSE
    BY <1>1 DEF Waiting
  <2> DEFINE p == processTable[x].parent
  <2>1. processTable'[x].parent = p /\ p # NULL
        /\ processTable[x].state = "Terminated"
    BY <1>4
  <2>2. p \in Slots
    BY <1>3, <2>1, ParentIsUsed
  <2> HIDE DEF p
  <2>3. processTable'[p].state = JoinBlocked
    BY <2>1
  <2>4. processTable[p].state = JoinBlocked
    <3>1. CASE p # d
      BY <2>2, <2>3, <3>1, <1>4
    <3>2. CASE p = d
      BY <2>1, <2>2, <2>3, <3>2, <1>4 DEF p
    <3> QED
      BY <3>1, <3>2
  <2> QED
    BY <2>1, <2>4 DEF RunInv, Waiting, p
<1>15. BootPhase'
  <2>1. Init1' = Init1
    BY DEF Init1, getProcess
  <2>2. \A x \in Slots : x \in Used' <=> x \in Used
    BY <1>4 DEF Used
  <2>3. Current \in Used
    BY <1>5 DEF RunInv, Runner, Used
  <2>4. CASE Current = Init1
    <3>1. ctx'[Init1'].pc # "init_sentinel"
      BY <2>1, <2>4
    <3>2. ASSUME Booting(ctx'[Init1'])
          PROVE  /\ pidCounter' = 3
                 /\ \A x \in Used' : x = Init1'
                       \/ (x = getProcess(2) /\ ctx'[x].pc = "sentinel")
      <4>1. Booting(ctx[Init1]) /\ pidCounter' = pidCounter
        BY <2>1, <2>4, <3>2
      <4>2. /\ pidCounter = 3
            /\ \A x \in Used : x = Init1
                  \/ (x = getProcess(2) /\ ctx[x].pc = "sentinel")
        BY <4>1 DEF RunInv, BootPhase
      <4>3. \A x \in Used' : x \in Slots /\ x \in Used
        BY <2>2 DEF Used
      <4>4. \A x \in Slots : x # Init1 => ctx'[x] = ctx[x]
        BY <2>4 DEF OthersRest
      <4> QED
        BY <2>1, <4>1, <4>2, <4>3, <4>4
    <3> QED
      BY <3>1, <3>2 DEF BootPhase, getProcess
  <2>5. CASE Current # Init1
    <3>1. ctx'[Init1] = ctx[Init1]
      BY <1>5, <2>5 DEF OthersRest
    <3>2. ctx[Init1].pc # "init_sentinel" /\ ~Booting(ctx[Init1])
      BY <2>3, <2>5, <1>2 DEF RunInv, BootPhase
    <3> QED
      BY <2>1, <3>1, <3>2 DEF BootPhase, Booting
  <2> QED
    BY <2>4, <2>5
<1>16. RunInv'
  BY <1>6, <1>7, <1>8, <1>9, <1>10, <1>11, <1>12, <1>13, <1>14, <1>15 DEF RunInv
<1>17. Change
  <2>1. CASE s = "Terminated" <=> processTable[d].state = "Terminated"
    BY <2>1, <1>4 DEF Change, Calm
  <2>2. CASE /\ d = Current /\ s = "Terminated" /\ d # Init1
             /\ processTable[d].firstChild = NULL
             /\ processTable[d].state # "Terminated"
    <3>1. CalmBut(Current)
      BY <2>2, <1>4 DEF CalmBut
    <3>2. \A x \in Slots : processTable[x].parent # Current
      <4>1. TableOK(processTable, pidCounter) /\ Current # NULL
        BY <1>2, <2>2, TableFields DEF RunInv
      <4> QED
        BY <2>2, <4>1, ParentIsUsed
    <3> QED
      BY <2>2, <3>1, <3>2, <1>2, <1>4, <1>5 DEF Change, Quits
  <2> QED
    BY <2>1, <2>2
<1> QED
  BY <1>16, <1>17

\* A step that leaves the table, the PIDs and the contexts as they are.
LEMMA QuietKeeps ==
    ASSUME RunInv, UNCHANGED <<processTable, runningProcessID, pidCounter, ctx>>
    PROVE  RunInv' /\ Change
<1>1. /\ Current' = Current /\ NewChild' = NewChild /\ Init1' = Init1
  BY DEF Current, NewChild, Init1, getProcess
<1>2. Listed' = Listed /\ Used' = Used
  BY <1>1 DEF Listed, Used
<1>3. TableOK(Listed', pidCounter')
  BY <1>2 DEF RunInv
<1>4. ParentsLive' /\ InitStays'
  BY <1>1 DEF RunInv, ParentsLive, InitStays
<1>5. Places'
  BY <1>1, <1>2 DEF RunInv, Places, PlaceOK
<1>6. Runner' /\ ForkInv'
  BY <1>1 DEF RunInv, Runner, ForkInv, getProcess
<1>7. CallOK(processTable', Current', ctx'[Current'])
  BY <1>1 DEF RunInv
<1>8. Orphans' /\ Waiting'
  BY <1>1, <1>2 DEF RunInv, Orphans, Waiting
<1>9. BootPhase'
  BY <1>1, <1>2 DEF RunInv, BootPhase, getProcess
<1>10. Change
  BY DEF Change, Calm
<1> QED
  BY <1>3, <1>4, <1>5, <1>6, <1>7, <1>8, <1>9, <1>10 DEF RunInv

\* What the invariant says of the current process.
LEMMA WhoRuns ==
    ASSUME CoreInv, RunInv, runningProcessID # -1
    PROVE  /\ Current \in Slots /\ Init1 \in Slots /\ NULL \notin Slots
           /\ processTable[Current].isInitialized
           /\ ctx \in [Slots -> Context] /\ pidCounter \in Nat
           /\ processTable[Current].state # NoName
           /\ processTable[Init1].state # "Terminated"
           /\ pidCounter <= MaxPid + MAXPROC
           /\ PlaceOK(Current, ctx[Current],
                      processTable[Current].state = "Terminated")
           /\ CallOK(processTable, Current, ctx[Current])
           /\ ctx[Current].pc # "null_func" =>
                    processTable[Current].startFunc # "NULL"
           /\ ctx[Current].pc # "fork_link" => TableOK(processTable, pidCounter)
           /\ \A x \in Slots : processTable[x].isInitialized <=>
                                    processTable[x].state # NoName
<1>1. Current \in Slots /\ processTable[Current].isInitialized
  BY DEF RunInv, Runner
<1>2. ctx \in [Slots -> Context] /\ pidCounter \in Nat
  BY DEF CoreInv, TypeOK
<1>3. /\ PlaceOK(Current, ctx[Current], processTable[Current].state = "Terminated")
      /\ ctx[Current].pc # "null_func" => processTable[Current].startFunc # "NULL"
  BY <1>1 DEF RunInv, Places, Used
<1>4. ctx[Current].pc # "fork_link" => TableOK(processTable, pidCounter)
  BY ListedIs DEF RunInv
<1>5. Init1 \in Slots /\ NULL \notin Slots
  BY SlotOfPid, TableFields DEF Init1, RunInv
<1>6. processTable[Init1].state # "Terminated" /\ pidCounter <= MaxPid + MAXPROC
  BY DEF RunInv, InitStays, BootPhase
<1>7. ASSUME NEW x \in Slots
      PROVE  processTable[x].isInitialized <=> processTable[x].state # NoName
  <2>1. /\ Listed[x].isInitialized = processTable[x].isInitialized
        /\ Listed[x].state = processTable[x].state
    BY DEF Listed, CoreInv, TypeOK, Process
  <2>2. Listed[x].isInitialized <=> Listed[x].state # NoName
    BY DEF RunInv, TableOK, Filled, FreeSlot
  <2> QED
    BY <2>1, <2>2
<1>8. CallOK(processTable, Current, ctx[Current])
  BY DEF RunInv
<1> QED
  BY <1>1, <1>2, <1>3, <1>4, <1>5, <1>6, <1>7, <1>8

\* The current process moves on; nothing else of the contexts changes.
LEMMA CallIs ==
    ASSUME ctx \in [Slots -> Context], Current \in Slots,
           NEW pc, NEW arg, NEW ret, Call(pc, arg, ret)
    PROVE  /\ OthersRest
           /\ ctx'[Current].pc = pc /\ ctx'[Current].arg = arg
           /\ ctx'[Current].ret = ret
           /\ ctx'[Current].block = ctx[Current].block
           /\ ctx'[Current].parent = ctx[Current].parent
  BY DEF Call, OthersRest, Context

\* The same, with pc alone.
LEMMA GotoIs ==
    ASSUME ctx \in [Slots -> Context], Current \in Slots, NEW pc, Goto(pc)
    PROVE  /\ OthersRest
           /\ ctx'[Current].pc = pc /\ ctx'[Current].arg = ctx[Current].arg
           /\ ctx'[Current].ret = ctx[Current].ret
           /\ ctx'[Current].block = ctx[Current].block
           /\ ctx'[Current].parent = ctx[Current].parent
  BY DEF Goto, OthersRest, Context

\* What is stored when a queue is rewritten, a state is set, or nothing happens.
LEMMA StoreIs ==
    ASSUME CoreInv, NEW x \in Slots
    PROVE  /\ \A m : OnlyLinks(Mem, m) /\ Store(m) =>
                        SameButState(x, processTable[x].state)
           /\ UNCHANGED processTable => SameButState(x, processTable[x].state)
           /\ \A s \in States : Store(SetState(Mem, x, s)) => SameButState(x, s)
           /\ \A s \in States :
                processTable' = [processTable EXCEPT ![x].state = s] =>
                    SameButState(x, s)
<1>1. processTable \in [Slots -> Process]
  BY DEF CoreInv, TypeOK
<1>2. ASSUME NEW m, OnlyLinks(Mem, m), Store(m)
      PROVE  SameButState(x, processTable[x].state)
  BY <1>2 DEF OnlyLinks, Store, Mem, SameButState
<1>3. ASSUME UNCHANGED processTable
      PROVE  SameButState(x, processTable[x].state)
  BY <1>3 DEF SameButState, Kin
<1>4. ASSUME NEW s \in States, processTable' = [processTable EXCEPT ![x].state = s]
      PROVE  SameButState(x, s)
  BY <1>1, <1>4 DEF SameButState, Kin, Process
<1>5. ASSUME NEW s \in States, Store(SetState(Mem, x, s))
      PROVE  SameButState(x, s)
  <2>1. processTable' = [processTable EXCEPT ![x].state = s]
    BY <1>5 DEF Store, SetState, Mem
  <2> QED
    BY <2>1, <1>4
<1> QED
  BY <1>2, <1>3, <1>4, <1>5

\* CallStep when nobody's state changes, and no PID is given.
LEMMA MoveStep ==
    ASSUME CoreInv, CoreInv', RunInv, runningProcessID # -1,
           UNCHANGED <<runningProcessID, pidCounter>>,
           SameButState(Current, processTable[Current].state), OthersRest,
           ctx[Current].pc \notin Forking \cup {"null_func", "sentinel"},
           ctx'[Current].pc \notin Forking,
           PlaceOK(Current, ctx'[Current], processTable[Current].state = "Terminated"),
           CallOK(processTable', Current, ctx'[Current]),
           Current = Init1 =>
              /\ ctx'[Current].pc # "init_sentinel"
              /\ Booting(ctx'[Current]) => Booting(ctx[Current])
    PROVE  RunInv' /\ Change
<1> DEFINE s == processTable[Current].state
<1>1. /\ Current \in Slots /\ processTable[Current].isInitialized /\ s # NoName
      /\ pidCounter <= pidCounter' /\ pidCounter' <= MaxPid + MAXPROC
  BY WhoRuns
<1>2. processTable'[Current].state = s
  BY <1>1 DEF SameButState
<1>3. PlaceOK(Current, ctx'[Current], processTable'[Current].state = "Terminated")
  BY <1>2
<1> HIDE DEF s
<1>4. /\ s = "Terminated" <=> processTable[Current].state = "Terminated"
      /\ s = JoinBlocked => processTable[Current].state = JoinBlocked
      /\ SameButState(Current, s)
  BY DEF s
<1> QED
  BY <1>1, <1>3, <1>4, CallStep

-----------------------------------------------------------------------------
(***************************************************************************)
(* The steps of blockMe, unblockProc, zap and quit.                        *)
(***************************************************************************)
\* blockMe marks a process with a name, and never as dead.
LEMMA BlockNames ==
    /\ \A s \in BlockStates : s \in States /\ s # "Terminated"
    /\ {"Runnable", "Terminated"} \subseteq States
<1>1. BlockStates = {NoName, "Blocked", ZapBlocked, JoinBlocked}
  BY Zenon DEF BlockStates, NoName
<1>2. States = {NoName, "Runnable", "Running", "Blocked", ZapBlocked, JoinBlocked,
                "Terminated"}
  BY Zenon DEF States, NoName
<1> QED
  BY <1>1, <1>2, NamesDiffer DEF ZapBlocked, JoinBlocked

\* No program passes a process that is dead, or a slot that nobody has, to
\* unblockProc.  The code does not look: once it is called with either, a dead
\* process is alive again, or a switch goes to a process that does not exist.
WakesLiving == \A s \in WokenStates : s # NoName /\ s # "Terminated"

\* The calls that a user program makes with nothing but its context changed,
\* and zap.
LEMMA CallsMove ==
    ASSUME WakesLiving, CoreInv, CoreInv', RunInv, runningProcessID # -1,
           CallJoin \/ BlockMe \/ (\E x \in Slots : UnblockProc(x))
               \/ (\E pid \in 1 .. pidCounter : Zap(pid))
    PROVE  RunInv' /\ Change
<1>1. ctx[Current].pc = "user" /\ UNCHANGED <<runningProcessID, pidCounter>>
  BY DEF CallJoin, BlockMe, UnblockProc, Zap, At
<1>2. /\ Current \in Slots /\ ctx \in [Slots -> Context]
      /\ processTable \in [Slots -> Process]
      /\ Current # Init1 /\ processTable[Current].state # "Terminated"
  <2>1. Current \in Slots /\ ctx \in [Slots -> Context]
    BY WhoRuns
  <2>2. PlaceOK(Current, ctx[Current], processTable[Current].state = "Terminated")
    BY WhoRuns
  <2>3. processTable \in [Slots -> Process]
    BY DEF CoreInv, TypeOK
  <2> QED
    BY <1>1, <2>1, <2>2, <2>3 DEF PlaceOK, InitPCs, DyingPCs, Forking
<1> DEFINE Ready(pc) ==
      /\ OthersRest /\ SameButState(Current, processTable[Current].state)
      /\ ctx'[Current].pc = pc
      /\ ctx'[Current].ret \in {"user", "join"}
      /\ processTable'[Current].state # "Terminated"
<1>3. ASSUME UNCHANGED processTable
      PROVE  /\ SameButState(Current, processTable[Current].state)
             /\ processTable'[Current].state # "Terminated"
  BY <1>2, <1>3, StoreIs
<1>4. ASSUME NEW pc \in {"join", "block_state", "unblock_state"}, Ready(pc),
             CallOK(processTable', Current, ctx'[Current])
      PROVE  RunInv' /\ Change
  <2>1. PlaceOK(Current, ctx'[Current], processTable[Current].state = "Terminated")
    BY <1>2, <1>4 DEF PlaceOK, LivePCs, Returning, Forking
  <2> QED
    BY <1>1, <1>2, <1>4, <2>1, MoveStep DEF Forking
<1>5. CASE CallJoin
  <2>1. Call("join", NULL, "join") /\ UNCHANGED processTable
    BY <1>5 DEF CallJoin
  <2>2. Ready("join")
    BY <1>2, <1>3, <2>1, CallIs
  <2>3. CallOK(processTable', Current, ctx'[Current])
    BY <2>2 DEF CallOK
  <2> QED
    BY <1>4, <2>2, <2>3
<1>6. CASE BlockMe
  <2>1. /\ ctx' = [ctx EXCEPT ![Current].pc = "block_state",
                              ![Current].block = "Blocked",
                              ![Current].ret = "user"]
        /\ UNCHANGED processTable
    BY <1>6 DEF BlockMe
  <2>2. Ready("block_state") /\ ctx'[Current].block = "Blocked"
    BY <1>2, <1>3, <2>1 DEF OthersRest, Context
  <2>3. CallOK(processTable', Current, ctx'[Current])
    BY <2>2, NamesDiffer DEF CallOK, JoinBlocked
  <2> QED
    BY <1>4, <2>2, <2>3
<1>7. ASSUME NEW x \in Slots, UnblockProc(x)
      PROVE  RunInv' /\ Change
  <2>1. /\ Call("unblock_state", x, "user") /\ UNCHANGED processTable
        /\ processTable[x].state \in WokenStates
    BY <1>7 DEF UnblockProc
  <2>2. Ready("unblock_state") /\ ctx'[Current].arg = x
    BY <1>2, <1>3, <2>1, CallIs
  <2>3. CallOK(processTable', Current, ctx'[Current])
    BY <2>1, <2>2, NamesDiffer DEF CallOK, WakesLiving
  <2> QED
    BY <1>4, <2>2, <2>3
<1>8. ASSUME NEW pid \in 1 .. pidCounter, Zap(pid)
      PROVE  RunInv' /\ Change
  <2> DEFINE target == getProcess(pid)
             head == processTable[target].zapHead
  <2>1. /\ processTable' =
            [processTable EXCEPT
                ![target].zapHead = Current,
                ![Current].nextZapNode = IF head = NULL THEN @ ELSE head]
        /\ ctx' = [ctx EXCEPT ![Current].pc = "block_state",
                              ![Current].block = ZapBlocked,
                              ![Current].ret = "user",
                              ![Current].int = intOn]
    BY <1>8 DEF Zap
  <2> HIDE DEF target, head
  <2>2. OthersRest /\ ctx'[Current].pc = "block_state"
        /\ ctx'[Current].block = ZapBlocked /\ ctx'[Current].ret = "user"
    BY <1>2, <2>1 DEF OthersRest, Context
  <2>3. ASSUME NEW x \in Slots
        PROVE  /\ Kin(processTable[x], processTable'[x])
               /\ processTable'[x].state = processTable[x].state
    BY <1>2, <2>1 DEF Kin, Process
  <2>4. /\ SameButState(Current, processTable[Current].state)
        /\ processTable'[Current].state # "Terminated"
    BY <1>2, <2>3 DEF SameButState
  <2>5. CallOK(processTable', Current, ctx'[Current])
    BY <2>2, <2>4, NamesDiffer DEF CallOK, JoinBlocked, ZapBlocked
  <2>6. Ready("block_state")
    BY <2>2, <2>4
  <2> QED
    BY <1>4, <2>5, <2>6
<1> QED
  BY <1>5, <1>6, <1>7, <1>8

\* The two halves of blockMe.
LEMMA BlockingMoves ==
    ASSUME CoreInv, CoreInv', RunInv, runningProcessID # -1,
           BlockState \/ BlockRemove
    PROVE  RunInv' /\ Change
<1>1. UNCHANGED <<runningProcessID, pidCounter>>
  BY DEF BlockState, BlockRemove
<1>2. /\ Current \in Slots /\ ctx \in [Slots -> Context]
      /\ processTable \in [Slots -> Process] /\ pidCounter \in Nat
      /\ processTable[Current].isInitialized
      /\ pidCounter <= pidCounter' /\ pidCounter' <= MaxPid + MAXPROC
      /\ processTable[Init1].state # "Terminated"
      /\ PlaceOK(Current, ctx[Current], processTable[Current].state = "Terminated")
      /\ CallOK(processTable, Current, ctx[Current])
  <2>1. processTable \in [Slots -> Process]
    BY DEF CoreInv, TypeOK
  <2> QED
    BY <1>1, <2>1, WhoRuns
<1>3. CASE BlockState
  <2> DEFINE s == ctx[Current].block
  <2>1. /\ ctx[Current].pc = "block_state" /\ Goto("block_remove")
        /\ Store(SetState(Mem, Current, s))
    BY <1>3 DEF BlockState, At
  <2>2. /\ OthersRest /\ ctx'[Current].pc = "block_remove"
        /\ ctx'[Current].ret = ctx[Current].ret
    BY <1>2, <2>1, GotoIs
  <2>3. s \in States /\ s # "Terminated"
    <3>1. s \in BlockStates
      BY <1>2 DEF Context
    <3> QED
      BY <3>1, BlockNames
  <2>4. /\ s # NoName
        /\ s = JoinBlocked => \A y \in Slots : processTable[y].parent = Current =>
                                    processTable[y].state # "Terminated"
    BY <1>2, <2>1 DEF CallOK
  <2>5. processTable[Current].state # "Terminated"
    BY <1>2, <2>1 DEF PlaceOK, DyingPCs
  <2> HIDE DEF s
  <2>6. SameButState(Current, s)
    BY <1>2, <2>1, <2>3, StoreIs
  <2>7. processTable'[Current].state # "Terminated"
    BY <1>2, <2>3, <2>6 DEF SameButState
  <2>8. PlaceOK(Current, ctx'[Current], processTable'[Current].state = "Terminated")
    BY <1>2, <2>1, <2>2, <2>5, <2>7
       DEF PlaceOK, InitPCs, LivePCs, Returning, Forking
  <2>9. CallOK(processTable', Current, ctx'[Current])
    BY <2>2, <2>7 DEF CallOK
  <2>10. Current = Init1 /\ Booting(ctx'[Current]) => Booting(ctx[Current])
    BY <2>1, <2>2 DEF Booting, Returning
  <2> QED
    BY <1>1, <1>2, <2>1, <2>2, <2>3, <2>4, <2>5, <2>6, <2>8, <2>9, <2>10, CallStep
       DEF Forking
<1>4. CASE BlockRemove
  <2>1. /\ ctx[Current].pc = "block_remove" /\ Goto("dispatch")
        /\ Store(removeNode(Mem, Current))
    BY <1>4 DEF BlockRemove, At
  <2>2. /\ OthersRest /\ ctx'[Current].pc = "dispatch"
        /\ ctx'[Current].ret = ctx[Current].ret
    BY <1>2, <2>1, GotoIs
  <2>3. SameButState(Current, processTable[Current].state)
    BY <1>2, <2>1, RemoveNodeKeeps, MemIsSound, StoreIs DEF SoundMemory
  <2>4. processTable[Current].state # "Terminated"
    BY <1>2, <2>1 DEF PlaceOK, DyingPCs
  <2>5. processTable'[Current].state # "Terminated"
    BY <1>2, <2>3, <2>4 DEF SameButState
  <2>6. PlaceOK(Current, ctx'[Current], processTable[Current].state = "Terminated")
    BY <1>2, <2>1, <2>2, <2>4
       DEF PlaceOK, InitPCs, LivePCs, Returning, Forking
  <2>7. CallOK(processTable', Current, ctx'[Current])
    BY <2>2, <2>5 DEF CallOK
  <2>8. Current = Init1 /\ Booting(ctx'[Current]) => Booting(ctx[Current])
    BY <2>1, <2>2 DEF Booting, Returning
  <2> QED
    BY <1>1, <2>1, <2>2, <2>3, <2>6, <2>7, <2>8, MoveStep DEF Forking
<1> QED
  BY <1>3, <1>4

\* Where the kernel marks or queues a process that it wakes, that process is in
\* use and alive.
LEMMA WokenIs ==
    ASSUME CoreInv, RunInv, runningProcessID # -1,
           ctx[Current].pc \in {"unblock_state", "unblock_add", "wake_state", "wake_add"}
    PROVE  /\ ctx[Current].arg \in Slots
           /\ ctx[Current].pc \in {"unblock_state", "wake_state"} =>
                /\ processTable[ctx[Current].arg].isInitialized
                /\ processTable[ctx[Current].arg].state # "Terminated"
<1>1. Current \in Slots /\ CallOK(processTable, Current, ctx[Current])
  BY WhoRuns
<1>2. ctx[Current].arg \in Slots
  BY <1>1 DEF CoreInv, SoundContexts, SoundContext, Follows
<1>3. ASSUME ctx[Current].pc \in {"unblock_state", "wake_state"}
      PROVE  /\ processTable[ctx[Current].arg].isInitialized
             /\ processTable[ctx[Current].arg].state # "Terminated"
  <2>1. /\ processTable[ctx[Current].arg].state # NoName
        /\ processTable[ctx[Current].arg].state # "Terminated"
    BY <1>1, <1>3 DEF CallOK
  <2> QED
    BY <1>2, <2>1, WhoRuns
<1> QED
  BY <1>2, <1>3

\* unblockProc, called by a user program or at the end of quit, and the wakeups
\* of the zappers.
LEMMA WakingMoves ==
    ASSUME CoreInv, CoreInv', RunInv, runningProcessID # -1,
           UnblockState \/ UnblockAdd \/ WakeState \/ WakeAdd
    PROVE  RunInv' /\ Change
<1> DEFINE z == ctx[Current].arg
           dead == processTable[Current].state = "Terminated"
<1>1. UNCHANGED <<runningProcessID, pidCounter>>
  BY DEF UnblockState, UnblockAdd, WakeState, WakeAdd
<1>2. /\ Current \in Slots /\ ctx \in [Slots -> Context]
      /\ processTable \in [Slots -> Process] /\ pidCounter \in Nat
      /\ pidCounter <= pidCounter' /\ pidCounter' <= MaxPid + MAXPROC
      /\ processTable[Init1].state # "Terminated"
      /\ PlaceOK(Current, ctx[Current], dead)
      /\ CallOK(processTable, Current, ctx[Current])
  <2>1. processTable \in [Slots -> Process]
    BY DEF CoreInv, TypeOK
  <2> QED
    BY <1>1, <2>1, WhoRuns
<1>3. ctx[Current].pc \in {"unblock_state", "unblock_add", "wake_state", "wake_add"}
  BY DEF UnblockState, UnblockAdd, WakeState, WakeAdd, At
<1>4. Current # Init1
  BY <1>2, <1>3 DEF PlaceOK, InitPCs, Forking
<1>5. /\ z \in Slots
      /\ ctx[Current].pc \in {"unblock_state", "wake_state"} =>
            processTable[z].isInitialized /\ processTable[z].state # "Terminated"
  BY <1>3, WokenIs
<1>6. /\ dead => processTable[Current].parent # NULL
      /\ ctx[Current].pc \in {"wake_state", "wake_add"} =>
            dead /\ ctx[Current].parent = processTable[Current].parent
      /\ dead /\ ctx[Current].pc = "unblock_state" =>
            z = processTable[Current].parent
      /\ dead /\ ctx[Current].pc = "unblock_add" =>
            processTable[processTable[Current].parent].state # JoinBlocked
  BY <1>2, <1>3, <1>4 DEF CallOK, PlaceOK, LivePCs, Returning, Forking
<1>7. dead => processTable[Current].parent \in Slots
  BY <1>2, <1>3, <1>6, WhoRuns, ParentIsUsed
<1> HIDE DEF dead, z
<1>8. CASE UnblockState \/ WakeState
  <2> DEFINE next1 == IF UnblockState THEN "unblock_add" ELSE "wake_add"
  <2>1. /\ Goto(next1) /\ Store(SetState(Mem, z, "Runnable"))
        /\ ctx[Current].pc = IF UnblockState THEN "unblock_state" ELSE "wake_state"
    BY <1>8 DEF UnblockState, WakeState, At, z
  <2>2. next1 \in {"unblock_add", "wake_add"}
        /\ (next1 = "wake_add" <=> ctx[Current].pc = "wake_state")
    BY <2>1
  <2> HIDE DEF next1
  <2>3. /\ OthersRest /\ ctx'[Current].pc = next1
        /\ ctx'[Current].ret = ctx[Current].ret
        /\ ctx'[Current].parent = ctx[Current].parent
    BY <1>2, <2>1, GotoIs
  <2>4. processTable[z].isInitialized /\ processTable[z].state # "Terminated"
    BY <1>5, <2>1
  <2>5. SameButState(z, "Runnable")
    BY <1>5, <2>1, BlockNames, StoreIs
  <2>6. /\ processTable'[Current].state = "Terminated" <=> dead
        /\ processTable'[Current].parent = processTable[Current].parent
        /\ processTable'[z].state = "Runnable"
    BY <1>2, <1>5, <2>4, <2>5 DEF SameButState, Kin, dead
  <2>7. PlaceOK(Current, ctx'[Current], processTable'[Current].state = "Terminated")
    BY <1>2, <1>4, <1>6, <2>1, <2>2, <2>3, <2>6
       DEF PlaceOK, DyingPCs, LivePCs, Returning, Forking
  <2>8. CallOK(processTable', Current, ctx'[Current])
    <3>1. dead /\ next1 = "unblock_add" =>
             processTable'[processTable'[Current].parent].state # JoinBlocked
      <4>1. dead /\ next1 = "unblock_add" => z = processTable[Current].parent
        BY <1>6, <2>1, <2>2
      <4> QED
        BY <4>1, <2>6 DEF JoinBlocked
    <3> QED
      BY <3>1, <1>6, <2>2, <2>3, <2>6 DEF CallOK
  <2> QED
    BY <1>1, <1>2, <1>3, <1>4, <1>5, <2>2, <2>3, <2>4, <2>5, <2>7, <2>8,
       NamesDiffer, CallStep DEF Forking, JoinBlocked
<1>9. CASE UnblockAdd \/ WakeAdd
  <2> DEFINE next2 == IF UnblockAdd THEN "dispatch" ELSE "quit_wake"
  <2>1. /\ OthersRest /\ ctx'[Current].pc = next2
        /\ ctx'[Current].ret = IF UnblockAdd THEN ctx[Current].ret ELSE "dead"
        /\ ctx'[Current].parent = ctx[Current].parent
    <3>1. CASE UnblockAdd
      BY <3>1, <1>2, GotoIs DEF UnblockAdd
    <3>2. CASE ~UnblockAdd
      BY <3>2, <1>2, <1>9, CallIs DEF WakeAdd
    <3> QED
      BY <3>1, <3>2
  <2>2. /\ Store(addToQueue(Mem, z))
        /\ ctx[Current].pc = IF UnblockAdd THEN "unblock_add" ELSE "wake_add"
    BY <1>9 DEF UnblockAdd, WakeAdd, At, z
  <2>3. next2 \in {"dispatch", "quit_wake"}
        /\ (next2 = "quit_wake" <=> ctx[Current].pc = "wake_add")
        /\ ctx'[Current].ret \in {ctx[Current].ret, "dead"}
        /\ (next2 = "dispatch" => ctx'[Current].ret = ctx[Current].ret)
    BY <2>1, <2>2
  <2> HIDE DEF next2
  <2>4. SameButState(Current, processTable[Current].state)
    BY <1>2, <1>5, <2>2, AddToQueueKeeps, MemIsSound, StoreIs DEF SoundMemory
  <2>5. /\ processTable'[Current].state = "Terminated" <=> dead
        /\ processTable'[Current].parent = processTable[Current].parent
        /\ dead => processTable'[processTable[Current].parent].state
                        = processTable[processTable[Current].parent].state
    BY <1>2, <1>7, <2>4 DEF SameButState, Kin, dead
  <2>6. PlaceOK(Current, ctx'[Current], processTable[Current].state = "Terminated")
    BY <1>2, <1>3, <1>4, <1>6, <2>1, <2>2, <2>3
       DEF PlaceOK, DyingPCs, LivePCs, Returning, Forking, dead
  <2>7. CallOK(processTable', Current, ctx'[Current])
    <3>1. dead /\ next2 = "dispatch" =>
             processTable'[processTable'[Current].parent].state # JoinBlocked
      <4>1. dead /\ next2 = "dispatch" =>
               processTable[processTable[Current].parent].state # JoinBlocked
        BY <1>3, <1>6, <2>2, <2>3
      <4> QED
        BY <4>1, <2>5
    <3> QED
      BY <3>1, <1>6, <2>1, <2>2, <2>3, <2>5 DEF CallOK
  <2> QED
    BY <1>1, <1>3, <1>4, <2>1, <2>3, <2>4, <2>6, <2>7, MoveStep DEF Forking
<1> QED
  BY <1>8, <1>9

\* quit: the caller, which has no children, is Terminated; it leaves its run
\* queue and goes along its zap list.
LEMMA QuittingMoves ==
    ASSUME CoreInv, CoreInv', RunInv, runningProcessID # -1,
           Quit \/ QuitRemove \/ QuitWake
    PROVE  RunInv' /\ Change
<1> DEFINE z == ctx[Current].arg
           q == processTable[Current].parent
           dead == processTable[Current].state = "Terminated"
<1>1. /\ Current \in Slots /\ ctx \in [Slots -> Context]
      /\ processTable \in [Slots -> Process] /\ pidCounter \in Nat
      /\ processTable[Current].isInitialized
      /\ pidCounter <= MaxPid + MAXPROC
      /\ PlaceOK(Current, ctx[Current], dead)
      /\ CallOK(processTable, Current, ctx[Current])
      /\ \A x \in Slots : processTable[x].isInitialized <=>
                               processTable[x].state # NoName
      /\ ctx[Current].pc # "fork_link" => TableOK(processTable, pidCounter)
  <2>1. processTable \in [Slots -> Process]
    BY DEF CoreInv, TypeOK
  <2> QED
    BY <2>1, WhoRuns
<1>2. ctx[Current].pc \in {"user", "quit_remove", "quit_wake"}
  BY DEF Quit, QuitRemove, QuitWake, At
<1>3. /\ Current # Init1
      /\ dead <=> ctx[Current].pc # "user"
  BY <1>1, <1>2
     DEF PlaceOK, InitPCs, DyingPCs, LivePCs, Returning, Forking
<1>4. TableOK(processTable, pidCounter)
  BY <1>1, <1>2
\* The parent of a process that has gone beyond quit_remove.
<1>5. ASSUME dead, q # NULL
      PROVE  /\ q \in Slots /\ getProcess(processTable[q].PID) = q
             /\ processTable[q].isInitialized
             /\ processTable[q].state # "Terminated"
  <2>1. q \in Slots /\ processTable[q].isInitialized
    BY <1>1, <1>4, <1>5, ParentIsUsed
  <2>2. getProcess(processTable[q].PID) = q
    BY <2>1 DEF CoreInv, PidsInPlace, Used
  <2>3. processTable[q].state # "Terminated"
    BY <1>1, <1>5 DEF RunInv, ParentsLive
  <2> QED
    BY <2>1, <2>2, <2>3
\* A move inside quit, with the table's states unchanged.
<1>6. ASSUME UNCHANGED <<runningProcessID, pidCounter>>, dead,
             SameButState(Current, processTable[Current].state), OthersRest,
             ctx'[Current].pc \in DyingPCs,
             ctx'[Current].pc \in Returning => ctx'[Current].ret = "dead",
             CallOK(processTable', Current, ctx'[Current])
      PROVE  RunInv' /\ Change
  <2>1. PlaceOK(Current, ctx'[Current], processTable[Current].state = "Terminated")
    BY <1>3, <1>6 DEF PlaceOK
  <2>2. ctx'[Current].pc \notin Forking
    BY <1>6 DEF DyingPCs, Forking
  <2> QED
    BY <1>2, <1>3, <1>6, <2>1, <2>2, MoveStep DEF Forking
<1>7. CASE Quit
  <2>1. /\ ctx[Current].pc = "user" /\ Goto("quit_remove")
        /\ Store(SetState(Mem, Current, "Terminated"))
        /\ processTable[Current].firstChild = NULL
        /\ UNCHANGED <<runningProcessID, pidCounter>>
    BY <1>7 DEF Quit, At
  <2>2. OthersRest /\ ctx'[Current].pc = "quit_remove"
    BY <1>1, <2>1, GotoIs
  <2>3. SameButState(Current, "Terminated")
    BY <1>1, <2>1, BlockNames, StoreIs
  <2>4. processTable'[Current].state = "Terminated"
    BY <1>1, <2>3 DEF SameButState
  <2>5. PlaceOK(Current, ctx'[Current], processTable'[Current].state = "Terminated")
    BY <1>3, <2>2, <2>4 DEF PlaceOK, DyingPCs, Returning, Forking
  <2>6. CallOK(processTable', Current, ctx'[Current])
    BY <2>2 DEF CallOK
  <2>7. pidCounter <= pidCounter' /\ pidCounter' <= MaxPid + MAXPROC
    BY <1>1, <2>1
  <2> QED
    BY <1>1, <1>3, <2>1, <2>2, <2>3, <2>5, <2>6, <2>7, NamesDiffer, CallStep
       DEF Forking, JoinBlocked
<1>8. CASE QuitRemove
  <2>1. ctx[Current].pc = "quit_remove" /\ dead
    BY <1>3, <1>8 DEF QuitRemove, At
  <2>2. CASE q = NULL
    <3>1. UNCHANGED <<processTable, runningProcessID, pidCounter, ctx>>
      BY <1>8, <2>2 DEF QuitRemove, End
    <3> QED
      BY <3>1, QuietKeeps
  <2>3. CASE q # NULL
    <3>1. /\ Store(removeNode(Mem, Current))
          /\ ctx' = [ctx EXCEPT
                      ![Current].pc = "quit_wake",
                      ![Current].arg = processTable[Current].zapHead,
                      ![Current].parent = getProcess(processTable[q].PID)]
          /\ UNCHANGED <<runningProcessID, pidCounter>>
      BY <1>8, <2>3 DEF QuitRemove
    <3>2. getProcess(processTable[q].PID) = q
      BY <1>5, <2>1, <2>3
    <3> HIDE DEF q
    <3>3. /\ OthersRest /\ ctx'[Current].pc = "quit_wake"
          /\ ctx'[Current].parent = q
      BY <1>1, <3>1, <3>2 DEF OthersRest, Context
    <3>4. SameButState(Current, processTable[Current].state)
      BY <1>1, <3>1, RemoveNodeKeeps, MemIsSound, StoreIs DEF SoundMemory
    <3>5. processTable'[Current].parent = q
      BY <1>1, <3>4 DEF SameButState, Kin, q
    <3>6. CallOK(processTable', Current, ctx'[Current])
      BY <2>3, <3>3, <3>5 DEF CallOK
    <3> QED
      BY <1>6, <2>1, <3>1, <3>3, <3>4, <3>6 DEF DyingPCs, Returning, Forking
  <2> QED
    BY <2>2, <2>3
<1>9. CASE QuitWake
  <2>1. /\ ctx[Current].pc = "quit_wake" /\ dead
        /\ UNCHANGED <<processTable, runningProcessID, pidCounter>>
    BY <1>3, <1>9 DEF QuitWake, At
  <2>2. /\ q # NULL /\ ctx[Current].parent = q
    BY <1>1, <2>1 DEF CallOK
  <2>3. /\ SameButState(Current, processTable[Current].state)
        /\ processTable' = processTable
    BY <1>1, <2>1, StoreIs
  <2>4. CASE z = NULL
    <3>1. Call("unblock_state", ctx[Current].parent, "dead")
      BY <1>9, <2>4 DEF QuitWake
    <3>2. /\ OthersRest /\ ctx'[Current].pc = "unblock_state"
          /\ ctx'[Current].arg = q /\ ctx'[Current].ret = "dead"
      BY <1>1, <2>2, <3>1, CallIs
    <3>3. processTable[q].state # NoName /\ processTable[q].state # "Terminated"
      BY <1>1, <1>5, <2>1, <2>2
    <3>4. CallOK(processTable, Current, ctx'[Current])
      BY <2>2, <3>2, <3>3 DEF CallOK
    <3> QED
      BY <1>6, <2>1, <2>3, <3>2, <3>4 DEF DyingPCs
  <2>5. CASE z # NULL /\ processTable[z].state = NoName
    <3>1. UNCHANGED ctx
      BY <1>9, <2>5, Zenon DEF QuitWake, NoName
    <3> QED
      BY <2>1, <3>1, QuietKeeps
  <2>6. CASE z # NULL /\ processTable[z].state # NoName
    <3>1. IF processTable[z].state = "Terminated"
          THEN Call("quit_wake", processTable[z].nextZapNode, "dead")
          ELSE Goto("wake_state")
      BY <1>9, <2>6, Zenon DEF QuitWake, NoName
    <3>2. CASE processTable[z].state = "Terminated"
      <4>1. /\ OthersRest /\ ctx'[Current].pc = "quit_wake"
            /\ ctx'[Current].parent = ctx[Current].parent
        BY <1>1, <3>1, <3>2, CallIs
      <4>2. CallOK(processTable, Current, ctx'[Current])
        BY <2>2, <4>1 DEF CallOK
      <4> QED
        BY <1>6, <2>1, <2>3, <4>1, <4>2 DEF DyingPCs, Returning, Forking
    <3>3. CASE processTable[z].state # "Terminated"
      <4>1. /\ OthersRest /\ ctx'[Current].pc = "wake_state"
            /\ ctx'[Current].arg = z
            /\ ctx'[Current].parent = ctx[Current].parent
        BY <1>1, <3>1, <3>3, GotoIs
      <4>2. CallOK(processTable, Current, ctx'[Current])
        BY <2>2, <2>6, <3>3, <4>1 DEF CallOK
      <4> QED
        BY <1>6, <2>1, <2>3, <4>1, <4>2 DEF DyingPCs, Returning, Forking
    <3> QED
      BY <3>2, <3>3
  <2> QED
    BY <2>4, <2>5, <2>6
<1> QED
  BY <1>7, <1>8, <1>9

-----------------------------------------------------------------------------
(***************************************************************************)
(* The steps of join, of init's loop and of the dispatcher that leave the  *)
(* table and the current process as they are.                              *)
(***************************************************************************)
\* init's loop goes round.
LEMMA InitLoopMoves ==
    ASSUME CoreInv, CoreInv', RunInv, runningProcessID # -1, InitLoop
    PROVE  RunInv' /\ Change
<1>1. /\ Current \in Slots /\ ctx \in [Slots -> Context] /\ pidCounter \in Nat
      /\ processTable[Current].isInitialized
      /\ pidCounter <= MaxPid + MAXPROC
      /\ PlaceOK(Current, ctx[Current], processTable[Current].state = "Terminated")
      /\ processTable[Init1].state # "Terminated"
  BY WhoRuns
<1>2. /\ ctx[Current].pc = "init_loop"
      /\ processTable' = [processTable EXCEPT ![Init1].state = "Runnable"]
      /\ Call("dispatch", NULL, "join")
      /\ UNCHANGED <<runningProcessID, pidCounter>>
  BY DEF InitLoop, At, Init1
<1>3. Current = Init1
  BY <1>1, <1>2 DEF PlaceOK, DyingPCs, LivePCs, Returning, Forking
<1>4. OthersRest /\ ctx'[Current].pc = "dispatch" /\ ctx'[Current].ret = "join"
  BY <1>1, <1>2, CallIs
<1>5. SameButState(Current, "Runnable")
  BY <1>1, <1>2, <1>3, BlockNames, StoreIs
<1>6. processTable'[Current].state = "Runnable"
  BY <1>1, <1>5 DEF SameButState
<1>7. PlaceOK(Current, ctx'[Current], processTable'[Current].state = "Terminated")
  BY <1>3, <1>4 DEF PlaceOK, InitPCs
<1>8. CallOK(processTable', Current, ctx'[Current])
  BY <1>4, <1>6 DEF CallOK
<1>9. pidCounter <= pidCounter' /\ pidCounter' <= MaxPid + MAXPROC
  BY <1>1, <1>2
<1>10. ~Booting(ctx'[Current]) /\ ctx'[Current].pc # "init_sentinel"
  BY <1>4 DEF Booting
<1> QED
  BY <1>1, <1>2, <1>3, <1>4, <1>5, <1>7, <1>8, <1>9, <1>10, NamesDiffer, CallStep
     DEF Forking, JoinBlocked

\* Who is in join: init and the processes that are alive.
LEMMA JoinerIs ==
    ASSUME CoreInv, RunInv, runningProcessID # -1, ctx[Current].pc = "join"
    PROVE  /\ Current \in Slots /\ processTable[Current].state # "Terminated"
           /\ AfterJoin(Current) = IF Current = Init1 THEN "init_loop" ELSE "user"
           /\ TableOK(processTable, pidCounter)
<1>1. /\ Current \in Slots /\ TableOK(processTable, pidCounter)
      /\ PlaceOK(Current, ctx[Current], processTable[Current].state = "Terminated")
      /\ processTable[Init1].state # "Terminated"
  BY WhoRuns
<1>2. processTable[Current].state # "Terminated"
  BY <1>1 DEF PlaceOK, DyingPCs
<1>3. processTable[Current].startFunc = "init_main" <=> Current = Init1
  BY <1>1 DEF RunInv, InitStays
<1> QED
  BY <1>1, <1>2, <1>3 DEF AfterJoin

\* The scan of join finds a Terminated child, or there is none.
LEMMA JoinScan ==
    ASSUME CoreInv, RunInv, runningProcessID # -1, ctx[Current].pc = "join"
    PROVE  /\ FirstDeadChild # NULL =>
                /\ FirstDeadChild \in JoinStops
                /\ processTable[FirstDeadChild].parent = Current
                /\ processTable[FirstDeadChild].state = "Terminated"
           /\ FirstDeadChild = NULL =>
                \A x \in Slots : processTable[x].parent = Current =>
                    processTable[x].state # "Terminated"
<1>1. /\ Current \in Slots /\ TableOK(processTable, pidCounter)
      /\ \A x \in Slots : processTable[x].isInitialized <=>
                               processTable[x].state # NoName
  BY JoinerIs, WhoRuns
<1> DEFINE found == Walk([x \in Slots |-> processTable[x].nextSibling],
                         processTable[Current].firstChild, JoinStops)
<1>2. /\ found # NULL => /\ found \in Slots /\ found \in JoinStops
                         /\ processTable[found].parent = Current
      /\ found = NULL => \A x \in Slots : processTable[x].parent = Current =>
                              x \notin JoinStops
  BY <1>1, ChildWalk
<1>3. FirstDeadChild = found
  BY DEF FirstDeadChild, SiblingLinks, Mem
<1> HIDE DEF found
<1>4. \A x \in Slots : x \in JoinStops <=>
            processTable[x].state = "Terminated" \/ processTable[x].state = NoName
  BY Zenon DEF JoinStops, NoName
<1>5. \A x \in Slots : processTable[x].parent # NULL => processTable[x].state # NoName
  BY <1>1, ParentIsUsed
<1>6. Current # NULL
  BY <1>1, TableFields
<1> QED
  BY <1>2, <1>3, <1>4, <1>5, <1>6

\* join without anything to reap.
LEMMA JoinMoves ==
    ASSUME CoreInv, CoreInv', RunInv, runningProcessID # -1, Join,
           FirstDeadChild = NULL \/ processTable[Current].firstChild = NULL
    PROVE  RunInv' /\ Change
<1>1. /\ ctx \in [Slots -> Context] /\ ctx[Current].pc = "join"
      /\ UNCHANGED <<runningProcessID, pidCounter>>
  BY WhoRuns DEF Join, At
<1>2. /\ Current \in Slots /\ processTable[Current].state # "Terminated"
      /\ AfterJoin(Current) = IF Current = Init1 THEN "init_loop" ELSE "user"
  BY <1>1, JoinerIs
<1>3. CASE processTable[Current].firstChild = NULL
  <2> DEFINE pc == IF AfterJoin(Current) = "init_loop" THEN "dead" ELSE "user"
  <2>1. Goto(pc) /\ UNCHANGED processTable
    BY <1>3 DEF Join
  <2>2. pc = IF Current = Init1 THEN "dead" ELSE "user"
    BY <1>2
  <2> HIDE DEF pc
  <2>3. OthersRest /\ ctx'[Current].pc = pc
    BY <1>1, <1>2, <2>1, GotoIs
  <2>4. SameButState(Current, processTable[Current].state)
    BY <1>2, <2>1, StoreIs
  <2>5. PlaceOK(Current, ctx'[Current], processTable[Current].state = "Terminated")
    BY <1>2, <2>2, <2>3 DEF PlaceOK, InitPCs, LivePCs, Returning, Forking
  <2>6. CallOK(processTable', Current, ctx'[Current])
    BY <1>2, <2>1, <2>2, <2>3 DEF CallOK
  <2>7. ctx'[Current].pc \notin Forking /\ ~Booting(ctx'[Current])
    BY <2>2, <2>3 DEF Booting, Returning, Forking
  <2>8. ctx'[Current].pc # "init_sentinel"
    BY <2>2, <2>3
  <2> QED
    BY <1>1, <2>3, <2>4, <2>5, <2>6, <2>7, <2>8, MoveStep DEF Forking
<1>4. CASE processTable[Current].firstChild # NULL
  <2>1. /\ ctx' = [ctx EXCEPT ![Current].pc = "block_state",
                              ![Current].block = JoinBlocked,
                              ![Current].ret = "join"]
        /\ UNCHANGED processTable
    BY <1>4 DEF Join
  <2>2. /\ OthersRest /\ ctx'[Current].pc = "block_state"
        /\ ctx'[Current].block = JoinBlocked /\ ctx'[Current].ret = "join"
    BY <1>1, <1>2, <2>1 DEF OthersRest, Context
  <2>3. SameButState(Current, processTable[Current].state)
    BY <1>2, <2>1, StoreIs
  <2>4. PlaceOK(Current, ctx'[Current], processTable[Current].state = "Terminated")
    BY <1>2, <2>2 DEF PlaceOK, InitPCs, LivePCs, Returning, Forking
  <2>5. \A x \in Slots : processTable[x].parent = Current =>
            processTable[x].state # "Terminated"
    BY <1>1, <1>4, JoinScan
  <2>6. CallOK(processTable', Current, ctx'[Current])
    BY <1>2, <2>1, <2>2, <2>5, NamesDiffer DEF CallOK
  <2>7. ctx'[Current].pc \notin Forking /\ ~Booting(ctx'[Current])
    BY <2>2 DEF Booting, Forking
  <2>8. ctx'[Current].pc # "init_sentinel"
    BY <2>2
  <2> QED
    BY <1>1, <2>2, <2>3, <2>4, <2>6, <2>7, <2>8, MoveStep DEF Forking
<1> QED
  BY <1>3, <1>4

\* The dispatcher finds nobody Runnable, and returns to its caller.
LEMMA DispatchReturns ==
    ASSUME CoreInv, CoreInv', RunInv, runningProcessID # -1,
           Dispatch, NextToRun(Mem) = NULL
    PROVE  RunInv' /\ Change
<1> DEFINE c == [ctx EXCEPT ![Current].pc = ctx[Current].ret]
<1>1. /\ Current \in Slots /\ ctx \in [Slots -> Context]
      /\ processTable \in [Slots -> Process]
      /\ PlaceOK(Current, ctx[Current], processTable[Current].state = "Terminated")
      /\ CallOK(processTable, Current, ctx[Current])
      /\ processTable[Init1].state # "Terminated"
  <2>1. processTable \in [Slots -> Process]
    BY DEF CoreInv, TypeOK
  <2> QED
    BY <2>1, WhoRuns
<1>2. /\ ctx[Current].pc = "dispatch" /\ Store(Mem)
      /\ ctx' = [c EXCEPT ![Current].int = FALSE]
      /\ UNCHANGED <<runningProcessID, pidCounter>>
  BY DEF Dispatch, At, dispatcher
<1>3. c \in [Slots -> Context]
  BY <1>1 DEF Context
<1>4. /\ c[Current].pc = ctx[Current].ret
      /\ \A x \in Slots \ {Current} : c[x] = ctx[x]
  BY <1>1 DEF Context
<1> HIDE DEF c
<1>5. OthersRest /\ ctx'[Current].pc = ctx[Current].ret
  BY <1>1, <1>2, <1>3, <1>4 DEF OthersRest, Context
<1>6. SameButState(Current, processTable[Current].state) /\ processTable' = processTable
  BY <1>1, <1>2, StoreIs DEF Store, Mem
<1>7. /\ ctx[Current].ret \in {"init_testcase", "join", "user", "dead"}
      /\ ctx[Current].ret = "dead" <=> processTable[Current].state = "Terminated"
  BY <1>1, <1>2 DEF PlaceOK, Returning
<1>8. PlaceOK(Current, ctx'[Current], processTable[Current].state = "Terminated")
  BY <1>1, <1>2, <1>5, <1>7
     DEF PlaceOK, InitPCs, LivePCs, DyingPCs, Returning, Forking
<1>9. CallOK(processTable', Current, ctx'[Current])
  BY <1>1, <1>2, <1>5, <1>6, <1>7 DEF CallOK
<1>10. ctx'[Current].pc \notin Forking /\ ctx'[Current].pc # "init_sentinel"
  BY <1>5, <1>7 DEF Forking
<1>11. Booting(ctx'[Current]) => Booting(ctx[Current])
  BY <1>2, <1>5, <1>7 DEF Booting, Returning, Forking
<1> QED
  BY <1>2, <1>5, <1>6, <1>8, <1>9, <1>10, <1>11, MoveStep DEF Forking

\* The machine stops, or a user program does what stops it.
LEMMA EndsQuietly ==
    ASSUME RunInv,
           \/ BlockMeError \/ QuitError \/ DumpProcesses \/ MainReturns
           \/ \E pid \in 1 .. pidCounter : ZapError(pid)
           \/ Sentinel \/ NullFunc \/ QuitReturns \/ Ended \/ UNCHANGED vars
    PROVE  RunInv' /\ Change
<1>1. UNCHANGED <<processTable, runningProcessID, pidCounter, ctx>>
  BY DEF BlockMeError, QuitError, DumpProcesses, MainReturns, ZapError, Sentinel,
         NullFunc, QuitReturns, Ended, End, vars
<1> QED
  BY <1>1, QuietKeeps

-----------------------------------------------------------------------------
(***************************************************************************)
(* fork1, from createProcess to the links of the child.                    *)
(***************************************************************************)
\* Slot c gets a new process, without relatives.
NewbornIn(c, pid, pr, f) ==
    /\ processTable'[c].isInitialized /\ processTable'[c].PID = pid
    /\ processTable'[c].priority = pr /\ processTable'[c].startFunc = f
    /\ processTable'[c].state = "Runnable"
    /\ processTable'[c].parent = NULL /\ processTable'[c].firstChild = NULL
    /\ processTable'[c].nextSibling = NULL /\ processTable'[c].prevSibling = NULL
    /\ \A x \in Slots \ {c} : /\ Kin(processTable[x], processTable'[x])
                              /\ processTable'[x].state = processTable[x].state

\* What newProcess stores.
LEMMA NewProcessIs ==
    ASSUME CoreInv, NEW pid \in Nat, NEW pr \in Priorities, NEW f \in StartFuncs,
           NEW cc \in [Slots -> Context], newProcess(pid, pr, f, cc)
    PROVE  /\ NewbornIn(getProcess(pid), pid, pr, f)
           /\ ctx'[getProcess(pid)] = Start(EntryPoint(f))
           /\ \A x \in Slots : x # getProcess(pid) => ctx'[x] = cc[x]
           /\ pidCounter' = pid + 1 /\ UNCHANGED runningProcessID
<1> DEFINE slot == getProcess(pid)
           p == [Blank EXCEPT !.isInitialized = TRUE, !.PID = pid,
                              !.priority = pr, !.state = "Runnable",
                              !.startFunc = f]
           made == [Mem EXCEPT !.table[slot] = p]
<1>1. slot \in Slots /\ processTable \in [Slots -> Process]
  BY SlotOfPid DEF CoreInv, TypeOK
<1>2. /\ Store(addToQueue(made, slot))
      /\ pidCounter' = pid + 1
      /\ ctx' = [cc EXCEPT ![slot] = Start(EntryPoint(f))]
      /\ UNCHANGED <<runningProcessID, intOn>>
  BY DEF newProcess
<1> HIDE DEF slot
<1>3. /\ p \in Process /\ p.isInitialized
      /\ p.PID = pid /\ p.priority = pr /\ p.startFunc = f /\ p.state = "Runnable"
  BY BlankType DEF Process, States
<1>4. /\ p.parent = NULL /\ p.firstChild = NULL
      /\ p.nextSibling = NULL /\ p.prevSibling = NULL
  BY DEF Blank
<1> HIDE DEF p
<1>5. made \in Memory /\ made.table = [processTable EXCEPT ![slot] = p]
  BY <1>1, <1>3 DEF Mem, Memory, CoreInv, TypeOK
<1> HIDE DEF made
<1>6. OnlyLinks(made, addToQueue(made, slot))
  BY <1>1, <1>5, AddToQueueKeeps
<1>7. \A x \in Slots : /\ Kin(made.table[x], processTable'[x])
                       /\ processTable'[x].state = made.table[x].state
  BY <1>2, <1>6 DEF OnlyLinks, Store
<1>8. NewbornIn(slot, pid, pr, f)
  BY <1>1, <1>3, <1>4, <1>5, <1>7 DEF NewbornIn, Kin
<1>9. /\ ctx'[slot] = Start(EntryPoint(f))
      /\ \A x \in Slots : x # slot => ctx'[x] = cc[x]
  BY <1>1, <1>2
<1> QED
  BY <1>2, <1>8, <1>9 DEF slot

\* Where a new process starts.
LEMMA EntryIs ==
    ASSUME NEW f \in {"NULL", "user", "sentinel", "testcase_main"}
    PROVE  /\ Start(EntryPoint(f)).pc \in {"null_func", "user", "sentinel"}
           /\ f = "NULL" <=> Start(EntryPoint(f)).pc = "null_func"
           /\ f = "sentinel" <=> Start(EntryPoint(f)).pc = "sentinel"
<1>1. Start(EntryPoint(f)).pc = EntryPoint(f)
  BY Zenon DEF Start
<1> QED
  BY <1>1 DEF EntryPoint

\* The invariant after a birth: the creating process goes on in fork1, or has
\* had its arguments refused.
LEMMA BirthStep ==
    ASSUME CoreInv, CoreInv', RunInv, runningProcessID # -1,
           UNCHANGED runningProcessID,
           NEW pid \in Nat, pidCounter <= pid, pidCounter' = pid + 1,
           pid + 1 <= MaxPid + MAXPROC,
           NEW c \in Slots, c = getProcess(pid), ~processTable[c].isInitialized,
           NEW pr \in Priorities, NEW f \in {"NULL", "user", "sentinel", "testcase_main"},
           NewbornIn(c, pid, pr, f),
           ctx'[c] = Start(EntryPoint(f)),
           \A x \in Slots : x # c /\ x # Current => ctx'[x] = ctx[x],
           ctx[Current].pc \in {"user", "init_sentinel", "init_testcase"},
           \/ ctx'[Current].pc = "fork_pid"
           \/ /\ ctx'[Current].pc = "user"
              /\ ~(pr \in 1 .. 7 /\ f # "NULL"),
           ctx[Current].pc = "user" => ctx'[Current].ret = "user",
           ctx[Current].pc # "user" =>
              /\ ctx'[Current].pc = "fork_pid"
              /\ ctx'[Current].ret \in {"init_testcase", "join"},
           ctx'[Current].ret = "init_testcase" =>
              /\ ctx[Current].pc = "init_sentinel"
              /\ pid = 2 /\ f = "sentinel"
    PROVE  RunInv' /\ Change
<1>1. /\ Current' = Current /\ NewChild' = c /\ Init1' = Init1
  BY DEF Current, NewChild, Init1, getProcess
<1>2. /\ Current \in Slots /\ Init1 \in Slots /\ NULL \notin Slots
      /\ processTable[Current].isInitialized
      /\ pidCounter \in Nat
      /\ PlaceOK(Current, ctx[Current], processTable[Current].state = "Terminated")
      /\ ctx[Current].pc # "fork_link" => TableOK(processTable, pidCounter)
      /\ ctx[Current].pc # "null_func" => processTable[Current].startFunc # "NULL"
      /\ processTable'\in [Slots -> Process]
  <2>1. processTable' \in [Slots -> Process]
    BY DEF CoreInv, TypeOK
  <2> QED
    BY <2>1, WhoRuns
<1>3. /\ TableOK(processTable, pidCounter)
      /\ processTable[Current].startFunc # "NULL"
      /\ ctx[Current].pc \notin Forking
      /\ Current = Init1 <=> ctx[Current].pc # "user"
      /\ processTable[Current].state # "Terminated"
  <2>1. processTable[Init1].state # "Terminated"
    BY WhoRuns
  <2> QED
    BY <1>2, <2>1
       DEF PlaceOK, InitPCs, LivePCs, DyingPCs, Returning, Forking
<1>4. c # Current /\ c # Init1 /\ processTable[Init1].isInitialized
  BY <1>2 DEF RunInv, InitStays
<1>5. ASSUME NEW x \in Slots, x # c
      PROVE  /\ Kin(processTable[x], processTable'[x])
             /\ processTable'[x].isInitialized = processTable[x].isInitialized
             /\ processTable'[x].PID = processTable[x].PID
             /\ processTable'[x].priority = processTable[x].priority
             /\ processTable'[x].startFunc = processTable[x].startFunc
             /\ processTable'[x].parent = processTable[x].parent
             /\ processTable'[x].firstChild = processTable[x].firstChild
             /\ processTable'[x].state = processTable[x].state
             /\ processTable[x].parent # c
  <2>1. processTable[x].parent # c
    BY <1>3, FreeIsFree
  <2> QED
    BY <1>5, <2>1 DEF NewbornIn, Kin
<1>6. /\ processTable'[c].isInitialized /\ processTable'[c].PID = pid
      /\ processTable'[c].priority = pr /\ processTable'[c].startFunc = f
      /\ processTable'[c].state = "Runnable"
      /\ processTable'[c].parent = NULL /\ processTable'[c].firstChild = NULL
      /\ processTable'[c].nextSibling = NULL /\ processTable'[c].prevSibling = NULL
  BY DEF NewbornIn
<1>7. ctx'[Current].pc \in {"fork_pid", "user"}
  OBVIOUS
<1>8. TableOK(Listed', pidCounter')
  <2>1. Listed' = processTable'
    BY <1>1, <1>7, ListedIs
  <2>2. processTable'[c].state # NoName
    BY <1>6, NamesDiffer
  <2>3. pidCounter <= processTable'[c].PID /\ 1 <= processTable'[c].PID
    <3>1. 0 < processTable[Init1].PID /\ processTable[Init1].PID < pidCounter
      BY <1>2, <1>3, <1>4 DEF TableOK, Filled
    <3>2. processTable[Init1].PID \in Nat
      BY <1>2, <1>3, TableFields
    <3> QED
      BY <1>2, <1>6, <3>1, <3>2
  <2>4. \A x \in Slots \ {c} : /\ Kin(processTable[x], processTable'[x])
                               /\ processTable'[x].state = processTable[x].state
    BY <1>5
  <2>5. TableOK(processTable', processTable'[c].PID + 1)
    BY <1>2, <1>3, <1>6, <2>2, <2>3, <2>4, CreatedInTable
  <2> QED
    BY <1>6, <2>1, <2>5
<1>9. ParentsLive'
  <2> SUFFICES ASSUME NEW x \in Slots, processTable'[x].parent # NULL
               PROVE  processTable'[processTable'[x].parent].state # "Terminated"
    BY DEF ParentsLive
  <2>1. x # c /\ processTable'[x].parent = processTable[x].parent
        /\ processTable[x].parent # c
    BY <1>5, <1>6
  <2>2. processTable[x].parent \in Slots
        /\ processTable[processTable[x].parent].state # "Terminated"
    BY <1>3, <2>1, ParentIsUsed DEF RunInv, ParentsLive
  <2> QED
    BY <1>5, <2>1, <2>2
<1>10. InitStays'
  <2>1. \A x \in Slots \ {Init1} : processTable'[x].startFunc # "init_main"
    BY <1>5, <1>6 DEF RunInv, InitStays
  <2> QED
    BY <1>1, <1>2, <1>4, <1>5, <2>1 DEF RunInv, InitStays
<1>11. Places'
  <2> SUFFICES ASSUME NEW x \in Slots, processTable'[x].isInitialized
               PROVE  /\ PlaceOK(x, ctx'[x], processTable'[x].state = "Terminated")
                      /\ x # Current => ctx'[x].pc \in Resting
                      /\ processTable'[x].startFunc = "NULL" =>
                            ctx'[x].pc = "null_func"
    BY <1>1 DEF Places, Used, PlaceOK, Init1, getProcess
  <2>1. CASE x = c
    <3>1. /\ ctx'[c].pc \in {"null_func", "user", "sentinel"}
          /\ f = "NULL" => ctx'[c].pc = "null_func"
      BY EntryIs
    <3> QED
      BY <2>1, <1>4, <1>6, <3>1
         DEF PlaceOK, LivePCs, Returning, Forking, Resting
  <2>2. CASE x = Current
    <3>1. processTable'[x].startFunc # "NULL" /\ processTable'[x].state # "Terminated"
      BY <2>2, <1>3, <1>4, <1>5
    <3>2. PlaceOK(Current, ctx'[Current], FALSE)
      BY <1>3, <1>7 DEF PlaceOK, LivePCs, InitPCs, Returning, Forking
    <3> QED
      BY <2>2, <3>1, <3>2
  <2>3. CASE x # c /\ x # Current
    <3>1. /\ ctx'[x] = ctx[x] /\ x \in Used
          /\ processTable'[x].state = processTable[x].state
          /\ processTable'[x].startFunc = processTable[x].startFunc
      BY <2>3, <1>5 DEF Used
    <3> QED
      BY <2>3, <3>1 DEF RunInv, Places
  <2> QED
    BY <2>1, <2>2, <2>3
<1>12. Runner'
  BY <1>1, <1>2, <1>4, <1>5 DEF RunInv, Runner
<1>13. ForkInv'
  <2>1. pidCounter' - 1 = pid
    OBVIOUS
  <2>2. ctx'[Current].pc # "fork_link" /\ (ctx'[Current].pc \in Forking =>
            ctx'[Current].pc = "fork_pid")
    BY <1>7 DEF Forking
  <2> QED
    BY <1>1, <1>4, <1>6, <2>1, <2>2 DEF ForkInv
<1>14. CallOK(processTable', Current', ctx'[Current'])
  <2>1. processTable'[Current].state # "Terminated"
    BY <1>2, <1>3, <1>4, <1>5
  <2> QED
    BY <1>1, <1>7, <2>1 DEF CallOK
<1>15. Orphans'
  <2> SUFFICES ASSUME NEW x \in Slots, processTable'[x].isInitialized, x # Init1,
                      processTable'[x].parent = NULL
               PROVE  \/ ctx'[Current].pc \in Forking /\ x = c
                      \/ ~ValidArgs(processTable'[x])
    BY <1>1 DEF Orphans, Used
  <2>1. CASE x = c
    BY <2>1, <1>6 DEF ValidArgs, Forking
  <2>2. CASE x # c
    <3>1. ~ValidArgs(processTable[x])
      BY <2>2, <1>3, <1>5 DEF RunInv, Orphans, Used
    <3> QED
      BY <2>2, <1>5, <3>1 DEF ValidArgs
  <2> QED
    BY <2>1, <2>2
<1>16. Waiting'
  <2> SUFFICES ASSUME NEW x \in Slots, processTable'[x].parent # NULL,
                      processTable'[x].state = "Terminated",
                      processTable'[processTable'[x].parent].state = JoinBlocked
               PROVE  x = Current
    BY <1>1 DEF Waiting
  <2>1. /\ x # c /\ processTable'[x].parent = processTable[x].parent
        /\ processTable[x].parent # c /\ processTable[x].parent # NULL
        /\ processTable[x].state = "Terminated"
    BY <1>5, <1>6
  <2>2. processTable[x].parent \in Slots
    BY <1>3, <2>1, ParentIsUsed
  <2> QED
    BY <1>5, <2>1, <2>2 DEF RunInv, Waiting
<1>17. BootPhase'
  <2>1. pidCounter' <= MaxPid + MAXPROC
    OBVIOUS
  <2>2. ctx'[Init1].pc # "init_sentinel"
    <3>1. CASE Current = Init1
      BY <3>1, <1>7
    <3>2. CASE Current # Init1
      <4>1. ctx'[Init1] = ctx[Init1] /\ ctx[Init1].pc \in Resting
        BY <3>2, <1>2, <1>4 DEF RunInv, Places, Used
      <4> QED
        BY <4>1 DEF Resting
    <3> QED
      BY <3>1, <3>2
  <2>3. ASSUME Booting(ctx'[Init1])
        PROVE  /\ pidCounter' = 3
               /\ \A x \in Slots : processTable'[x].isInitialized =>
                      \/ x = Init1
                      \/ x = getProcess(2) /\ ctx'[x].pc = "sentinel"
    <3>1. CASE Current = Init1
      <4>1. ctx'[Current].pc = "fork_pid" /\ ctx'[Current].ret = "init_testcase"
        BY <2>3, <3>1, <1>3, <1>7 DEF Booting
      <4>2. ctx[Init1].pc = "init_sentinel" /\ pid = 2 /\ f = "sentinel"
        BY <3>1, <4>1
      <4>3. Used = {Init1}
        BY <4>2 DEF RunInv, BootPhase
      <4>4. \A x \in Slots : processTable'[x].isInitialized => x = Init1 \/ x = c
        BY <1>5, <4>3 DEF Used
      <4>5. ctx'[c].pc = "sentinel"
        BY <4>2, EntryIs
      <4> QED
        BY <4>2, <4>4, <4>5
    <3>2. CASE Current # Init1
      <4>1. ctx'[Init1] = ctx[Init1] /\ ctx[Init1].pc \in Resting
        BY <3>2, <1>2, <1>4 DEF RunInv, Places, Used
      <4>2. Booting(ctx[Init1])
        BY <4>1, <2>3
      <4>3. Current = getProcess(2) /\ ctx[Current].pc = "sentinel"
        BY <3>2, <4>2, <1>2 DEF RunInv, BootPhase, Used
      <4> QED
        BY <4>3
    <3> QED
      BY <3>1, <3>2
  <2> QED
    BY <1>1, <2>1, <2>2, <2>3 DEF BootPhase, Used, getProcess
<1>18. RunInv'
  BY <1>8, <1>9, <1>10, <1>11, <1>12, <1>13, <1>14, <1>15, <1>16, <1>17 DEF RunInv
<1>19. Born(c)
  BY <1>4, <1>5, <1>6 DEF Born, CalmBut
<1> QED
  BY <1>18, <1>19 DEF Change

\* The first PIDs keep their numbers as slots.
LEMMA SmallPids == \A n \in 0 .. 3 : getProcess(n) = n /\ n \in Slots
<1>1. MAXPROC \in Nat /\ MAXPROC > 3
  BY MaxprocAssumption, KernelAssumption
<1>2. \A n \in 0 .. 3 : n % MAXPROC = n
  BY <1>1
<1> QED
  BY <1>1, <1>2 DEF getProcess, Slots

\* A caller of createProcess: where it is, and where it goes on.
CreatesFrom(here, f, ok, fail, ret) ==
    /\ ctx[Current].pc = here
    /\ \/ /\ here = "user" /\ f \in {"NULL", "user"} /\ pidCounter <= MaxPid
          /\ ok \in {"fork_pid", "user"} /\ fail = "user" /\ ret = "user"
       \/ /\ here = "init_sentinel" /\ f = "sentinel"
          /\ ok = "fork_pid" /\ ret = "init_testcase"
       \/ /\ here = "init_testcase" /\ f = "testcase_main"
          /\ ok = "fork_pid" /\ ret = "join"

\* While init starts, the first slot tried is free.
LEMMA FirstSlotFree ==
    ASSUME CoreInv, RunInv, runningProcessID # -1,
           ctx[Current].pc \in {"init_sentinel", "init_testcase"}
    PROVE  /\ Current = Init1
           /\ 0 \in FreeSteps(processTable, pidCounter)
           /\ pidCounter = IF ctx[Current].pc = "init_sentinel" THEN 2 ELSE 3
<1>1. PlaceOK(Current, ctx[Current], processTable[Current].state = "Terminated")
  BY WhoRuns
<1>2. Current = Init1
  BY <1>1 DEF PlaceOK, LivePCs, DyingPCs, Returning, Forking
<1>3. pidCounter = IF ctx[Current].pc = "init_sentinel" THEN 2 ELSE 3
  BY <1>2 DEF RunInv, BootPhase, Booting
<1>4. Init1 = 1 /\ getProcess(2) = 2 /\ getProcess(3) = 3 /\ 2 \in Slots /\ 3 \in Slots
  BY SmallPids DEF Init1
<1>5. ~processTable[getProcess(pidCounter)].isInitialized
  <2>1. CASE ctx[Current].pc = "init_sentinel"
    BY <1>2, <1>3, <1>4, <2>1 DEF RunInv, BootPhase, Used
  <2>2. CASE ctx[Current].pc = "init_testcase"
    BY <1>2, <1>3, <1>4, <2>2 DEF RunInv, BootPhase, Booting, Used
  <2> QED
    BY <2>1, <2>2
<1>6. (pidCounter + 0) = pidCounter /\ MAXPROC \in Nat \ {0}
  BY <1>3, MaxprocAssumption
<1>7. 0 \in FreeSteps(processTable, pidCounter)
  BY <1>5, <1>6 DEF FreeSteps, getProcess
<1> QED
  BY <1>2, <1>3, <1>7

\* createProcess, called in one of these places.
LEMMA CreateMoves ==
    ASSUME CoreInv, CoreInv', RunInv, runningProcessID # -1,
           NEW here, NEW pr \in Priorities,
           NEW f \in {"NULL", "user", "sentinel", "testcase_main"},
           NEW ok, NEW fail, NEW ret, ok \in PCs, ret \in PCs,
           CreatesFrom(here, f, ok, fail, ret),
           ok = "user" => ~(pr \in 1 .. 7 /\ f # "NULL"),
           createProcess(pr, f, ok, fail, ret)
    PROVE  RunInv' /\ Change
<1> DEFINE caller(pc) == [ctx EXCEPT ![Current].pc = pc, ![Current].ret = ret]
<1>1. /\ Current \in Slots /\ ctx \in [Slots -> Context] /\ pidCounter \in Nat
      /\ processTable[Current].isInitialized
      /\ pidCounter <= MaxPid + MAXPROC
      /\ PlaceOK(Current, ctx[Current], processTable[Current].state = "Terminated")
      /\ processTable[Init1].state # "Terminated"
  BY WhoRuns
<1>2. MAXPROC \in Nat /\ MAXPROC > 3 /\ MaxPid \in Nat
  BY MaxprocAssumption, KernelAssumption
<1>3. /\ ctx[Current].pc = here
      /\ here \in {"user", "init_sentinel", "init_testcase"}
      /\ Current = Init1 <=> here # "user"
      /\ processTable[Current].state # "Terminated"
  BY <1>1 DEF CreatesFrom, PlaceOK, InitPCs, LivePCs, DyingPCs, Returning, Forking
<1>4. CASE tableFull(caller(fail))
  <2>1. /\ FreeSteps(processTable, pidCounter) = {}
        /\ pidCounter' = pidCounter + MAXPROC
        /\ ctx' = caller(fail)
        /\ UNCHANGED <<processTable, runningProcessID>>
    BY <1>4 DEF tableFull
  <2>2. here = "user" /\ fail = "user" /\ ret = "user" /\ pidCounter <= MaxPid
    BY <1>3, <2>1, FirstSlotFree DEF CreatesFrom
  <2>3. OthersRest /\ ctx'[Current].pc = "user" /\ ctx'[Current].ret = "user"
    BY <1>1, <2>1, <2>2 DEF OthersRest, Context
  <2> HIDE DEF caller
  <2>4. SameButState(Current, processTable[Current].state) /\ processTable' = processTable
    BY <1>1, <2>1, StoreIs
  <2>5. PlaceOK(Current, ctx'[Current], processTable'[Current].state = "Terminated")
    BY <1>3, <2>2, <2>3, <2>4 DEF PlaceOK, LivePCs, Returning, Forking
  <2>6. CallOK(processTable', Current, ctx'[Current])
    BY <1>3, <2>3, <2>4 DEF CallOK
  <2>7. pidCounter <= pidCounter' /\ pidCounter' <= MaxPid + MAXPROC
    BY <1>1, <1>2, <2>1, <2>2
  <2>8. processTable[Current].state # NoName
    BY WhoRuns
  <2> QED
    BY <1>1, <1>3, <2>1, <2>2, <2>3, <2>4, <2>5, <2>6, <2>7, <2>8, CallStep
       DEF Forking, JoinBlocked
<1>5. ASSUME NEW k \in 0 .. MAXPROC - 1, FirstFree(k),
             newProcess(pidCounter + k, pr, f, caller(ok))
      PROVE  RunInv' /\ Change
  <2>1. PICK pid \in Nat : pid = pidCounter + k
    BY <1>1, <1>2
  <2>2. PICK c \in Slots : c = getProcess(pid)
    BY <2>1, SlotOfPid
  <2>3. newProcess(pid, pr, f, caller(ok))
    BY <1>5, <2>1
  <2>4. caller(ok) \in [Slots -> Context]
    <3> DEFINE kk == [ctx[Current] EXCEPT !.pc = ok, !.ret = ret]
    <3>1. kk \in Context
      <4>1. ctx[Current] \in Context /\ ok \in PCs /\ ret \in PCs
        BY <1>1
      <4> QED
        BY <4>1 DEF Context
    <3>2. caller(ok) = [ctx EXCEPT ![Current] = kk]
      BY <1>1
    <3> HIDE DEF kk, caller
    <3> QED
      BY <1>1, <3>1, <3>2
  <2>5. /\ caller(ok)[Current].pc = ok /\ caller(ok)[Current].ret = ret
        /\ \A x \in Slots \ {Current} : caller(ok)[x] = ctx[x]
    BY <1>1 DEF Context
  <2> HIDE DEF caller
  <2>6. f \in StartFuncs
    BY DEF StartFuncs
  <2>7. NewbornIn(c, pid, pr, f)
    BY <2>2, <2>3, <2>4, <2>6, NewProcessIs
  <2>8. /\ ctx'[c] = Start(EntryPoint(f))
        /\ pidCounter' = pid + 1 /\ UNCHANGED runningProcessID
    BY <2>2, <2>3, <2>4, <2>6, NewProcessIs
  <2>9. \A x \in Slots : x # c => ctx'[x] = caller(ok)[x]
    BY <2>2, <2>3, <2>4, <2>6, NewProcessIs
  <2>10. ~processTable[c].isInitialized /\ c # Current
    BY <1>1, <1>5, <2>1, <2>2 DEF FirstFree, FreeSteps, getProcess
  <2>11. /\ ctx'[Current].pc = ok /\ ctx'[Current].ret = ret
         /\ \A x \in Slots : x # c /\ x # Current => ctx'[x] = ctx[x]
    BY <1>1, <2>5, <2>9, <2>10
  <2>12. pidCounter <= pid
    BY <1>1, <2>1
  <2>13. here = "user" => pid + 1 <= MaxPid + MAXPROC
    BY <1>1, <1>2, <2>1 DEF CreatesFrom
  <2>14. here # "user" => /\ pid + 1 <= MaxPid + MAXPROC
                          /\ here = "init_sentinel" => pid = 2
    <3> SUFFICES ASSUME here # "user"
                 PROVE  /\ pid + 1 <= MaxPid + MAXPROC
                        /\ here = "init_sentinel" => pid = 2
      OBVIOUS
    <3>1. /\ 0 \in FreeSteps(processTable, pidCounter)
          /\ pidCounter = IF here = "init_sentinel" THEN 2 ELSE 3
      BY <1>3, FirstSlotFree
    <3>2. k <= 0
      BY <1>5, <3>1 DEF FirstFree
    <3>3. pid = pidCounter
      BY <1>1, <2>1, <3>2
    <3> QED
      BY <1>2, <3>1, <3>3
  <2>15. \/ ctx'[Current].pc = "fork_pid"
         \/ /\ ctx'[Current].pc = "user"
            /\ ~(pr \in 1 .. 7 /\ f # "NULL")
    BY <2>11 DEF CreatesFrom
  <2>16. /\ here = "user" => ret = "user"
         /\ here # "user" => ok = "fork_pid" /\ ret \in {"init_testcase", "join"}
         /\ ret = "init_testcase" => here = "init_sentinel" /\ f = "sentinel"
    BY <1>3 DEF CreatesFrom
  <2>17. /\ pid + 1 <= MaxPid + MAXPROC
         /\ ret = "init_testcase" => pid = 2
    BY <2>13, <2>14, <2>16
  <2> QED
    BY <1>3, <2>2, <2>7, <2>8, <2>10, <2>11, <2>12, <2>15, <2>16, <2>17, BirthStep
<1> QED
  BY <1>4, <1>5 DEF createProcess

\* fork1 as far as createProcess goes, called by a user program or by init.
LEMMA ForksMove ==
    ASSUME CoreInv, CoreInv', RunInv, runningProcessID # -1,
           (\E a \in ForkArgs : Fork1(a)) \/ InitForksSentinel \/ InitForksTestcase
    PROVE  RunInv' /\ Change
<1>1. {"fork_pid", "user", "init_testcase", "join"} \subseteq PCs
  BY DEF PCs
<1>2. 3 \in Priorities /\ 7 \in Priorities
  BY DEF Priorities
<1>3. ASSUME NEW a \in ForkArgs, Fork1(a)
      PROVE  RunInv' /\ Change
  <2>1. a.priority \in Priorities /\ a.startFunc \in {"NULL", "user"}
    BY KernelAssumption
  <2> DEFINE ok == IF ValidArgs(a) THEN "fork_pid" ELSE "user"
  <2>2. /\ ctx[Current].pc = "user" /\ pidCounter <= MaxPid
        /\ createProcess(a.priority, a.startFunc, ok, "user", "user")
    BY <1>3 DEF Fork1, At
  <2>3. /\ ok \in {"fork_pid", "user"}
        /\ ok = "user" => ~(a.priority \in 1 .. 7 /\ a.startFunc # "NULL")
    BY DEF ValidArgs
  <2> HIDE DEF ok
  <2>4. CreatesFrom("user", a.startFunc, ok, "user", "user")
    BY <2>1, <2>2, <2>3 DEF CreatesFrom
  <2>5. PICK pr \in Priorities : pr = a.priority
    BY <2>1
  <2>6. PICK f \in {"NULL", "user"} : f = a.startFunc
    BY <2>1
  <2>7. ok \in PCs
    BY <1>1, <2>3
  <2>8. createProcess(pr, f, ok, "user", "user") /\ CreatesFrom("user", f, ok, "user", "user")
    BY <2>2, <2>4, <2>5, <2>6
  <2>9. ok = "user" => ~(pr \in 1 .. 7 /\ f # "NULL")
    BY <2>3, <2>5, <2>6
  <2> QED
    BY <1>1, <2>7, <2>8, <2>9, CreateMoves
<1>4. CASE InitForksSentinel
  <2>1. /\ createProcess(7, "sentinel", "fork_pid", "init_testcase", "init_testcase")
        /\ CreatesFrom("init_sentinel", "sentinel", "fork_pid", "init_testcase",
                       "init_testcase")
    BY <1>4 DEF InitForksSentinel, At, CreatesFrom
  <2> QED
    BY <1>1, <1>2, <2>1, CreateMoves
<1>5. CASE InitForksTestcase
  <2>1. /\ createProcess(3, "testcase_main", "fork_pid", "join", "join")
        /\ CreatesFrom("init_testcase", "testcase_main", "fork_pid", "join", "join")
    BY <1>5 DEF InitForksTestcase, At, CreatesFrom
  <2> QED
    BY <1>1, <1>2, <2>1, CreateMoves
<1> QED
  BY <1>3, <1>4, <1>5

\* Who is in fork1, and with which child.
LEMMA ForkerIs ==
    ASSUME CoreInv, RunInv, runningProcessID # -1, ctx[Current].pc \in Forking
    PROVE  /\ Current \in Slots /\ Init1 \in Slots
           /\ processTable[Current].state # "Terminated"
           /\ processTable[Current].isInitialized
           /\ NewChild \in Slots /\ NewChild # Current /\ NewChild # Init1
           /\ processTable[NewChild].isInitialized
           /\ processTable[NewChild].PID = pidCounter - 1
           /\ processTable[NewChild].state = "Runnable"
           /\ processTable[NewChild].firstChild = NULL
           /\ processTable[NewChild].parent = IF ctx[Current].pc = "fork_link"
                                              THEN Current ELSE NULL
           /\ ctx[Current].pc # "fork_pid" => ctx[Current].arg = NewChild
           /\ ctx \in [Slots -> Context] /\ pidCounter \in Nat
           /\ pidCounter <= MaxPid + MAXPROC
           /\ processTable \in [Slots -> Process] /\ NULL \notin Slots
<1>1. /\ Current \in Slots /\ Init1 \in Slots
      /\ ctx \in [Slots -> Context] /\ pidCounter \in Nat /\ NULL \notin Slots
      /\ pidCounter <= MaxPid + MAXPROC
      /\ processTable[Current].isInitialized
      /\ processTable[Init1].state # "Terminated"
      /\ PlaceOK(Current, ctx[Current], processTable[Current].state = "Terminated")
  BY WhoRuns
<1>2. processTable[Current].state # "Terminated"
  BY <1>1 DEF PlaceOK, DyingPCs, Forking
<1>3. processTable \in [Slots -> Process]
  BY DEF CoreInv, TypeOK
<1>4. ForkInv
  BY DEF RunInv
<1>5. /\ NewChild \in Slots /\ NewChild # Current /\ NewChild # Init1
      /\ processTable[NewChild].isInitialized
      /\ processTable[NewChild].PID = pidCounter - 1
      /\ processTable[NewChild].state = "Runnable"
      /\ processTable[NewChild].firstChild = NULL
      /\ processTable[NewChild].parent = IF ctx[Current].pc = "fork_link"
                                         THEN Current ELSE NULL
      /\ ctx[Current].pc # "fork_pid" => ctx[Current].arg = NewChild
  BY <1>4 DEF ForkInv
<1> QED
  BY <1>1, <1>2, <1>3, <1>5

\* The invariant after a step of fork1 that leaves alone what a process is and
\* who is alive; the child c gets its parent, or has it already.
LEMMA ForkStep ==
    ASSUME CoreInv, CoreInv', RunInv, runningProcessID # -1,
           UNCHANGED <<runningProcessID, pidCounter>>,
           ctx[Current].pc \in Forking,
           NEW c \in Slots, c = NewChild, NEW parent \in Slots \cup {NULL},
           parent \in {NULL, Current},
           processTable[c].parent # NULL => parent = Current,
           \A x \in Slots :
              /\ processTable'[x].isInitialized = processTable[x].isInitialized
              /\ processTable'[x].PID = processTable[x].PID
              /\ processTable'[x].priority = processTable[x].priority
              /\ processTable'[x].startFunc = processTable[x].startFunc
              /\ processTable'[x].parent =
                    IF x = c THEN parent ELSE processTable[x].parent
              /\ \/ processTable'[x].state = processTable[x].state
                 \/ x = Current /\ processTable'[x].state = "Runnable",
           processTable'[c].state = "Runnable",
           TableOK(Listed', pidCounter), OthersRest,
           ctx'[Current].pc \in {"fork_parent", "fork_link", "dispatch"},
           ctx'[Current].ret = ctx[Current].ret,
           ctx'[Current].pc = "fork_parent" => parent = NULL,
           ctx'[Current].pc # "fork_parent" => parent = Current,
           ctx'[Current].pc # "dispatch" =>
              ctx'[Current].arg = c /\ processTable'[c].firstChild = NULL
    PROVE  RunInv'
<1>1. /\ Current' = Current /\ NewChild' = c /\ Init1' = Init1
  BY DEF Current, NewChild, Init1, getProcess
<1>2. /\ Current \in Slots /\ Init1 \in Slots /\ NULL \notin Slots
      /\ processTable[Current].state # "Terminated"
      /\ processTable[Current].isInitialized
      /\ c # Current /\ c # Init1
      /\ processTable[c].isInitialized
      /\ processTable[c].PID = pidCounter - 1
      /\ processTable[c].state = "Runnable"
      /\ ctx \in [Slots -> Context] /\ pidCounter \in Nat
  BY ForkerIs
<1>3. PlaceOK(Current, ctx[Current], processTable[Current].state = "Terminated")
  BY WhoRuns
<1>4. processTable'[Current].state # "Terminated"
  BY <1>2
<1>5. \A x \in Slots : processTable'[x].state = "Terminated" <=>
                            processTable[x].state = "Terminated"
  BY <1>2
<1>6. \A x \in Slots : processTable'[x].state = JoinBlocked =>
                            processTable[x].state = JoinBlocked
  BY DEF JoinBlocked
<1>7. \A x \in Slots : processTable[x].parent \in Slots \cup {NULL}
  BY DEF CoreInv, TypeOK, Process, Link
<1>8. ParentsLive'
  <2> SUFFICES ASSUME NEW x \in Slots, processTable'[x].parent # NULL
               PROVE  processTable'[processTable'[x].parent].state # "Terminated"
    BY DEF ParentsLive
  <2>1. CASE x = c
    <3>1. processTable'[x].parent = Current
      BY <2>1
    <3> QED
      BY <1>4, <3>1
  <2>2. CASE x # c
    <3>1. processTable'[x].parent = processTable[x].parent
          /\ processTable[x].parent \in Slots
      BY <2>2, <1>7
    <3>2. processTable[processTable[x].parent].state # "Terminated"
      BY <3>1 DEF RunInv, ParentsLive
    <3> QED
      BY <1>5, <3>1, <3>2
  <2> QED
    BY <2>1, <2>2
<1>9. InitStays'
  <2>1. \A x \in Slots \ {Init1} : processTable'[x].startFunc # "init_main"
    BY DEF RunInv, InitStays
  <2>2. /\ processTable'[Init1].isInitialized /\ processTable'[Init1].PID = 1
        /\ processTable'[Init1].parent = NULL
        /\ processTable'[Init1].startFunc = "init_main"
        /\ processTable'[Init1].state # "Terminated"
    BY <1>2, <1>5 DEF RunInv, InitStays
  <2> QED
    BY <1>1, <2>1, <2>2 DEF InitStays
<1>10. Places'
  <2> SUFFICES ASSUME NEW x \in Slots, processTable'[x].isInitialized
               PROVE  /\ PlaceOK(x, ctx'[x], processTable'[x].state = "Terminated")
                      /\ x # Current => ctx'[x].pc \in Resting
                      /\ processTable'[x].startFunc = "NULL" =>
                            ctx'[x].pc = "null_func"
    BY <1>1 DEF Places, Used, PlaceOK, Init1, getProcess
  <2>1. /\ PlaceOK(x, ctx[x], processTable[x].state = "Terminated")
        /\ x # Current => ctx[x].pc \in Resting
        /\ processTable[x].startFunc = "NULL" => ctx[x].pc = "null_func"
    BY DEF RunInv, Places, Used
  <2>2. CASE x = Current
    <3>1. processTable'[x].startFunc # "NULL"
      BY <2>1, <2>2 DEF Forking
    <3>2. PlaceOK(Current, ctx'[Current], processTable'[Current].state = "Terminated")
      BY <1>2, <1>3, <1>4 DEF PlaceOK, InitPCs, LivePCs, Returning, Forking
    <3> QED
      BY <2>2, <3>1, <3>2
  <2>3. CASE x # Current
    <3>1. ctx'[x] = ctx[x] /\ processTable'[x].state = processTable[x].state
      BY <2>3 DEF OthersRest
    <3> QED
      BY <2>1, <2>3, <3>1
  <2> QED
    BY <2>2, <2>3
<1>11. Runner'
  BY <1>1, <1>2 DEF RunInv, Runner
<1>12. ForkInv'
  <2>1. ctx'[Current].pc = "fork_link" => parent = Current
    OBVIOUS
  <2>2. ctx'[Current].pc \in Forking => ctx'[Current].pc # "dispatch"
    BY DEF Forking
  <2>3. ctx'[Current].pc \in Forking /\ ctx'[Current].pc # "fork_link"
            => parent = NULL
    BY DEF Forking
  <2>4. processTable'[c].isInitialized /\ processTable'[c].PID = pidCounter' - 1
        /\ processTable'[c].parent = parent
    BY <1>2
  <2> QED
    BY <1>1, <1>2, <2>1, <2>2, <2>3, <2>4 DEF ForkInv
<1>13. CallOK(processTable', Current', ctx'[Current'])
  BY <1>1, <1>4 DEF CallOK
<1>14. Orphans'
  <2> SUFFICES ASSUME NEW x \in Slots, processTable'[x].isInitialized, x # Init1,
                      processTable'[x].parent = NULL
               PROVE  \/ ctx'[Current].pc \in Forking /\ x = c
                      \/ ~ValidArgs(processTable'[x])
    BY <1>1 DEF Orphans, Used
  <2>1. CASE x = c
    <3>1. parent = NULL
      BY <2>1
    <3>2. ctx'[Current].pc = "fork_parent"
      BY <1>2, <3>1
    <3> QED
      BY <2>1, <3>2 DEF Forking
  <2>2. CASE x # c
    <3>1. ~ValidArgs(processTable[x])
      BY <2>2 DEF RunInv, Orphans, Used
    <3> QED
      BY <3>1 DEF ValidArgs
  <2> QED
    BY <2>1, <2>2
<1>15. Waiting'
  <2> SUFFICES ASSUME NEW x \in Slots, processTable'[x].parent # NULL,
                      processTable'[x].state = "Terminated",
                      processTable'[processTable'[x].parent].state = JoinBlocked
               PROVE  x = Current
    BY <1>1 DEF Waiting
  <2>1. x # c /\ processTable'[x].parent = processTable[x].parent
        /\ processTable[x].parent \in Slots /\ processTable[x].state = "Terminated"
    BY <1>5, <1>7
  <2>2. processTable[processTable[x].parent].state = JoinBlocked
    BY <1>6, <2>1
  <2> QED
    BY <1>2, <2>1, <2>2 DEF RunInv, Waiting
<1>16. BootPhase'
  <2>1. \A x \in Slots : x \in Used' <=> x \in Used
    BY DEF Used
  <2>2. CASE Current = Init1
    <3>1. ctx'[Init1].pc # "init_sentinel"
      BY <2>2
    <3>2. ASSUME Booting(ctx'[Init1])
          PROVE  /\ pidCounter' = 3
                 /\ \A x \in Used' : x = Init1
                       \/ (x = getProcess(2) /\ ctx'[x].pc = "sentinel")
      <4>1. Booting(ctx[Init1])
        BY <2>2, <3>2 DEF Booting, Returning
      <4>2. /\ pidCounter = 3
            /\ \A x \in Used : x = Init1
                  \/ (x = getProcess(2) /\ ctx[x].pc = "sentinel")
        BY <4>1 DEF RunInv, BootPhase
      <4>3. \A x \in Used' : x \in Slots /\ x \in Used
        BY <2>1 DEF Used
      <4>4. \A x \in Slots : x # Init1 => ctx'[x] = ctx[x]
        BY <2>2 DEF OthersRest
      <4> QED
        BY <4>2, <4>3, <4>4
    <3> QED
      BY <1>1, <3>1, <3>2 DEF BootPhase, getProcess, RunInv
  <2>3. CASE Current # Init1
    <3>1. ctx'[Init1] = ctx[Init1]
      BY <1>2, <2>3 DEF OthersRest
    <3>2. Current \in Used
      BY <1>2 DEF Used
    <3>3. ctx[Init1].pc # "init_sentinel" /\ ~Booting(ctx[Init1])
      BY <2>3, <3>2 DEF RunInv, BootPhase, Forking
    <3> QED
      BY <1>1, <3>1, <3>3 DEF BootPhase, Booting, RunInv
  <2> QED
    BY <2>2, <2>3
<1>17. TableOK(Listed', pidCounter')
  OBVIOUS
<1> QED
  BY <1>8, <1>9, <1>10, <1>11, <1>12, <1>13, <1>14, <1>15, <1>16, <1>17 DEF RunInv

\* createProcess has returned the PID of the child.
LEMMA ForkPidMoves ==
    ASSUME CoreInv, CoreInv', RunInv, runningProcessID # -1, ForkPid
    PROVE  RunInv' /\ Change
<1>1. /\ ctx[Current].pc = "fork_pid" /\ ctx[Current].pc \in Forking
      /\ Call("fork_parent", NewChild, ctx[Current].ret)
      /\ UNCHANGED <<processTable, runningProcessID, pidCounter>>
  BY DEF ForkPid, At, NewChild, Forking
<1>2. /\ Current \in Slots /\ ctx \in [Slots -> Context]
      /\ NewChild \in Slots /\ processTable[NewChild].parent = NULL
      /\ processTable[NewChild].state = "Runnable"
      /\ processTable[NewChild].firstChild = NULL
  BY <1>1, ForkerIs
<1>3. PICK c \in Slots : c = NewChild
  BY <1>2
<1>4. /\ OthersRest /\ ctx'[Current].pc = "fork_parent"
      /\ ctx'[Current].arg = c /\ ctx'[Current].ret = ctx[Current].ret
  BY <1>1, <1>2, <1>3, CallIs
<1>5. TableOK(Listed', pidCounter)
  <2>1. Current' = Current
    BY <1>1 DEF Current, getProcess
  <2>2. Listed' = processTable /\ TableOK(processTable, pidCounter)
    BY <1>1, <1>4, <2>1, ListedIs, WhoRuns
  <2> QED
    BY <2>2
<1>6. PICK parent \in Slots \cup {NULL} : parent = NULL
  OBVIOUS
<1>7. processTable[c].parent = NULL /\ processTable[c].firstChild = NULL
      /\ processTable[c].state = "Runnable"
  BY <1>2, <1>3
<1>8. \A x \in Slots :
              /\ processTable'[x].isInitialized = processTable[x].isInitialized
              /\ processTable'[x].PID = processTable[x].PID
              /\ processTable'[x].priority = processTable[x].priority
              /\ processTable'[x].startFunc = processTable[x].startFunc
              /\ processTable'[x].parent =
                    IF x = c THEN parent ELSE processTable[x].parent
              /\ \/ processTable'[x].state = processTable[x].state
                 \/ x = Current /\ processTable'[x].state = "Runnable"
  BY <1>1, <1>6, <1>7
<1>9. processTable'[c].state = "Runnable" /\ processTable'[c].firstChild = NULL
  BY <1>1, <1>7
<1>10. RunInv'
  BY <1>1, <1>3, <1>4, <1>5, <1>6, <1>7, <1>8, <1>9, ForkStep
<1>11. Calm
  BY <1>1 DEF Calm
<1> QED
  BY <1>10, <1>11 DEF Change

\* The child gets its parent.
LEMMA ForkParentMoves ==
    ASSUME CoreInv, CoreInv', RunInv, runningProcessID # -1, ForkParent
    PROVE  RunInv' /\ Change
<1>1. /\ ctx[Current].pc = "fork_parent" /\ ctx[Current].pc \in Forking
      /\ processTable' = [processTable EXCEPT ![ctx[Current].arg].parent = Current]
      /\ Goto("fork_link")
      /\ UNCHANGED <<runningProcessID, pidCounter>>
  BY DEF ForkParent, At, Forking
<1>2. /\ Current \in Slots /\ ctx \in [Slots -> Context]
      /\ NewChild \in Slots /\ NewChild # Current /\ NewChild # Init1
      /\ processTable[NewChild].isInitialized
      /\ processTable[NewChild].PID = pidCounter - 1
      /\ processTable[NewChild].parent = NULL
      /\ processTable[NewChild].state = "Runnable"
      /\ processTable[NewChild].firstChild = NULL
      /\ ctx[Current].arg = NewChild
      /\ processTable \in [Slots -> Process]
      /\ processTable[Current].state # "Terminated"
      /\ pidCounter \in Nat /\ pidCounter <= MaxPid + MAXPROC /\ NULL \notin Slots
  BY <1>1, ForkerIs
<1>3. PICK c \in Slots : c = NewChild
  BY <1>2
<1>4. PICK parent \in Slots \cup {NULL} : parent = Current
  BY <1>2
<1>5. /\ OthersRest /\ ctx'[Current].pc = "fork_link"
      /\ ctx'[Current].arg = c /\ ctx'[Current].ret = ctx[Current].ret
  BY <1>1, <1>2, <1>3, GotoIs
<1>6. processTable' = [processTable EXCEPT ![c].parent = Current]
  BY <1>1, <1>2, <1>3
<1>7. \A x \in Slots :
              /\ processTable'[x].isInitialized = processTable[x].isInitialized
              /\ processTable'[x].PID = processTable[x].PID
              /\ processTable'[x].priority = processTable[x].priority
              /\ processTable'[x].startFunc = processTable[x].startFunc
              /\ processTable'[x].parent =
                    IF x = c THEN parent ELSE processTable[x].parent
              /\ processTable'[x].state = processTable[x].state
              /\ processTable'[x].firstChild = processTable[x].firstChild
              /\ processTable'[x].nextSibling = processTable[x].nextSibling
              /\ processTable'[x].prevSibling = processTable[x].prevSibling
  BY <1>2, <1>4, <1>6 DEF Process
<1>8. /\ processTable[c].parent = NULL /\ processTable[c].state = "Runnable"
      /\ processTable[c].firstChild = NULL
      /\ processTable[c].isInitialized /\ processTable[c].PID = pidCounter - 1
      /\ c # Current /\ c # Init1
  BY <1>2, <1>3
<1>9. TableOK(Listed', pidCounter)
  <2> DEFINE u == [processTable' EXCEPT ![c].parent = NULL]
  <2>1. /\ Current' = Current /\ NewChild' = c
    BY <1>1, <1>3 DEF Current, NewChild, getProcess
  <2>2. Listed' = u
    BY <1>5, <2>1 DEF Listed
  <2>3. processTable' \in [Slots -> Process]
    BY DEF CoreInv, TypeOK
  <2>4. u \in [Slots -> Process]
    <3>1. [processTable'[c] EXCEPT !.parent = NULL] \in Process
      BY <2>3 DEF Process, Link
    <3> QED
      BY <2>3, <3>1
  <2>5. ASSUME NEW x \in Slots
        PROVE  /\ Kin(processTable'[x], u[x]) \/ x = c
               /\ u[x].state = processTable[x].state
               /\ Kin(processTable[x], u[x])
    BY <1>7, <1>8, <2>3 DEF Kin, Process
  <2>6. TableOK(processTable, pidCounter)
    BY <1>1, WhoRuns
  <2>7. \A x \in Slots : processTable[x].state = NoName <=>
                              ~processTable[x].isInitialized
    BY WhoRuns
  <2> HIDE DEF u
  <2>8. \A x \in Slots : /\ Kin(processTable[x], u[x])
                         /\ u[x].state = NoName <=> ~processTable[x].isInitialized
    BY <2>5, <2>7
  <2>9. pidCounter <= pidCounter
    BY <1>2
  <2>10. TableOK(u, pidCounter)
    BY <1>2, <2>4, <2>6, <2>8, <2>9, TableStays
  <2> QED
    BY <2>2, <2>10
<1>10. \A x \in Slots :
              /\ processTable'[x].isInitialized = processTable[x].isInitialized
              /\ processTable'[x].PID = processTable[x].PID
              /\ processTable'[x].priority = processTable[x].priority
              /\ processTable'[x].startFunc = processTable[x].startFunc
              /\ processTable'[x].parent =
                    IF x = c THEN parent ELSE processTable[x].parent
              /\ \/ processTable'[x].state = processTable[x].state
                 \/ x = Current /\ processTable'[x].state = "Runnable"
  BY <1>7
<1>11. processTable'[c].state = "Runnable" /\ processTable'[c].firstChild = NULL
  BY <1>7, <1>8
<1>12. RunInv'
  BY <1>1, <1>3, <1>4, <1>5, <1>8, <1>9, <1>10, <1>11, ForkStep
<1>13. CalmBut(c)
  BY <1>7 DEF CalmBut
<1>14. Joins(c)
  <2>1. processTable[c].PID <= MaxPid + MAXPROC
    <3>1. MaxPid \in Nat /\ MAXPROC \in Nat
      BY MaxprocAssumption, KernelAssumption
    <3> QED
      BY <1>2, <1>8, <3>1
  <2>2. processTable'[c].parent = Current /\ processTable'[c].isInitialized
        /\ processTable'[c].PID = processTable[c].PID
    BY <1>4, <1>7, <1>8
  <2> QED
    BY <1>1, <1>2, <1>8, <1>11, <1>13, <2>1, <2>2 DEF Joins
<1> QED
  BY <1>12, <1>14 DEF Change

\* The child goes to the head of the list of its parent, which marks itself
\* Runnable.
LEMMA ForkLinkMoves ==
    ASSUME CoreInv, CoreInv', RunInv, runningProcessID # -1, ForkLink
    PROVE  RunInv' /\ Change
<1> DEFINE first == processTable[Current].firstChild
<1>1. /\ ctx[Current].pc = "fork_link" /\ ctx[Current].pc \in Forking
      /\ Goto("dispatch")
      /\ UNCHANGED <<runningProcessID, pidCounter>>
  BY DEF ForkLink, At, Forking
<1>2. /\ Current \in Slots /\ ctx \in [Slots -> Context]
      /\ NewChild \in Slots /\ NewChild # Current /\ NewChild # Init1
      /\ processTable[NewChild].isInitialized
      /\ processTable[Current].isInitialized
      /\ processTable[NewChild].PID = pidCounter - 1
      /\ processTable[NewChild].parent = Current
      /\ processTable[NewChild].state = "Runnable"
      /\ processTable[NewChild].firstChild = NULL
      /\ ctx[Current].arg = NewChild
      /\ processTable \in [Slots -> Process]
      /\ processTable[Current].state # "Terminated"
      /\ pidCounter \in Nat /\ NULL \notin Slots
  BY <1>1, ForkerIs
<1>3. PICK c \in Slots : c = NewChild
  BY <1>2
<1>4. PICK parent \in Slots \cup {NULL} : parent = Current
  BY <1>2
<1>5. /\ OthersRest /\ ctx'[Current].pc = "dispatch"
      /\ ctx'[Current].ret = ctx[Current].ret
  BY <1>1, <1>2, GotoIs
<1>6. ctx[Current].arg = c
  BY <1>2, <1>3
<1>7. processTable' = [x \in Slots |->
            [processTable[x] EXCEPT
                !.firstChild = IF x = Current THEN c ELSE @,
                !.state = IF x = Current THEN "Runnable" ELSE @,
                !.prevSibling = IF x = first THEN c ELSE @,
                !.nextSibling = IF x = c /\ first # NULL
                                THEN first ELSE @]]
  BY <1>6 DEF ForkLink
<1> HIDE DEF first
<1>8. ASSUME NEW x \in Slots
      PROVE  /\ processTable'[x].isInitialized = processTable[x].isInitialized
             /\ processTable'[x].PID = processTable[x].PID
             /\ processTable'[x].priority = processTable[x].priority
             /\ processTable'[x].startFunc = processTable[x].startFunc
             /\ processTable'[x].parent = processTable[x].parent
             /\ processTable'[x].state = IF x = Current THEN "Runnable"
                                         ELSE processTable[x].state
             /\ processTable'[x].firstChild = IF x = Current THEN c
                                              ELSE processTable[x].firstChild
             /\ processTable'[x].prevSibling = IF x = first THEN c
                                               ELSE processTable[x].prevSibling
             /\ processTable'[x].nextSibling = IF x = c /\ first # NULL THEN first
                                               ELSE processTable[x].nextSibling
  <2>1. processTable[x] \in Process
    BY <1>2
  <2> QED
    BY <1>7, <2>1 DEF Process
<1>9. /\ processTable[c].parent = Current /\ processTable[c].state = "Runnable"
      /\ processTable[c].firstChild = NULL
      /\ processTable[c].isInitialized /\ processTable[c].PID = pidCounter - 1
      /\ c # Current /\ c # Init1
  BY <1>2, <1>3
<1>10. TableOK(Listed', pidCounter)
  <2> DEFINE t == [processTable EXCEPT ![c].parent = NULL]
  <2>1. Listed = t /\ TableOK(t, pidCounter)
    BY <1>1, <1>3 DEF Listed, RunInv
  <2>2. ASSUME NEW x \in Slots
        PROVE  /\ t[x].isInitialized = processTable[x].isInitialized
               /\ t[x].PID = processTable[x].PID
               /\ t[x].startFunc = processTable[x].startFunc
               /\ t[x].state = processTable[x].state
               /\ t[x].parent = IF x = c THEN NULL ELSE processTable[x].parent
               /\ t[x].firstChild = processTable[x].firstChild
               /\ t[x].nextSibling = processTable[x].nextSibling
               /\ t[x].prevSibling = processTable[x].prevSibling
    BY <1>2 DEF Process
  <2>3. processTable' \in [Slots -> Process]
    BY DEF CoreInv, TypeOK
  <2> HIDE DEF t
  <2>4. t[Current].firstChild = first
    BY <1>2, <2>2 DEF first
  <2>5. Adopted(t, Current, c, processTable')
    <3> SUFFICES ASSUME NEW x \in Slots
                 PROVE  /\ processTable'[x].isInitialized = t[x].isInitialized
                        /\ processTable'[x].PID = t[x].PID
                        /\ processTable'[x].startFunc = t[x].startFunc
                        /\ processTable'[x].parent = IF x = c THEN Current
                                                     ELSE t[x].parent
                        /\ processTable'[x].prevSibling =
                              IF x = first THEN c ELSE t[x].prevSibling
                        /\ processTable'[x].nextSibling =
                              IF x = c /\ first # NULL THEN first ELSE t[x].nextSibling
                        /\ processTable'[x].firstChild =
                              IF x = Current THEN c ELSE t[x].firstChild
      BY <2>4 DEF Adopted
    <3> QED
      BY <1>8, <1>9, <2>2
  <2>6. /\ t[Current].isInitialized /\ t[c].isInitialized
        /\ t[c].parent = NULL /\ t[c].firstChild = NULL
        /\ pidCounter = t[c].PID + 1
    BY <1>2, <1>9, <2>2
  <2>7. processTable[Current].state # NoName
    BY WhoRuns
  <2>8. \A x \in Slots : processTable'[x].state = NoName <=> t[x].state = NoName
    BY <1>8, <2>2, <2>7, NamesDiffer
  <2>9. TableOK(processTable', pidCounter)
    BY <1>2, <1>9, <2>1, <2>3, <2>5, <2>6, <2>8, AdoptedInTable
  <2>10. Current' = Current
    BY <1>1 DEF Current, getProcess
  <2> QED
    BY <1>5, <2>9, <2>10, ListedIs
<1>11. \A x \in Slots :
              /\ processTable'[x].isInitialized = processTable[x].isInitialized
              /\ processTable'[x].PID = processTable[x].PID
              /\ processTable'[x].priority = processTable[x].priority
              /\ processTable'[x].startFunc = processTable[x].startFunc
              /\ processTable'[x].parent =
                    IF x = c THEN parent ELSE processTable[x].parent
              /\ \/ processTable'[x].state = processTable[x].state
                 \/ x = Current /\ processTable'[x].state = "Runnable"
  BY <1>4, <1>8, <1>9
<1>12. processTable'[c].state = "Runnable"
  BY <1>8, <1>9
<1>13. RunInv'
  BY <1>1, <1>3, <1>4, <1>5, <1>9, <1>10, <1>11, <1>12, ForkStep
<1>14. Calm
  BY <1>2, <1>8 DEF Calm
<1> QED
  BY <1>13, <1>14 DEF Change

-----------------------------------------------------------------------------
(***************************************************************************)
(* The steps that collect a child, and that switch to another process.     *)
(***************************************************************************)
\* join reaps the child that its scan has found.
LEMMA ReapMoves ==
    ASSUME CoreInv, CoreInv', RunInv, runningProcessID # -1,
           ctx[Current].pc = "join", UNCHANGED <<runningProcessID, pidCounter>>,
           NEW c \in Slots, processTable[c].parent = Current,
           processTable[c].state = "Terminated",
           Reap(c), Goto(AfterJoin(Current))
    PROVE  RunInv' /\ Change
<1>1. /\ Current' = Current /\ Init1' = Init1
  BY DEF Current, Init1, getProcess
<1>2. /\ Current \in Slots /\ Init1 \in Slots /\ NULL \notin Slots
      /\ processTable[Current].isInitialized
      /\ ctx \in [Slots -> Context] /\ pidCounter \in Nat
      /\ processTable[Init1].state # "Terminated"
      /\ processTable \in [Slots -> Process]
  <2>1. processTable \in [Slots -> Process]
    BY DEF CoreInv, TypeOK
  <2> QED
    BY <2>1, WhoRuns
<1>3. /\ processTable[Current].state # "Terminated"
      /\ AfterJoin(Current) = IF Current = Init1 THEN "init_loop" ELSE "user"
      /\ TableOK(processTable, pidCounter)
  BY JoinerIs
<1>4. /\ OthersRest
      /\ ctx'[Current].pc = IF Current = Init1 THEN "init_loop" ELSE "user"
  BY <1>2, <1>3, GotoIs
<1>5. c # Current /\ c # Init1 /\ c # NULL /\ Current # NULL
  BY <1>2, <1>3
\* A dead process has no children.
<1>6. processTable[c].isInitialized
  BY <1>3, <1>5, ParentIsUsed
<1>7. \A x \in Slots : processTable[x].parent # c
  BY <1>5 DEF RunInv, ParentsLive
<1>8. processTable[c].firstChild = NULL
  <2> SUFFICES ASSUME processTable[c].firstChild # NULL PROVE FALSE
    OBVIOUS
  <2>1. processTable[c].firstChild \in Slots
        /\ processTable[processTable[c].firstChild].parent = c
    BY <1>3, TableFields DEF Linked
  <2> QED
    BY <1>7, <2>1
<1>9. processTable'[c] = Blank
  BY DEF Reap
<1>10. ASSUME NEW x \in Slots, x # c
      PROVE  /\ processTable'[x].isInitialized = processTable[x].isInitialized
             /\ processTable'[x].PID = processTable[x].PID
             /\ processTable'[x].priority = processTable[x].priority
             /\ processTable'[x].startFunc = processTable[x].startFunc
             /\ processTable'[x].parent = processTable[x].parent
             /\ processTable'[x].state = processTable[x].state
             /\ processTable'[x].nextSibling =
                    IF x = processTable[c].prevSibling
                    THEN processTable[c].nextSibling ELSE processTable[x].nextSibling
             /\ processTable'[x].firstChild =
                    IF x = Current /\ processTable[c].prevSibling = NULL
                    THEN processTable[c].nextSibling ELSE processTable[x].firstChild
             /\ processTable'[x].prevSibling =
                    IF x = processTable[c].nextSibling
                    THEN processTable[c].prevSibling ELSE processTable[x].prevSibling
  <2>1. processTable[x] \in Process
    BY <1>2
  <2>2. processTable'[x] =
            [processTable[x] EXCEPT
                !.nextSibling = IF x = processTable[c].prevSibling
                                THEN processTable[c].nextSibling ELSE @,
                !.firstChild = IF x = Current /\ processTable[c].prevSibling = NULL
                               THEN processTable[c].nextSibling ELSE @,
                !.prevSibling = IF x = processTable[c].nextSibling
                                THEN processTable[c].prevSibling ELSE @]
    BY <1>10 DEF Reap
  <2> QED
    BY <2>1, <2>2 DEF Process
<1>11. ~processTable'[c].isInitialized /\ processTable'[c].parent = NULL
  BY <1>9, BlankIsFree DEF FreeSlot
<1>12. TableOK(Listed', pidCounter')
  <2>1. Unlinked(processTable, Current, c, processTable')
    BY <1>9, <1>10 DEF Unlinked
  <2>2. processTable' \in [Slots -> Process]
    BY DEF CoreInv, TypeOK
  <2>3. TableOK(processTable', pidCounter)
    BY <1>2, <1>3, <1>6, <1>8, <2>1, <2>2, UnlinkedInTable
  <2>4. Listed' = processTable'
    BY <1>1, <1>4, ListedIs
  <2> QED
    BY <2>3, <2>4
<1>13. ParentsLive'
  <2> SUFFICES ASSUME NEW x \in Slots, processTable'[x].parent # NULL
               PROVE  processTable'[processTable'[x].parent].state # "Terminated"
    BY DEF ParentsLive
  <2>1. x # c /\ processTable'[x].parent = processTable[x].parent
    BY <1>10, <1>11
  <2>2. processTable[x].parent \in Slots /\ processTable[x].parent # c
        /\ processTable[processTable[x].parent].state # "Terminated"
    BY <1>3, <1>7, <2>1, ParentIsUsed DEF RunInv, ParentsLive
  <2> QED
    BY <1>10, <2>1, <2>2
<1>14. InitStays'
  <2>1. \A x \in Slots \ {Init1} : processTable'[x].startFunc # "init_main"
    <3>1. processTable'[c].startFunc # "init_main"
      BY <1>9, BlankIsFree DEF FreeSlot, NoName
    <3> QED
      BY <1>10, <3>1 DEF RunInv, InitStays
  <2>2. /\ processTable'[Init1].isInitialized /\ processTable'[Init1].PID = 1
        /\ processTable'[Init1].parent = NULL
        /\ processTable'[Init1].startFunc = "init_main"
        /\ processTable'[Init1].state # "Terminated"
    BY <1>2, <1>5, <1>10 DEF RunInv, InitStays
  <2> QED
    BY <1>1, <2>1, <2>2 DEF InitStays
<1>15. Places'
  <2> SUFFICES ASSUME NEW x \in Slots, processTable'[x].isInitialized
               PROVE  /\ PlaceOK(x, ctx'[x], processTable'[x].state = "Terminated")
                      /\ x # Current => ctx'[x].pc \in Resting
                      /\ processTable'[x].startFunc = "NULL" =>
                            ctx'[x].pc = "null_func"
    BY <1>1 DEF Places, Used, PlaceOK, Init1, getProcess
  <2>1. x # c
    BY <1>11
  <2>2. /\ PlaceOK(x, ctx[x], processTable[x].state = "Terminated")
        /\ x # Current => ctx[x].pc \in Resting
        /\ processTable[x].startFunc = "NULL" => ctx[x].pc = "null_func"
    BY <1>10, <2>1 DEF RunInv, Places, Used
  <2>3. CASE x = Current
    <3>1. processTable'[x].startFunc # "NULL" /\ processTable'[x].state # "Terminated"
      BY <1>3, <1>10, <2>1, <2>2, <2>3
    <3>2. PlaceOK(Current, ctx'[Current], FALSE)
      BY <1>4 DEF PlaceOK, InitPCs, LivePCs, Returning, Forking
    <3> QED
      BY <2>3, <3>1, <3>2
  <2>4. CASE x # Current
    <3>1. ctx'[x] = ctx[x] /\ processTable'[x].state = processTable[x].state
          /\ processTable'[x].startFunc = processTable[x].startFunc
      BY <1>4, <1>10, <2>1, <2>4 DEF OthersRest
    <3> QED
      BY <2>2, <2>4, <3>1
  <2> QED
    BY <2>3, <2>4
<1>16. Runner'
  BY <1>1, <1>2, <1>5, <1>10 DEF RunInv, Runner
<1>17. ForkInv'
  BY <1>1, <1>4 DEF ForkInv, Forking
<1>18. CallOK(processTable', Current', ctx'[Current'])
  <2>1. processTable'[Current].state # "Terminated"
    BY <1>2, <1>3, <1>5, <1>10
  <2> QED
    BY <1>1, <1>4, <2>1 DEF CallOK
<1>19. Orphans'
  <2> SUFFICES ASSUME NEW x \in Slots, processTable'[x].isInitialized, x # Init1,
                      processTable'[x].parent = NULL
               PROVE  ~ValidArgs(processTable'[x])
    BY <1>1 DEF Orphans, Used
  <2>1. x # c
    BY <1>11
  <2>2. ~ValidArgs(processTable[x])
    BY <1>10, <2>1 DEF RunInv, Orphans, Used, Forking
  <2> QED
    BY <1>10, <2>1, <2>2 DEF ValidArgs
<1>20. Waiting'
  <2> SUFFICES ASSUME NEW x \in Slots, processTable'[x].parent # NULL,
                      processTable'[x].state = "Terminated",
                      processTable'[processTable'[x].parent].state = JoinBlocked
               PROVE  x = Current
    BY <1>1 DEF Waiting
  <2>1. x # c /\ processTable'[x].parent = processTable[x].parent
        /\ processTable'[x].state = processTable[x].state
    BY <1>10, <1>11
  <2>2. processTable[x].parent \in Slots /\ processTable[x].parent # c
    BY <1>3, <1>7, <2>1, ParentIsUsed
  <2>3. processTable[processTable[x].parent].state = JoinBlocked
    BY <1>10, <2>1, <2>2
  <2> QED
    BY <2>1, <2>3 DEF RunInv, Waiting
<1>21. BootPhase'
  <2>1. pidCounter' <= MaxPid + MAXPROC
    BY DEF RunInv, BootPhase
  <2>2. CASE Current = Init1
    BY <1>1, <1>4, <2>1, <2>2 DEF BootPhase, Booting, Returning, Forking
  <2>3. CASE Current # Init1
    <3>1. ctx'[Init1] = ctx[Init1]
      BY <1>2, <1>4, <2>3 DEF OthersRest
    <3>2. Current \in Used
      BY <1>2 DEF Used
    <3>3. ctx[Init1].pc # "init_sentinel" /\ ~Booting(ctx[Init1])
      BY <2>3, <3>2 DEF RunInv, BootPhase
    <3> QED
      BY <1>1, <2>1, <3>1, <3>3 DEF BootPhase, Booting
  <2> QED
    BY <2>2, <2>3
<1>22. RunInv'
  BY <1>12, <1>13, <1>14, <1>15, <1>16, <1>17, <1>18, <1>19, <1>20, <1>21 DEF RunInv
<1>23. CalmBut(c)
  BY <1>10 DEF CalmBut
<1>24. Collects(c)
  BY <1>5, <1>6, <1>7, <1>9, <1>23 DEF Collects
<1> QED
  BY <1>22, <1>24 DEF Change

\* join, whatever it finds.
LEMMA JoinKeepsTree ==
    ASSUME CoreInv, CoreInv', RunInv, runningProcessID # -1, Join
    PROVE  RunInv' /\ Change
<1>1. ctx[Current].pc = "join" /\ UNCHANGED <<runningProcessID, pidCounter>>
  BY DEF Join, At
<1>2. CASE FirstDeadChild = NULL \/ processTable[Current].firstChild = NULL
  BY <1>2, JoinMoves
<1>3. CASE FirstDeadChild # NULL /\ processTable[Current].firstChild # NULL
  <2> DEFINE found == FirstDeadChild
  <2>1. /\ found \in JoinStops /\ processTable[found].parent = Current
        /\ processTable[found].state = "Terminated"
    BY <1>1, <1>3, JoinScan
  <2>2. found \in Slots
    BY <2>1 DEF JoinStops
  <2>3. Reap(found) /\ Goto(AfterJoin(Current))
    BY <1>3, <2>1 DEF Join
  <2> HIDE DEF found
  <2> QED
    BY <1>1, <2>1, <2>2, <2>3, ReapMoves
<1> QED
  BY <1>2, <1>3

\* The dispatcher switches to x.
LEMMA SwitchMoves ==
    ASSUME CoreInv, CoreInv', RunInv, runningProcessID # -1,
           ctx[Current].pc = "dispatch", UNCHANGED pidCounter,
           NEW x \in Slots, processTable[x].state = "Runnable",
           runProcess(Mem, [ctx EXCEPT ![Current].pc = ctx[Current].ret],
                      processTable[x].PID)
    PROVE  RunInv' /\ Change
<1> DEFINE c == [ctx EXCEPT ![Current].pc = ctx[Current].ret]
<1>1. /\ Current \in Slots /\ Init1 \in Slots /\ NULL \notin Slots
      /\ processTable[Current].isInitialized
      /\ ctx \in [Slots -> Context] /\ pidCounter \in Nat
      /\ processTable[Init1].state # "Terminated"
      /\ PlaceOK(Current, ctx[Current], processTable[Current].state = "Terminated")
      /\ CallOK(processTable, Current, ctx[Current])
      /\ processTable[Current].startFunc # "NULL"
      /\ TableOK(processTable, pidCounter)
      /\ processTable \in [Slots -> Process]
  <2>1. processTable \in [Slots -> Process]
    BY DEF CoreInv, TypeOK
  <2> QED
    BY <2>1, WhoRuns
<1>2. /\ processTable[x].isInitialized
      /\ \A y \in Slots : processTable[y].isInitialized <=>
                               processTable[y].state # NoName
  BY WhoRuns, NamesDiffer
<1>3. getProcess(processTable[x].PID) = x
  BY <1>2 DEF CoreInv, PidsInPlace, Used
<1>4. /\ processTable' = [processTable EXCEPT ![Current].state = OldState(Mem),
                                              ![x].state = "Running"]
      /\ runningProcessID' = processTable[x].PID
      /\ ctx' = [c EXCEPT ![x].int = FALSE]
  BY <1>3 DEF runProcess, SwitchTo, Mem
<1>5. Current' = x /\ Init1' = Init1
  BY <1>3, <1>4 DEF Current, Init1, getProcess
<1>6. OldState(Mem) = IF processTable[Current].state = "Running" THEN "Runnable"
                      ELSE processTable[Current].state
  BY DEF OldState, Mem
<1>7. ctx[Current].ret \in {"init_testcase", "join", "user", "dead"}
  BY <1>1 DEF PlaceOK, Returning
<1>8. /\ c \in [Slots -> Context] /\ c[Current].pc = ctx[Current].ret
      /\ \A y \in Slots : y # Current => c[y] = ctx[y]
  BY <1>1 DEF Context
<1> HIDE DEF c
<1>9. /\ ctx'[Current].pc = ctx[Current].ret
      /\ \A y \in Slots : y # Current =>
            ctx'[y].pc = ctx[y].pc /\ ctx'[y].ret = ctx[y].ret
  BY <1>1, <1>4, <1>8 DEF Context
<1>10. ASSUME NEW y \in Slots
       PROVE  /\ Kin(processTable[y], processTable'[y])
              /\ processTable'[y].state =
                    IF y = x THEN "Running"
                    ELSE IF y = Current THEN OldState(Mem) ELSE processTable[y].state
  <2>1. processTable[y] \in Process /\ processTable[x] \in Process
    BY <1>1
  <2> HIDE DEF OldState
  <2> QED
    BY <1>1, <1>4, <2>1 DEF Kin, Process
<1>11. ASSUME NEW y \in Slots
       PROVE  /\ processTable'[y].isInitialized = processTable[y].isInitialized
              /\ processTable'[y].PID = processTable[y].PID
              /\ processTable'[y].priority = processTable[y].priority
              /\ processTable'[y].startFunc = processTable[y].startFunc
              /\ processTable'[y].parent = processTable[y].parent
              /\ processTable'[y].state = "Terminated" <=>
                    processTable[y].state = "Terminated"
              /\ processTable'[y].state = NoName <=> processTable[y].state = NoName
              /\ processTable'[y].state = JoinBlocked =>
                    processTable[y].state = JoinBlocked
  BY <1>6, <1>10, NamesDiffer DEF Kin, JoinBlocked
\* Where the old process goes on.
<1>12. /\ ctx'[Current].pc \in Resting
       /\ PlaceOK(Current, ctx'[Current], processTable[Current].state = "Terminated")
  BY <1>1, <1>7, <1>9
     DEF PlaceOK, InitPCs, LivePCs, DyingPCs, Returning, Forking, Resting
<1>13. \A y \in Slots : processTable[y].isInitialized => ctx'[y].pc \in Resting
  BY <1>9, <1>12 DEF RunInv, Places, Used
<1>14. TableOK(Listed', pidCounter')
  <2>1. Listed' = processTable'
    BY <1>2, <1>5, <1>13, ListedIs DEF Resting
  <2>2. \A y \in Slots : /\ Kin(processTable[y], processTable'[y])
                         /\ processTable'[y].state = NoName <=>
                                ~processTable[y].isInitialized
    BY <1>2, <1>10, <1>11
  <2>3. processTable' \in [Slots -> Process] /\ pidCounter <= pidCounter
    BY <1>1 DEF CoreInv, TypeOK
  <2>4. TableOK(processTable', pidCounter)
    BY <1>1, <2>2, <2>3, TableStays
  <2> QED
    BY <2>1, <2>4
<1>15. ParentsLive'
  <2> SUFFICES ASSUME NEW y \in Slots, processTable'[y].parent # NULL
               PROVE  processTable'[processTable'[y].parent].state # "Terminated"
    BY DEF ParentsLive
  <2>1. processTable'[y].parent = processTable[y].parent
    BY <1>11
  <2>2. processTable[y].parent \in Slots
        /\ processTable[processTable[y].parent].state # "Terminated"
    BY <1>1, <2>1, ParentIsUsed DEF RunInv, ParentsLive
  <2> QED
    BY <1>11, <2>1, <2>2
<1>16. InitStays'
  <2>1. \A y \in Slots \ {Init1} : processTable'[y].startFunc # "init_main"
    BY <1>11 DEF RunInv, InitStays
  <2>2. /\ processTable'[Init1].isInitialized /\ processTable'[Init1].PID = 1
        /\ processTable'[Init1].parent = NULL
        /\ processTable'[Init1].startFunc = "init_main"
        /\ processTable'[Init1].state # "Terminated"
    BY <1>1, <1>11 DEF RunInv, InitStays
  <2> QED
    BY <1>5, <2>1, <2>2 DEF InitStays
<1>17. Places'
  <2> SUFFICES ASSUME NEW y \in Slots, processTable'[y].isInitialized
               PROVE  /\ PlaceOK(y, ctx'[y], processTable'[y].state = "Terminated")
                      /\ ctx'[y].pc \in Resting
                      /\ processTable'[y].startFunc = "NULL" =>
                            ctx'[y].pc = "null_func"
    BY <1>5 DEF Places, Used, PlaceOK, Init1, getProcess
  <2>1. processTable[y].isInitialized
    BY <1>11
  <2>2. /\ PlaceOK(y, ctx[y], processTable[y].state = "Terminated")
        /\ processTable[y].startFunc = "NULL" => ctx[y].pc = "null_func"
    BY <2>1 DEF RunInv, Places, Used
  <2>3. CASE y = Current
    <3>1. PlaceOK(y, ctx'[y], processTable'[y].state = "Terminated")
      BY <1>11, <1>12, <2>3
    <3>2. processTable'[y].startFunc # "NULL"
      BY <1>1, <1>11, <2>3
    <3> QED
      BY <1>12, <2>3, <3>1, <3>2
  <2>4. CASE y # Current
    <3>1. ctx'[y].pc = ctx[y].pc /\ ctx'[y].ret = ctx[y].ret
      BY <1>9, <2>4
    <3>2. PlaceOK(y, ctx'[y], processTable'[y].state = "Terminated")
      BY <1>11, <2>2, <3>1 DEF PlaceOK
    <3>3. ctx'[y].pc \in Resting
      BY <1>13, <2>1
    <3>4. processTable'[y].startFunc = "NULL" => ctx'[y].pc = "null_func"
      BY <1>11, <2>2, <3>1
    <3> QED
      BY <3>2, <3>3, <3>4
  <2> QED
    BY <2>3, <2>4
<1>18. Runner'
  <2>1. processTable'[x].isInitialized /\ processTable'[x].PID = runningProcessID'
    <3>1. runningProcessID' = processTable[x].PID
      BY <1>4
    <3> QED
      BY <1>2, <1>11, <3>1
  <2>2. Current' \in Slots
    BY <1>5
  <2> QED
    BY <1>5, <2>1, <2>2 DEF Runner
<1>19. ctx'[x].pc \in Resting
  BY <1>2, <1>13
<1>20. ForkInv'
  BY <1>5, <1>19 DEF ForkInv, Forking, Resting
<1>21. CallOK(processTable', Current', ctx'[Current'])
  <2>1. processTable'[x].state # "Terminated"
    BY <1>10
  <2> QED
    BY <1>5, <1>19, <2>1 DEF CallOK, Resting
<1>22. Orphans'
  <2> SUFFICES ASSUME NEW y \in Slots, processTable'[y].isInitialized, y # Init1,
                      processTable'[y].parent = NULL
               PROVE  ~ValidArgs(processTable'[y])
    BY <1>5 DEF Orphans, Used
  <2>1. ~ValidArgs(processTable[y])
    BY <1>11 DEF RunInv, Orphans, Used, Forking
  <2> QED
    BY <1>11, <2>1 DEF ValidArgs
<1>23. Waiting'
  <2> SUFFICES ASSUME NEW y \in Slots, processTable'[y].parent # NULL,
                      processTable'[y].state = "Terminated",
                      processTable'[processTable'[y].parent].state = JoinBlocked
               PROVE  FALSE
    BY DEF Waiting
  <2>1. processTable'[y].parent = processTable[y].parent
        /\ processTable[y].state = "Terminated"
    BY <1>11
  <2>2. processTable[y].parent \in Slots
    BY <1>1, <2>1, ParentIsUsed
  <2>3. processTable[processTable[y].parent].state = JoinBlocked
    BY <1>11, <2>1, <2>2
  <2>4. y = Current
    BY <2>1, <2>3 DEF RunInv, Waiting
  <2>5. processTable[processTable[Current].parent].state # JoinBlocked
    BY <1>1, <2>1, <2>4 DEF CallOK
  <2> QED
    BY <2>3, <2>4, <2>5
<1>24. BootPhase'
  <2>1. pidCounter' <= MaxPid + MAXPROC
    BY DEF RunInv, BootPhase
  <2>2. ctx'[Init1].pc # "init_sentinel"
    <3>1. processTable[Init1].isInitialized
      BY DEF RunInv, InitStays
    <3> QED
      BY <1>1, <1>13, <3>1 DEF Resting
  <2>3. ASSUME Booting(ctx'[Init1])
        PROVE  /\ pidCounter' = 3
               /\ \A y \in Slots : processTable'[y].isInitialized =>
                      \/ y = Init1
                      \/ y = getProcess(2) /\ ctx'[y].pc = "sentinel"
    <3>1. Booting(ctx[Init1])
      BY <1>1, <1>7, <1>9, <2>3 DEF Booting, Returning, Forking
    <3>2. /\ pidCounter = 3
          /\ \A y \in Slots : processTable[y].isInitialized =>
                      \/ y = Init1
                      \/ y = getProcess(2) /\ ctx[y].pc = "sentinel"
      BY <3>1 DEF RunInv, BootPhase, Used
    <3>3. Current = Init1
      BY <1>1, <3>2
    <3> QED
      BY <1>9, <1>11, <3>2, <3>3
  <2> QED
    BY <1>5, <2>1, <2>2, <2>3 DEF BootPhase, Used, getProcess
<1>25. RunInv'
  BY <1>14, <1>15, <1>16, <1>17, <1>18, <1>20, <1>21, <1>22, <1>23, <1>24 DEF RunInv
<1>26. Calm
  BY <1>11 DEF Calm
<1> QED
  BY <1>25, <1>26 DEF Change

\* The dispatcher, whatever it finds.
LEMMA DispatchKeepsTree ==
    ASSUME CoreInv, CoreInv', RunInv, runningProcessID # -1, Dispatch
    PROVE  RunInv' /\ Change
<1> DEFINE c == [ctx EXCEPT ![Current].pc = ctx[Current].ret]
<1>1. ctx[Current].pc = "dispatch" /\ dispatcher(Mem, c)
  BY DEF Dispatch, At
<1> HIDE DEF c
<1>2. UNCHANGED pidCounter
  BY <1>1 DEF dispatcher
<1>3. CASE NextToRun(Mem) = NULL
  BY <1>3, DispatchReturns
<1>4. CASE /\ NextToRun(Mem) # NULL
           /\ NextToRun(Mem) \in Decisive(Mem)
           /\ Mem.table[NextToRun(Mem)].state = "Runnable"
           /\ HasContext(Mem, Mem.table[NextToRun(Mem)].PID)
  <2>1. PICK x \in Slots : x = NextToRun(Mem)
    BY <1>4 DEF Decisive
  <2>2. runProcess(Mem, c, Mem.table[NextToRun(Mem)].PID)
    BY <1>1, <1>4 DEF dispatcher
  <2>3. processTable[x].state = "Runnable" /\ runProcess(Mem, c, processTable[x].PID)
    BY <1>4, <2>1, <2>2 DEF Mem
  <2> QED
    BY <1>1, <1>2, <2>3, SwitchMoves DEF c
<1>5. CASE /\ NextToRun(Mem) # NULL
           /\ ~(/\ NextToRun(Mem) \in Decisive(Mem)
                /\ Mem.table[NextToRun(Mem)].state = "Runnable"
                /\ HasContext(Mem, Mem.table[NextToRun(Mem)].PID))
  <2>1. UNCHANGED <<processTable, runningProcessID, pidCounter, ctx>>
    BY <1>1, <1>5 DEF dispatcher
  <2> QED
    BY <2>1, QuietKeeps
<1> QED
  BY <1>3, <1>4, <1>5

\* startProcesses dispatches init, the only process there is.
LEMMA StartKeepsTree ==
    ASSUME CoreInv, CoreInv', Init, StartProcesses
    PROVE  RunInv' /\ Calm /\ runningProcessID' # -1
<1>1. /\ Init1 = 1 /\ 1 \in Slots /\ NULL \notin Slots /\ getProcess(1) = 1
  BY SmallPids, MaxprocAssumption DEF Init1, Slots, NULL
<1>2. PICK x \in Slots :
        /\ processTable[x].state = "Runnable"
        /\ processTable' = [processTable EXCEPT ![x].state = "Running"]
        /\ runningProcessID' = processTable[x].PID
        /\ ctx' = [ctx EXCEPT ![x].int = FALSE]
        /\ UNCHANGED pidCounter
  BY DEF StartProcesses
<1>3. /\ processTable \in [Slots -> Process] /\ ctx \in [Slots -> Context]
      /\ pidCounter = 2
  BY DEF Init, CoreInv, TypeOK
<1> DEFINE p == [Blank EXCEPT !.isInitialized = TRUE, !.PID = 1,
                              !.priority = 6, !.state = "Runnable",
                              !.startFunc = "init_main"]
<1>4. /\ \A y \in Slots : processTable[y] = IF y = 1 THEN p ELSE Blank
      /\ \A y \in Slots : ctx[y] = Start("init_sentinel")
  BY <1>1 DEF Init
<1>5. /\ p.isInitialized /\ p.PID = 1 /\ p.state = "Runnable"
      /\ p.startFunc = "init_main" /\ p.parent = NULL /\ p.firstChild = NULL
      /\ p.nextSibling = NULL /\ p.prevSibling = NULL
  BY DEF Blank
<1> HIDE DEF p
<1>6. FreeSlot(Blank) /\ ~Blank.isInitialized
  BY BlankIsFree
<1>7. x = 1
  BY <1>2, <1>4, <1>6, NamesDiffer DEF FreeSlot
<1>8. Current' = 1 /\ Init1' = 1 /\ runningProcessID' = 1
  BY <1>1, <1>2, <1>4, <1>5, <1>7 DEF Current, Init1, getProcess
<1>9. ASSUME NEW y \in Slots, y # 1
      PROVE  FreeSlot(processTable'[y]) /\ ~processTable'[y].isInitialized
  BY <1>2, <1>3, <1>4, <1>6, <1>7, <1>9
<1>10. /\ processTable'[1].isInitialized /\ processTable'[1].PID = 1
       /\ processTable'[1].state = "Running"
       /\ processTable'[1].startFunc = "init_main" /\ processTable'[1].parent = NULL
       /\ processTable'[1].firstChild = NULL
       /\ processTable'[1].nextSibling = NULL /\ processTable'[1].prevSibling = NULL
  BY <1>1, <1>2, <1>3, <1>4, <1>5, <1>7 DEF Process
<1>11. \A y \in Slots : ctx'[y].pc = "init_sentinel"
  <2>1. Start("init_sentinel").pc = "init_sentinel"
    BY Zenon DEF Start
  <2> QED
    BY <1>2, <1>3, <1>4, <2>1 DEF Context
<1>12. \A y \in Slots : /\ processTable'[y].parent = NULL
                        /\ processTable'[y].firstChild = NULL
                        /\ processTable'[y].nextSibling = NULL
                        /\ processTable'[y].prevSibling = NULL
                        /\ processTable'[y].isInitialized => y = 1
  BY <1>9, <1>10 DEF FreeSlot
<1>13. TableOK(Listed', pidCounter')
  <2>1. Listed' = processTable' /\ processTable' \in [Slots -> Process]
    BY <1>1, <1>8, <1>11, ListedIs DEF CoreInv, TypeOK
  <2>2. Filled(processTable', 2)
    <3>1. "Running" # NoName
      BY NamesDiffer
    <3> QED
      BY <1>1, <1>9, <1>10, <1>12, <2>1, <3>1 DEF Filled
  <2>3. (\A y \in Slots : Linked(processTable', y)) /\ Ordered(processTable')
    BY <1>12 DEF Linked, Ordered
  <2> QED
    BY <1>2, <1>3, <2>1, <2>2, <2>3 DEF TableOK
<1>14. ParentsLive' /\ Waiting'
  BY <1>12 DEF ParentsLive, Waiting
<1>15. InitStays'
  <2>1. ASSUME NEW y \in Slots, y # 1
        PROVE  processTable'[y].startFunc # "init_main"
    BY <1>9, <2>1 DEF FreeSlot, NoName
  <2> QED
    BY <1>8, <1>10, <2>1 DEF InitStays
<1>16. Places'
  <2> SUFFICES ASSUME NEW y \in Slots, processTable'[y].isInitialized
               PROVE  /\ PlaceOK(y, ctx'[y], processTable'[y].state = "Terminated")
                      /\ y # 1 => ctx'[y].pc \in Resting
                      /\ processTable'[y].startFunc = "NULL" =>
                            ctx'[y].pc = "null_func"
    BY <1>8 DEF Places, Used, PlaceOK, Init1, getProcess
  <2>1. y = 1 /\ ctx'[1].pc = "init_sentinel"
    BY <1>11, <1>12
  <2> QED
    BY <1>1, <1>10, <2>1 DEF PlaceOK, InitPCs, Returning, Forking
<1>17. Runner'
  BY <1>1, <1>8, <1>10 DEF Runner
<1>18. ForkInv'
  BY <1>1, <1>8, <1>11 DEF ForkInv, Forking
<1>19. CallOK(processTable', Current', ctx'[Current'])
  BY <1>1, <1>8, <1>10, <1>11 DEF CallOK
<1>20. Orphans'
  BY <1>8, <1>12 DEF Orphans, Used
<1>21. BootPhase'
  <2>1. 2 <= MaxPid + MAXPROC
    BY MaxprocAssumption, KernelAssumption
  <2>2. Used' = {1}
    BY <1>1, <1>10, <1>12 DEF Used
  <2> QED
    BY <1>1, <1>2, <1>3, <1>8, <1>11, <2>1, <2>2
       DEF BootPhase, Booting, Returning, Forking
<1>22. RunInv'
  BY <1>13, <1>14, <1>15, <1>16, <1>17, <1>18, <1>19, <1>20, <1>21 DEF RunInv
<1>23. Calm
  <2> SUFFICES ASSUME NEW y \in Slots
               PROVE  /\ processTable'[y].isInitialized = processTable[y].isInitialized
                      /\ processTable'[y].PID = processTable[y].PID
                      /\ processTable'[y].parent = processTable[y].parent
                      /\ processTable'[y].state = "Terminated" <=>
                            processTable[y].state = "Terminated"
    BY DEF Calm
  <2>1. CASE y = 1
    BY <1>4, <1>5, <1>10, <2>1
  <2>2. CASE y # 1
    BY <1>2, <1>3, <1>7, <2>2
  <2> QED
    BY <2>1, <2>2
<1> QED
  BY <1>8, <1>22, <1>23

\* Without time slices, every step keeps the invariant, and changes the tree in
\* one of the ways of Change.
LEMMA TreeStepKeeps ==
    ASSUME ~TimeSlicing, WakesLiving, CoreInv, CoreInv', TreeInv, [Next]_vars
    PROVE  TreeInv' /\ Change /\ (runningProcessID = -1 => Calm)
<1>1. CASE runningProcessID = -1
  <2>1. Init
    BY <1>1 DEF TreeInv
  <2>2. CASE StartProcesses
    BY <2>1, <2>2, StartKeepsTree DEF TreeInv, Change
  <2>3. CASE ~StartProcesses
    <3>1. UNCHANGED vars
      BY <1>1, <2>1, <2>3
         DEF Next, KernelCall, KernelStep, ClockInterrupt, Ended, Init, At,
             Fork1, CallJoin, BlockMe, BlockMeError, Quit, QuitError, UnblockProc,
             Zap, ZapError, DumpProcesses, MainReturns, InitForksSentinel,
             InitForksTestcase, InitLoop, ForkPid, ForkParent, ForkLink, Join,
             BlockState, BlockRemove, UnblockState, UnblockAdd, QuitRemove,
             QuitWake, WakeState, WakeAdd, Dispatch, Sentinel, NullFunc,
             QuitReturns
    <3>2. Init'
      BY <2>1, <3>1 DEF Init, vars, getProcess
    <3> QED
      BY <1>1, <3>1, <3>2 DEF TreeInv, Change, Calm, vars
  <2> QED
    BY <2>2, <2>3
<1>2. CASE runningProcessID # -1
  <2>1. RunInv
    BY <1>2 DEF TreeInv
  <2>2. RunInv' /\ Change
    <3>1. ~StartProcesses /\ ~ClockInterrupt
      BY <1>2 DEF StartProcesses, ClockInterrupt
    <3>2. CASE KernelCall
      BY <1>2, <2>1, <3>2, ForksMove, CallsMove, QuittingMoves, EndsQuietly
         DEF KernelCall
    <3>3. CASE KernelStep
      BY <1>2, <2>1, <3>3, ForksMove, InitLoopMoves, ForkPidMoves, ForkParentMoves,
         ForkLinkMoves, JoinKeepsTree, BlockingMoves, WakingMoves, QuittingMoves,
         DispatchKeepsTree, EndsQuietly
         DEF KernelStep
    <3>4. CASE Ended \/ UNCHANGED vars
      BY <2>1, <3>4, EndsQuietly
    <3> QED
      BY <3>1, <3>2, <3>3, <3>4 DEF Next
  <2>3. runningProcessID' # -1
    <3>1. /\ (processTable \in [Slots -> Process])'
          /\ (Current \in Slots /\ processTable[Current].PID = runningProcessID)'
      BY <2>2 DEF CoreInv, TypeOK, RunInv, Runner
    <3>2. (processTable[Current].PID \in Nat)'
      BY <3>1 DEF Process
    <3> QED
      BY <3>1, <3>2
  <2> QED
    BY <1>2, <2>2, <2>3 DEF TreeInv
<1> QED
  BY <1>1, <1>2

-----------------------------------------------------------------------------
(***************************************************************************)
(* The theorems, for the kernel without time slices.                       *)
(***************************************************************************)
\* Before init runs it is the only process, and has no relatives.
LEMMA InitIs ==
    ASSUME CoreInv, Init
    PROVE  /\ TableOK(processTable, 2) /\ Init1 \in Slots
           /\ processTable[Init1].isInitialized
           /\ processTable[Init1].PID = 1
           /\ \A x \in Slots :
                /\ processTable[x].isInitialized => x = Init1
                /\ processTable[x].state \in {NoName, "Runnable"}
                /\ processTable[x].isInitialized <=> processTable[x].state # NoName
                /\ processTable[x].parent = NULL
                /\ processTable[x].startFunc # "NULL"
                /\ ctx[x].pc = "init_sentinel"
           /\ pidCounter = 2
<1>1. /\ Init1 = 1 /\ 1 \in Slots /\ NULL \notin Slots /\ getProcess(1) = 1
  BY SmallPids, MaxprocAssumption DEF Init1, Slots, NULL
<1>2. /\ processTable \in [Slots -> Process] /\ pidCounter = 2
  BY DEF Init, CoreInv, TypeOK
<1> DEFINE p == [Blank EXCEPT !.isInitialized = TRUE, !.PID = 1,
                              !.priority = 6, !.state = "Runnable",
                              !.startFunc = "init_main"]
<1>3. /\ \A y \in Slots : processTable[y] = IF y = 1 THEN p ELSE Blank
      /\ \A y \in Slots : ctx[y] = Start("init_sentinel")
  BY <1>1 DEF Init
<1>4. /\ p.isInitialized /\ p.PID = 1 /\ p.state = "Runnable"
      /\ p.startFunc = "init_main" /\ p.parent = NULL /\ p.firstChild = NULL
      /\ p.nextSibling = NULL /\ p.prevSibling = NULL
  BY DEF Blank
<1> HIDE DEF p
<1>5. FreeSlot(Blank) /\ ~Blank.isInitialized
  BY BlankIsFree
<1>6. Start("init_sentinel").pc = "init_sentinel"
  BY Zenon DEF Start
<1>7. NoName # "NULL"
  BY DEF NoName
<1>8. ASSUME NEW x \in Slots
      PROVE  /\ processTable[x].isInitialized => x = 1
             /\ ~processTable[x].isInitialized => FreeSlot(processTable[x])
             /\ processTable[x].state \in {NoName, "Runnable"}
             /\ processTable[x].isInitialized <=> processTable[x].state # NoName
             /\ processTable[x].parent = NULL /\ processTable[x].firstChild = NULL
             /\ processTable[x].nextSibling = NULL
             /\ processTable[x].prevSibling = NULL
             /\ processTable[x].startFunc # "NULL"
             /\ ctx[x].pc = "init_sentinel"
  <2>1. CASE x = 1
    BY <1>3, <1>4, <1>6, <2>1, NamesDiffer
  <2>2. CASE x # 1
    BY <1>3, <1>5, <1>6, <1>7, <2>2 DEF FreeSlot
  <2> QED
    BY <2>1, <2>2
<1>9. processTable[1].isInitialized /\ processTable[1].PID = 1
  BY <1>1, <1>3, <1>4
<1>10. TableOK(processTable, 2)
  <2>1. Filled(processTable, 2)
    BY <1>1, <1>2, <1>8, <1>9 DEF Filled
  <2>2. (\A y \in Slots : Linked(processTable, y)) /\ Ordered(processTable)
    BY <1>8 DEF Linked, Ordered
  <2> QED
    BY <2>1, <2>2 DEF TableOK
<1> QED
  BY <1>1, <1>2, <1>8, <1>9, <1>10

\* What Listed leaves of a process.
LEMMA ListedFields ==
    ASSUME CoreInv, NEW x \in Slots
    PROVE  /\ Listed[x].isInitialized = processTable[x].isInitialized
           /\ Listed[x].PID = processTable[x].PID
           /\ Listed[x].state = processTable[x].state
           /\ Listed[x].firstChild = processTable[x].firstChild
           /\ Listed[x].nextSibling = processTable[x].nextSibling
           /\ Listed[x].prevSibling = processTable[x].prevSibling
           /\ Listed[x].parent =
                IF ctx[Current].pc = "fork_link" /\ x = NewChild THEN NULL
                ELSE processTable[x].parent
  BY DEF Listed, CoreInv, TypeOK, Process

\* The list of a process holds those whose parent it is, but for a child that
\* is not in it yet.
LEMMA ChildListIs ==
    ASSUME CoreInv, NEW t, NEW n, TableOK(t, n), NEW p \in Slots,
           \A x \in Slots : /\ t[x].firstChild = processTable[x].firstChild
                            /\ t[x].nextSibling = processTable[x].nextSibling
    PROVE  \A x \in Slots : x \in ChildList(p) <=> t[x].parent = p
<1> DEFINE next == [x \in Slots |-> t[x].nextSibling]
<1>1. SiblingLinks(Mem) = next
  BY DEF SiblingLinks, Mem
<1>2. p # NULL
  BY TableFields
<1>3. ASSUME NEW x \in Slots
      PROVE  x \in ChildList(p) <=> t[x].parent = p
  <2>1. PICK Stop : Stop = {x}
    OBVIOUS
  <2> DEFINE found == Walk(next, t[p].firstChild, Stop)
  <2>2. /\ found # NULL => /\ found \in Slots /\ found \in Stop
                           /\ t[found].parent = p
        /\ found = NULL => \A y \in Slots : t[y].parent = p => y \notin Stop
    BY ChildWalk
  <2>3. x \in ChildList(p) <=> found = x
    BY <1>1, <2>1 DEF ChildList, OnList
  <2>4. x # NULL
    BY TableFields
  <2> HIDE DEF found
  <2> QED
    BY <2>1, <2>2, <2>3, <2>4
<1> QED
  BY <1>3

\* The invariant gives the properties of KernelProperties.
LEMMA TreeInvIsStrong ==
    ASSUME CoreInv, TreeInv
    PROVE  SlotIdentity /\ ChildLists /\ NoLostJoin
<1>1. CASE runningProcessID = -1
  <2>1. /\ Init /\ TableOK(processTable, 2) /\ Init1 \in Slots /\ NULL \notin Slots
        /\ \A x \in Slots :
                /\ processTable[x].isInitialized => x = Init1
                /\ processTable[x].state \in {NoName, "Runnable"}
                /\ processTable[x].parent = NULL
                /\ ctx[x].pc = "init_sentinel"
    BY <1>1, InitIs, TableFields DEF TreeInv
  <2>2. SlotIdentity
    BY <1>1 DEF SlotIdentity, CoreInv
  <2>3. \A p \in Used : /\ ChildList(p) = {} /\ Linking(p) = {} /\ p = Init1
                        /\ {x \in Used : processTable[x].parent = p} = {}
    <3> SUFFICES ASSUME NEW p \in Slots, processTable[p].isInitialized
                 PROVE  /\ ChildList(p) = {} /\ Linking(p) = {} /\ p = Init1
                        /\ {x \in Used : processTable[x].parent = p} = {}
      BY DEF Used
    <3>1. \A x \in Slots : x \notin ChildList(p)
      BY <2>1, ChildListIs
    <3>2. ChildList(p) \subseteq Slots
      BY DEF ChildList, OnList
    <3> QED
      BY <2>1, <3>1, <3>2 DEF Linking, Used
  <2>4. ChildLists
    BY <2>3 DEF ChildLists
  <2>5. NoLostJoin
    BY <2>3 DEF NoLostJoin
  <2> QED
    BY <2>2, <2>4, <2>5
<1>2. CASE runningProcessID # -1
  <2>1. RunInv
    BY <1>2 DEF TreeInv
  <2>2. /\ Current \in Slots /\ NULL \notin Slots
        /\ processTable[Current].isInitialized
        /\ processTable[Current].PID = runningProcessID
    BY <1>2, <2>1, WhoRuns DEF RunInv, Runner
  <2>3. SlotIdentity
    BY <2>2 DEF SlotIdentity, CoreInv, Used
  <2>4. ASSUME NEW p \in Slots
        PROVE  \A x \in Slots : x \in ChildList(p) <=> Listed[x].parent = p
    <3>1. TableOK(Listed, pidCounter)
      BY <2>1 DEF RunInv
    <3>2. \A x \in Slots : /\ Listed[x].firstChild = processTable[x].firstChild
                           /\ Listed[x].nextSibling = processTable[x].nextSibling
      BY ListedFields
    <3> QED
      BY <3>1, <3>2, ChildListIs
  <2>5. \A x \in Slots :
            Listed[x].parent = IF ctx[Current].pc = "fork_link" /\ x = NewChild
                               THEN NULL ELSE processTable[x].parent
    BY ListedFields
  <2>6. ctx[Current].pc = "fork_link" =>
            /\ NewChild \in Slots /\ processTable[NewChild].isInitialized
            /\ processTable[NewChild].parent = Current
            /\ ctx[Current].arg = NewChild
    BY <1>2, <2>1, ForkerIs DEF Forking
  <2>7. \A x \in Slots : processTable[x].parent # NULL => processTable[x].isInitialized
    <3>1. \A x \in Slots : Listed[x].parent # NULL => Listed[x].isInitialized
      BY <2>1, ParentIsUsed DEF RunInv
    <3> QED
      BY <2>5, <2>6, <3>1, ListedFields
  <2>8. ASSUME NEW p \in Slots, processTable[p].isInitialized
        PROVE  {x \in Used : processTable[x].parent = p} =
                    ChildList(p) \cup Linking(p)
    <3>1. ASSUME NEW x \in Slots
          PROVE  x \in Linking(p) <=> ctx[Current].pc = "fork_link" /\ x = NewChild
                                          /\ p = Current
      <4>1. ctx[p].pc = "fork_link" => p = Current
        BY <2>1, <2>8 DEF RunInv, Places, Used, Resting
      <4> QED
        BY <2>6, <4>1 DEF Linking
    <3>2. ASSUME NEW x \in Slots
          PROVE  (x \in ChildList(p) \/ x \in Linking(p))
                        <=> processTable[x].parent = p
      BY <2>2, <2>4, <2>5, <2>6, <2>8, <3>1
    <3>3. ChildList(p) \subseteq Slots /\ Linking(p) \subseteq Slots
      BY DEF ChildList, OnList, Linking
    <3>4. \A x \in Slots : x \in {y \in Used : processTable[y].parent = p}
                                <=> processTable[x].parent = p
      BY <2>2, <2>7, <2>8 DEF Used
    <3>5. {x \in Used : processTable[x].parent = p} \subseteq Slots
      BY DEF Used
    <3> QED
      BY <3>2, <3>3, <3>4, <3>5
  <2>9. ASSUME NEW p \in Slots, NEW x \in Slots, x \in ChildList(p)
        PROVE  /\ (processTable[x].prevSibling = NULL) <=>
                        (processTable[p].firstChild = x)
               /\ processTable[x].nextSibling # NULL =>
                        processTable[processTable[x].nextSibling].prevSibling = x
               /\ processTable[x].parent = p
    <3>1. Listed[x].parent = p /\ processTable[x].parent = p
      BY <2>2, <2>4, <2>5, <2>9
    <3>2. Linked(Listed, x) /\ Linked(Listed, p)
      BY <2>1, TableFields DEF RunInv
    <3>3. (Listed[x].prevSibling = NULL) <=> (Listed[p].firstChild = x)
      BY <2>2, <3>1, <3>2 DEF Linked
    <3>4. /\ Listed[x].nextSibling # NULL =>
                Listed[Listed[x].nextSibling].prevSibling = x
          /\ Listed[x].nextSibling \in Slots \cup {NULL}
      BY <2>1, <3>2, TableFields DEF Linked, RunInv
    <3> QED
      BY <3>1, <3>3, <3>4, ListedFields
  <2>10. ASSUME NEW p \in Slots, processTable[p].isInitialized, p # Init1,
                processTable[p].parent = NULL
         PROVE  \/ ctx[Current].pc \in {"fork_pid", "fork_parent"}
                \/ ~ValidArgs(processTable[p])
    BY <2>1, <2>2, <2>6, <2>10 DEF RunInv, Orphans, Used, Forking
  <2>11. \A p \in Slots : ChildList(p) \subseteq Slots
    BY DEF ChildList, OnList
  <2>12. ChildLists
    BY <2>8, <2>9, <2>10, <2>11 DEF ChildLists, Used
  <2>13. NoLostJoin
    <3> SUFFICES ASSUME NEW p \in Slots, processTable[p].state = JoinBlocked,
                        NEW x \in Slots, x \in ChildList(p),
                        processTable[x].state = "Terminated"
                 PROVE  x = Current
      BY <2>11 DEF NoLostJoin, Used
    <3>1. processTable[x].parent = p
      BY <2>9
    <3> QED
      BY <2>1, <2>2, <3>1 DEF RunInv, Waiting
  <2> QED
    BY <2>3, <2>12, <2>13
<1> QED
  BY <1>1, <1>2

\* The invariant, in every reachable state.
LEMMA TreeInvariance ==
    ASSUME ~TimeSlicing, WakesLiving
    PROVE  Spec => []TreeInv
<1>1. Init => TreeInv
  BY DEF TreeInv, Init
<1>2. CoreInv /\ CoreInv' /\ TreeInv /\ [Next]_vars => TreeInv'
  BY TreeStepKeeps
<1> QED
  BY <1>1, <1>2, Invariance, PTL DEF Spec

\* Without time slices, the current process is always the process that the slot
\* of runningProcessID holds: whatever is created, reaped or reused, nobody pulls
\* the slot of a process that runs away from under it.
THEOREM SlotsKeepTheirProcesses ==
    ASSUME ~TimeSlicing, WakesLiving
    PROVE  Spec => []SlotIdentity
<1>1. CoreInv /\ TreeInv => SlotIdentity
  BY TreeInvIsStrong
<1> QED
  BY <1>1, Invariance, TreeInvariance, PTL

\* Without time slices, the list that fork1 and join rewrite holds exactly the
\* children, linked both ways, for processes of any number and in any order of
\* births and deaths.
THEOREM ListsHoldChildren ==
    ASSUME ~TimeSlicing, WakesLiving
    PROVE  Spec => []ChildLists
<1>1. CoreInv /\ TreeInv => ChildLists
  BY TreeInvIsStrong
<1> QED
  BY <1>1, Invariance, TreeInvariance, PTL

\* Without time slices, no process waits in join for a child that is already
\* dead, unless that child still has the wakeup of its parent ahead.
THEOREM JoinIsWoken ==
    ASSUME ~TimeSlicing, WakesLiving
    PROVE  Spec => []NoLostJoin
<1>1. CoreInv /\ TreeInv => NoLostJoin
  BY TreeInvIsStrong
<1> QED
  BY <1>1, Invariance, TreeInvariance, PTL

\* Without time slices, the kernel never brings a dead process back: its slot stays
\* Terminated until join blanks it, whatever quit, a zap list or fork1 does to it.
\* unblockProc would, so WakesLiving leaves that to the programs.
THEOREM TheDeadStayDead ==
    ASSUME ~TimeSlicing, WakesLiving
    PROVE  Spec => DeadStayDead
<1> DEFINE Step == \A x \in Slots :
            (processTable[x].state = "Terminated" /\ ~WokenByUser(x)) =>
                processTable'[x].state \in {"Terminated", ""}
<1>1. CoreInv /\ CoreInv' /\ TreeInv /\ [Next]_vars => [Step]_vars
  <2> SUFFICES ASSUME CoreInv, CoreInv', TreeInv, [Next]_vars,
                      NEW x \in Slots, processTable[x].state = "Terminated"
               PROVE  processTable'[x].state = "Terminated"
                        \/ processTable'[x].state = NoName
    BY Zenon DEF NoName
  <2>1. Change
    BY TreeStepKeeps
  <2>2. processTable[x].isInitialized
    <3>1. \A y \in Slots : processTable[y].isInitialized <=>
                                processTable[y].state # NoName
      BY InitIs, WhoRuns DEF TreeInv
    <3> QED
      BY <3>1, NamesDiffer
  <2>3. Blank.state = NoName
    BY BlankIsFree DEF FreeSlot
  <2> QED
    BY <2>1, <2>2, <2>3
       DEF Change, Calm, CalmBut, Born, Joins, Quits, Collects
<1> QED
  BY <1>1, Invariance, TreeInvariance, PTL DEF DeadStayDead, Spec

-----------------------------------------------------------------------------
(***************************************************************************)
(* fork1, quit and join implement the process tree.                        *)
(***************************************************************************)
\* fork1 refuses a process only after it has made it.  With a null start function
\* that process never runs; with a bad priority it may, by a stale link of a
\* queue, and could then have children though it is in no list itself.
PrioritiesValid ==
    \A a \in ForkArgs : a.startFunc # "NULL" => a.priority \in 1 .. 7

Decent(p) == (p.isInitialized /\ p.startFunc # "NULL") => p.priority \in 1 .. 7

AllDecent == \A x \in Slots : Decent(processTable[x])

\* What a process was made with stays, as long as it has its slot.
AsMade(p, q) ==
    /\ q.isInitialized = p.isInitialized
    /\ q.priority = p.priority /\ q.startFunc = p.startFunc

Honest == \A x \in Slots : AsMade(processTable[x], processTable'[x])
                                \/ Decent(processTable'[x])

\* What createProcess makes of its arguments.
LEMMA CreateIsDecent ==
    ASSUME CoreInv, runningProcessID # -1,
           NEW pr \in Priorities, NEW f \in StartFuncs, f # "NULL" => pr \in 1 .. 7,
           NEW ok \in PCs, NEW fail, NEW ret \in PCs,
           createProcess(pr, f, ok, fail, ret)
    PROVE  Honest
<1> DEFINE caller(pc) == [ctx EXCEPT ![Current].pc = pc, ![Current].ret = ret]
<1>1. /\ Current \in Slots /\ pidCounter \in Nat /\ MAXPROC \in Nat
      /\ ctx \in [Slots -> Context]
  BY CurrentType, MaxprocAssumption DEF CoreInv, TypeOK
<1>2. CASE tableFull(caller(fail))
  BY <1>2 DEF tableFull, Honest, AsMade
<1>3. ASSUME NEW k \in 0 .. MAXPROC - 1,
             newProcess(pidCounter + k, pr, f, caller(ok))
      PROVE  Honest
  <2>1. PICK pid \in Nat : pid = pidCounter + k
    BY <1>1
  <2>2. caller(ok) \in [Slots -> Context]
    <3> DEFINE kk == [ctx[Current] EXCEPT !.pc = ok, !.ret = ret]
    <3>1. ctx[Current] \in Context
      BY <1>1
    <3>2. kk \in Context
      BY <3>1 DEF Context
    <3>3. caller(ok) = [ctx EXCEPT ![Current] = kk]
      BY <1>1
    <3> HIDE DEF kk, caller
    <3> QED
      BY <1>1, <3>2, <3>3
  <2>3. newProcess(pid, pr, f, caller(ok))
    BY <1>3, <2>1
  <2> HIDE DEF caller
  <2>4. NewbornIn(getProcess(pid), pid, pr, f)
    BY <2>2, <2>3, NewProcessIs
  <2>5. PICK c : c = getProcess(pid)
    OBVIOUS
  <2>6. /\ processTable'[c].priority = pr /\ processTable'[c].startFunc = f
        /\ \A x \in Slots \ {c} : Kin(processTable[x], processTable'[x])
    BY <2>4, <2>5 DEF NewbornIn
  <2>7. Decent(processTable'[c])
    BY <2>6 DEF Decent
  <2> QED
    BY <2>6, <2>7 DEF Honest, AsMade, Kin
<1> QED
  BY <1>2, <1>3 DEF createProcess

\* Every step keeps what the processes were made with.
LEMMA StepIsHonest ==
    ASSUME ~TimeSlicing, PrioritiesValid, CoreInv, [Next]_vars
    PROVE  Honest
<1>1. /\ processTable \in [Slots -> Process]
      /\ \A x \in Slots : processTable[x] \in Process
  BY DEF CoreInv, TypeOK
<1>2. ASSUME UNCHANGED processTable
      PROVE  Honest
  BY <1>2 DEF Honest, AsMade
<1>3. ASSUME NEW m, OnlyLinks(Mem, m), Store(m)
      PROVE  Honest
  BY <1>3 DEF Honest, AsMade, OnlyLinks, Kin, Store, Mem
<1>4. ASSUME NEW y, NEW s, processTable' = [processTable EXCEPT ![y].state = s]
      PROVE  Honest
  BY <1>1, <1>4 DEF Honest, AsMade, Process
<1>5. ASSUME NEW y, NEW s, Store(SetState(Mem, y, s))
      PROVE  Honest
  <2>1. processTable' = [processTable EXCEPT ![y].state = s]
    BY <1>5 DEF Store, SetState, Mem
  <2> QED
    BY <2>1, <1>4
<1>6. CASE \E a \in ForkArgs : Fork1(a)
  <2>1. PICK a \in ForkArgs : Fork1(a)
    BY <1>6
  <2>2. /\ a.priority \in Priorities /\ a.startFunc \in StartFuncs
        /\ a.startFunc # "NULL" => a.priority \in 1 .. 7
    BY KernelAssumption DEF StartFuncs, PrioritiesValid
  <2>3. PICK pr \in Priorities, f \in StartFuncs :
                pr = a.priority /\ f = a.startFunc
    BY <2>2
  <2>4. PICK ok \in PCs : /\ runningProcessID # -1
                          /\ createProcess(pr, f, ok, "user", "user")
    BY <2>1, <2>3 DEF Fork1, At, PCs
  <2> QED
    BY <2>2, <2>3, <2>4, CreateIsDecent DEF PCs
<1>7. CASE InitForksSentinel \/ InitForksTestcase
  <2>1. /\ 7 \in Priorities /\ 3 \in Priorities /\ 7 \in 1 .. 7 /\ 3 \in 1 .. 7
        /\ "sentinel" \in StartFuncs /\ "testcase_main" \in StartFuncs
        /\ "fork_pid" \in PCs /\ "init_testcase" \in PCs /\ "join" \in PCs
    BY DEF Priorities, StartFuncs, PCs
  <2>2. CASE InitForksSentinel
    BY <2>1, <2>2, CreateIsDecent DEF InitForksSentinel, At
  <2>3. CASE InitForksTestcase
    BY <2>1, <2>3, CreateIsDecent DEF InitForksTestcase, At
  <2> QED
    BY <1>7, <2>2, <2>3
<1>8. CASE ForkParent
  <2>1. processTable' = [processTable EXCEPT ![ctx[Current].arg].parent = Current]
    BY <1>8 DEF ForkParent
  <2> QED
    BY <1>1, <2>1 DEF Honest, AsMade, Process
<1>9. CASE ForkLink
  BY <1>1, <1>9 DEF ForkLink, Honest, AsMade, Process
<1>10. CASE Join
  <2>1. CASE UNCHANGED processTable
    BY <2>1, <1>2
  <2>2. CASE Reap(FirstDeadChild)
    <3>1. PICK c : c = FirstDeadChild
      OBVIOUS
    <3>2. Reap(c)
      BY <2>2, <3>1
    <3>3. ASSUME NEW x \in Slots
          PROVE  AsMade(processTable[x], processTable'[x])
                    \/ Decent(processTable'[x])
      <4>1. CASE x = c
        BY <3>2, <4>1, BlankIsFree DEF Reap, Decent
      <4>2. CASE x # c
        BY <1>1, <3>2, <4>2 DEF Reap, AsMade, Process
      <4> QED
        BY <4>1, <4>2
    <3> QED
      BY <3>3 DEF Honest
  <2> QED
    BY <1>10, <2>1, <2>2 DEF Join
<1>11. CASE InitLoop
  BY <1>4, <1>11 DEF InitLoop
<1>12. CASE BlockState \/ UnblockState \/ WakeState \/ Quit
  BY <1>5, <1>12 DEF BlockState, UnblockState, WakeState, Quit
<1>13. CASE BlockRemove \/ UnblockAdd \/ WakeAdd \/ QuitRemove
  <2>1. /\ runningProcessID # -1 /\ Current \in Slots /\ Mem \in Memory
        /\ ctx[Current].pc = "unblock_add" \/ ctx[Current].pc = "wake_add" =>
                ctx[Current].arg \in Slots
    <3>1. runningProcessID # -1
      BY <1>13 DEF BlockRemove, UnblockAdd, WakeAdd, QuitRemove, At
    <3>2. Current \in Slots /\ Mem \in Memory
      BY <3>1, CurrentType, MemIsSound DEF CoreInv, SoundMemory
    <3>3. SoundContext(ctx[Current])
      BY <3>2 DEF CoreInv, SoundContexts
    <3> QED
      BY <3>1, <3>2, <3>3 DEF SoundContext, Follows
  <2>2. CASE BlockRemove
    BY <1>3, <2>1, <2>2, RemoveNodeKeeps DEF BlockRemove
  <2>3. CASE UnblockAdd \/ WakeAdd
    BY <1>3, <2>1, <2>3, AddToQueueKeeps DEF UnblockAdd, WakeAdd, At
  <2>4. CASE QuitRemove
    BY <1>2, <1>3, <2>1, <2>4, RemoveNodeKeeps DEF QuitRemove, End
  <2> QED
    BY <1>13, <2>2, <2>3, <2>4
<1>14. CASE \E pid \in 1 .. pidCounter : Zap(pid)
  <2>1. PICK a, b, n : processTable' = [processTable EXCEPT ![a].zapHead = Current,
                                                         ![b].nextZapNode = n]
    <3>1. PICK pid : Zap(pid)
      BY <1>14
    <3>2. PICK a : a = getProcess(pid)
      OBVIOUS
    <3>3. CASE processTable[a].zapHead = NULL
      <4>1. processTable' = [processTable EXCEPT
                ![a].zapHead = Current,
                ![Current].nextZapNode = IF processTable[a].zapHead = NULL THEN @
                                         ELSE processTable[a].zapHead]
        BY <3>1, <3>2 DEF Zap
      <4> QED
        BY <4>1, <3>3, <1>1 DEF Process
    <3>4. CASE processTable[a].zapHead # NULL
      BY <3>1, <3>2, <3>4 DEF Zap
    <3> QED
      BY <3>3, <3>4
  <2> QED
    BY <1>1, <2>1 DEF Honest, AsMade, Process
<1>15. CASE Dispatch
  <2>1. PICK c : dispatcher(Mem, c)
    BY <1>15 DEF Dispatch
  <2>2. CASE Store(Mem)
    BY <1>2, <2>2 DEF Store, Mem
  <2>3. CASE \E pid : runProcess(Mem, c, pid)
    <3>1. PICK y, s : processTable' = [processTable EXCEPT ![Current].state = s,
                                                           ![y].state = "Running"]
      BY <2>3 DEF runProcess, SwitchTo, Mem
    <3> QED
      BY <1>1, <3>1 DEF Honest, AsMade, Process
  <2> QED
    BY <1>2, <2>1, <2>2, <2>3 DEF dispatcher
<1>16. CASE StartProcesses
  BY <1>4, <1>16 DEF StartProcesses
<1> QED
  BY <1>2, <1>6, <1>7, <1>8, <1>9, <1>10, <1>11, <1>12, <1>13, <1>14, <1>15, <1>16
     DEF Next, KernelCall, KernelStep, ClockInterrupt, Ended, vars, End,
         CallJoin, BlockMe, BlockMeError, QuitError, UnblockProc, ZapError,
         DumpProcesses, MainReturns, ForkPid, QuitWake, Sentinel, NullFunc, QuitReturns

-----------------------------------------------------------------------------
(***************************************************************************)
(* The tree of a table, by PID.                                            *)
(***************************************************************************)
Member(t, x) == t[x].isInitialized /\ (t[x].parent # NULL \/ x = Init1)

PidsIn(t, dead) ==
    {t[x].PID : x \in {y \in Slots :
        Member(t, y) /\ (t[y].state = "Terminated") = dead}}

KnownIn(t) == PidsIn(t, FALSE) \cup PidsIn(t, TRUE)

FatherIn(t) ==
    [pid \in KnownIn(t) |->
        IF pid = 1 THEN 0 ELSE t[t[getProcess(pid)].parent].PID]

\* Who has a child is alive and in the tree itself.
TreeOK(t) ==
    /\ t \in [Slots -> Process]
    /\ \A x \in Slots : t[x].isInitialized =>
            0 < t[x].PID /\ getProcess(t[x].PID) = x
    /\ Init1 \in Slots /\ t[Init1].isInitialized /\ t[Init1].PID = 1
    /\ t[Init1].state # "Terminated"
    /\ \A x \in Slots : t[x].parent # NULL =>
            /\ t[x].parent \in Slots /\ Member(t, t[x].parent)
            /\ t[t[x].parent].state # "Terminated"

\* A PID of the tree leads to its process, and that one to its parent.
LEMMA KnownPid ==
    ASSUME NEW t, TreeOK(t), NEW x \in Slots, Member(t, x)
    PROVE  /\ getProcess(t[x].PID) = x /\ t[x].PID \in Nat /\ 0 < t[x].PID
           /\ t[x].PID = 1 <=> x = Init1
           /\ x # Init1 => /\ t[x].parent \in Slots /\ Member(t, t[x].parent)
                           /\ t[t[x].parent].state # "Terminated"
<1>1. getProcess(t[x].PID) = x /\ 0 < t[x].PID
  BY DEF TreeOK, Member
<1>2. t[x].PID \in Nat
  BY DEF TreeOK, Process
<1>3. t[x].PID = 1 <=> x = Init1
  BY <1>1 DEF TreeOK, Init1
<1>4. x # Init1 => /\ t[x].parent \in Slots /\ Member(t, t[x].parent)
                   /\ t[t[x].parent].state # "Terminated"
  BY DEF TreeOK, Member
<1> QED
  BY <1>1, <1>2, <1>3, <1>4

\* getProcess(pid) is the only slot with that PID.
LEMMA KnownSlot ==
    ASSUME NEW t, TreeOK(t), NEW pid \in KnownIn(t)
    PROVE  /\ getProcess(pid) \in Slots /\ Member(t, getProcess(pid))
           /\ t[getProcess(pid)].PID = pid /\ t[getProcess(pid)].isInitialized
           /\ \A x \in Slots : t[x].isInitialized /\ t[x].PID = pid
                                    => x = getProcess(pid)
<1>1. PICK x \in Slots : Member(t, x) /\ pid = t[x].PID
  BY DEF KnownIn, PidsIn
<1>2. getProcess(pid) = x /\ t[x].isInitialized
  BY <1>1, KnownPid DEF Member
<1>3. \A y \in Slots : t[y].isInitialized /\ t[y].PID = pid => y = getProcess(pid)
  BY DEF TreeOK
<1> QED
  BY <1>1, <1>2, <1>3

\* The refinement mapping, in terms of the table.
LEMMA Mapping ==
    ASSUME TreeOK(processTable)
    PROVE  /\ PidsWhere(FALSE) = PidsIn(processTable, FALSE)
           /\ PidsWhere(TRUE) = PidsIn(processTable, TRUE)
           /\ [pid \in PidsWhere(FALSE) \cup PidsWhere(TRUE) |->
                    IF pid = 1 THEN 0
                    ELSE processTable[processTable[SlotOf(pid)].parent].PID]
              = FatherIn(processTable)
<1>1. /\ PidsWhere(FALSE) = PidsIn(processTable, FALSE)
      /\ PidsWhere(TRUE) = PidsIn(processTable, TRUE)
  BY DEF PidsWhere, PidsIn, Used, InTree, Member
<1>2. ASSUME NEW pid \in KnownIn(processTable)
      PROVE  SlotOf(pid) = getProcess(pid)
  <2>1. /\ getProcess(pid) \in Used /\ processTable[getProcess(pid)].PID = pid
        /\ \A x \in Used : processTable[x].PID = pid => x = getProcess(pid)
    BY KnownSlot DEF Used
  <2> QED
    BY <2>1 DEF SlotOf
<1> QED
  BY <1>1, <1>2 DEF FatherIn, KnownIn

\* The same, of the next state.
LEMMA MappingNext ==
    ASSUME TreeOK(processTable')
    PROVE  /\ PidsWhere(FALSE)' = PidsIn(processTable', FALSE)
           /\ PidsWhere(TRUE)' = PidsIn(processTable', TRUE)
           /\ [pid \in PidsWhere(FALSE) \cup PidsWhere(TRUE) |->
                    IF pid = 1 THEN 0
                    ELSE processTable[processTable[SlotOf(pid)].parent].PID]'
              = FatherIn(processTable')
<1>1. /\ PidsWhere(FALSE)' = PidsIn(processTable', FALSE)
      /\ PidsWhere(TRUE)' = PidsIn(processTable', TRUE)
  BY DEF PidsWhere, PidsIn, Used, InTree, Member
<1>2. ASSUME NEW pid \in KnownIn(processTable')
      PROVE  SlotOf(pid)' = getProcess(pid)
  <2>1. /\ getProcess(pid) \in Used' /\ processTable'[getProcess(pid)].PID = pid
        /\ \A x \in Used' : processTable'[x].PID = pid => x = getProcess(pid)
    BY KnownSlot DEF Used
  <2> QED
    BY <2>1 DEF SlotOf
<1> QED
  BY <1>1, <1>2 DEF FatherIn, KnownIn

\* The processes in slots other than c keep PID, parent and life.
Others(t, w, c) ==
    \A x \in Slots \ {c} :
        /\ w[x].isInitialized = t[x].isInitialized
        /\ w[x].PID = t[x].PID /\ w[x].parent = t[x].parent
        /\ w[x].state = "Terminated" <=> t[x].state = "Terminated"

\* Where the processes of the tree keep PID, parent and life, so does the tree.
LEMMA SameTree ==
    ASSUME NEW t, NEW w, TreeOK(t), TreeOK(w),
           \A x \in Slots :
             /\ Member(w, x) <=> Member(t, x)
             /\ Member(t, x) =>
                  /\ w[x].PID = t[x].PID /\ w[x].parent = t[x].parent
                  /\ w[x].state = "Terminated" <=> t[x].state = "Terminated"
    PROVE  /\ PidsIn(w, FALSE) = PidsIn(t, FALSE)
           /\ PidsIn(w, TRUE) = PidsIn(t, TRUE)
           /\ FatherIn(w) = FatherIn(t)
<1>1. PidsIn(w, FALSE) = PidsIn(t, FALSE) /\ PidsIn(w, TRUE) = PidsIn(t, TRUE)
  BY DEF PidsIn
<1>2. ASSUME NEW pid \in KnownIn(t), pid # 1
      PROVE  w[w[getProcess(pid)].parent].PID = t[t[getProcess(pid)].parent].PID
  <2>1. PICK x \in Slots : Member(t, x) /\ pid = t[x].PID
    BY DEF KnownIn, PidsIn
  <2>2. getProcess(pid) = x /\ x # Init1
    BY <1>2, <2>1, KnownPid
  <2>3. t[x].parent \in Slots /\ Member(t, t[x].parent)
    BY <2>1, <2>2, KnownPid
  <2> QED
    BY <2>1, <2>2, <2>3
<1> QED
  BY <1>1, <1>2 DEF FatherIn, KnownIn

\* FatherIn(t) with one process more, or one less.
WithChild(t, p, pid) ==
    [y \in KnownIn(t) \cup {pid} |-> IF y = pid THEN p ELSE FatherIn(t)[y]]
Without(t, pid) == [y \in KnownIn(t) \ {pid} |-> FatherIn(t)[y]]

\* What a fork, an exit and a collected child do to the tree.
Grows(t, w, p, pid) ==
    /\ p \in PidsIn(t, FALSE) /\ pid \notin KnownIn(t)
    /\ PidsIn(w, FALSE) = PidsIn(t, FALSE) \cup {pid}
    /\ PidsIn(w, TRUE) = PidsIn(t, TRUE)
    /\ FatherIn(w) = WithChild(t, p, pid)

Dies(t, w, pid) ==
    /\ pid \in PidsIn(t, FALSE) \ {1}
    /\ \A y \in KnownIn(t) : FatherIn(t)[y] # pid
    /\ PidsIn(w, FALSE) = PidsIn(t, FALSE) \ {pid}
    /\ PidsIn(w, TRUE) = PidsIn(t, TRUE) \cup {pid}
    /\ FatherIn(w) = FatherIn(t)

Shrinks(t, w, p, pid) ==
    /\ p \in PidsIn(t, FALSE) /\ pid \in PidsIn(t, TRUE)
    /\ FatherIn(t)[pid] = p
    /\ PidsIn(w, FALSE) = PidsIn(t, FALSE)
    /\ PidsIn(w, TRUE) = PidsIn(t, TRUE) \ {pid}
    /\ FatherIn(w) = Without(t, pid)

\* The process in slot c, in no list so far, becomes a child of the one in q.
LEMMA ForkedTree ==
    ASSUME NEW t, NEW w, TreeOK(t), TreeOK(w),
           NEW c \in Slots, NEW q \in Slots, Others(t, w, c), c # Init1,
           t[c].isInitialized, t[c].parent = NULL,
           w[c].isInitialized, w[c].parent = q, w[c].PID = t[c].PID,
           w[c].state # "Terminated", Member(t, q), t[q].state # "Terminated"
    PROVE  Grows(t, w, t[q].PID, t[c].PID)
<1> USE DEF Others
<1>1. /\ ~Member(t, c) /\ Member(w, c) /\ c # q
      /\ \A x \in Slots \ {c} : Member(w, x) <=> Member(t, x)
  <2>1. q # NULL
    BY MaxprocAssumption DEF Slots, NULL
  <2> QED
    BY <2>1 DEF Member
<1>2. /\ PidsIn(w, FALSE) = PidsIn(t, FALSE) \cup {t[c].PID}
      /\ PidsIn(w, TRUE) = PidsIn(t, TRUE)
      /\ t[q].PID \in PidsIn(t, FALSE)
  <2>1. PidsIn(w, FALSE) = PidsIn(t, FALSE) \cup {t[c].PID}
    BY <1>1 DEF PidsIn
  <2>2. PidsIn(w, TRUE) = PidsIn(t, TRUE)
    BY <1>1 DEF PidsIn
  <2>3. t[q].PID \in PidsIn(t, FALSE)
    BY DEF PidsIn
  <2> QED
    BY <2>1, <2>2, <2>3
<1>3. ASSUME NEW y \in KnownIn(t)
      PROVE  /\ y # t[c].PID /\ getProcess(y) \in Slots \ {c}
             /\ y # 1 => t[getProcess(y)].parent \in Slots \ {c}
  <2>1. PICK x \in Slots : Member(t, x) /\ y = t[x].PID
    BY DEF KnownIn, PidsIn
  <2>2. getProcess(y) = x /\ (y # 1 => x # Init1) /\ x # c
    BY <1>1, <2>1, KnownPid
  <2>3. y # t[c].PID
    BY <2>2 DEF TreeOK
  <2>4. y # 1 => t[x].parent \in Slots /\ Member(t, t[x].parent)
    BY <2>1, <2>2, KnownPid
  <2> QED
    BY <1>1, <2>2, <2>3, <2>4
<1>4. getProcess(t[c].PID) = c /\ t[c].PID # 1
  BY <1>1, KnownPid
<1>5. KnownIn(w) = KnownIn(t) \cup {t[c].PID}
  BY <1>2 DEF KnownIn
<1>6. FatherIn(w) = [y \in KnownIn(t) \cup {t[c].PID} |->
                        IF y = 1 THEN 0 ELSE w[w[getProcess(y)].parent].PID]
  BY <1>5 DEF FatherIn
<1>7. ASSUME NEW y \in KnownIn(t)
      PROVE  (IF y = 1 THEN 0 ELSE w[w[getProcess(y)].parent].PID) = FatherIn(t)[y]
  BY <1>3 DEF FatherIn
<1>8. w[w[getProcess(t[c].PID)].parent].PID = t[q].PID
  BY <1>1, <1>4
<1>9. FatherIn(w) = WithChild(t, t[q].PID, t[c].PID)
  BY <1>3, <1>4, <1>6, <1>7, <1>8 DEF WithChild
<1>10. t[c].PID \notin KnownIn(t)
  BY <1>3
<1> QED
  BY <1>2, <1>9, <1>10 DEF Grows

\* The process in slot q dies.
LEMMA ExitedTree ==
    ASSUME NEW t, NEW w, TreeOK(t), TreeOK(w),
           NEW q \in Slots, q # Init1, Member(t, q),
           \A x \in Slots : t[x].parent # q,
           t[q].state # "Terminated", w[q].state = "Terminated", Others(t, w, q),
           w[q].isInitialized, w[q].PID = t[q].PID, w[q].parent = t[q].parent
    PROVE  Dies(t, w, t[q].PID)
<1>1. \A x \in Slots :
             /\ w[x].isInitialized <=> t[x].isInitialized
             /\ w[x].PID = t[x].PID /\ w[x].parent = t[x].parent
             /\ x # q => (w[x].state = "Terminated" <=> t[x].state = "Terminated")
  BY DEF Others, Member
<1>2. /\ \A x \in Slots : Member(w, x) <=> Member(t, x)
      /\ \A x \in Slots : Member(t, x) /\ t[x].PID = t[q].PID => x = q
      /\ t[q].PID # 1 /\ t[q].PID \in Nat /\ 0 < t[q].PID
  <2>1. \A x \in Slots : Member(w, x) <=> Member(t, x)
    BY <1>1 DEF Member
  <2> QED
    BY <2>1, KnownPid
<1>3. /\ PidsIn(w, FALSE) = PidsIn(t, FALSE) \ {t[q].PID}
      /\ PidsIn(w, TRUE) = PidsIn(t, TRUE) \cup {t[q].PID}
      /\ t[q].PID \in PidsIn(t, FALSE)
  <2>1. PidsIn(w, TRUE) = PidsIn(t, TRUE) \cup {t[q].PID}
    BY <1>1, <1>2 DEF PidsIn
  <2>2. PidsIn(w, FALSE) = PidsIn(t, FALSE) \ {t[q].PID}
    BY <1>1, <1>2 DEF PidsIn
  <2>3. t[q].PID \in PidsIn(t, FALSE)
    BY DEF PidsIn
  <2> QED
    BY <2>1, <2>2, <2>3
<1>4. ASSUME NEW y \in KnownIn(t), y # 1
      PROVE  /\ t[getProcess(y)].parent \in Slots
             /\ t[t[getProcess(y)].parent].PID # t[q].PID
             /\ w[w[getProcess(y)].parent].PID = t[t[getProcess(y)].parent].PID
  <2>1. PICK x \in Slots : Member(t, x) /\ y = t[x].PID
    BY DEF KnownIn, PidsIn
  <2>2. getProcess(y) = x /\ x # Init1
    BY <1>4, <2>1, KnownPid
  <2>3. t[x].parent \in Slots /\ Member(t, t[x].parent) /\ t[x].parent # q
    BY <2>1, <2>2, KnownPid
  <2> QED
    BY <1>1, <1>2, <2>2, <2>3
<1>5. ASSUME NEW y \in KnownIn(t) PROVE FatherIn(t)[y] # t[q].PID
  <2>1. FatherIn(t)[y] = IF y = 1 THEN 0 ELSE t[t[getProcess(y)].parent].PID
    BY DEF FatherIn
  <2>2. 0 # t[q].PID
    BY <1>2
  <2> QED
    BY <2>1, <2>2, <1>4
<1>6. FatherIn(w) = FatherIn(t)
  <2>1. KnownIn(w) = KnownIn(t)
    BY <1>3 DEF KnownIn
  <2> QED
    BY <2>1, <1>4 DEF FatherIn
<1> QED
  BY <1>2, <1>3, <1>5, <1>6 DEF Dies

\* The dead process in slot c is collected by its parent in slot q.
LEMMA ReapedTree ==
    ASSUME NEW t, NEW w, TreeOK(t), TreeOK(w),
           NEW q \in Slots, NEW c \in Slots, c # Init1,
           t[c].isInitialized, t[c].state = "Terminated", t[c].parent = q,
           w[c] = Blank, \A x \in Slots : t[x].parent # c, Others(t, w, c)
    PROVE  Shrinks(t, w, t[q].PID, t[c].PID)
<1> USE DEF Others
<1>1. /\ Member(t, c) /\ ~Member(w, c) /\ c # q
      /\ \A x \in Slots \ {c} : Member(w, x) <=> Member(t, x)
      /\ \A x \in Slots : Member(t, x) /\ t[x].PID = t[c].PID => x = c
      /\ Member(t, q) /\ t[q].state # "Terminated"
  <2>1. q # NULL
    BY MaxprocAssumption DEF Slots, NULL
  <2>2. Member(t, c) /\ c # q
    BY <2>1 DEF Member
  <2>3. ~Member(w, c) /\ \A x \in Slots \ {c} : Member(w, x) <=> Member(t, x)
    BY BlankIsFree DEF Member
  <2>4. Member(t, q) /\ t[q].state # "Terminated"
    BY <2>1 DEF TreeOK
  <2> QED
    BY <2>2, <2>3, <2>4, KnownPid
<1>2. /\ PidsIn(w, FALSE) = PidsIn(t, FALSE)
      /\ PidsIn(w, TRUE) = PidsIn(t, TRUE) \ {t[c].PID}
      /\ t[q].PID \in PidsIn(t, FALSE) /\ t[c].PID \in PidsIn(t, TRUE)
  <2>1. PidsIn(w, FALSE) = PidsIn(t, FALSE)
    BY <1>1 DEF PidsIn
  <2>2. PidsIn(w, TRUE) = PidsIn(t, TRUE) \ {t[c].PID}
    BY <1>1 DEF PidsIn
  <2>3. t[q].PID \in PidsIn(t, FALSE) /\ t[c].PID \in PidsIn(t, TRUE)
    BY <1>1 DEF PidsIn
  <2> QED
    BY <2>1, <2>2, <2>3
<1>3. ASSUME NEW y \in KnownIn(t) \ {t[c].PID}, y # 1
      PROVE  w[w[getProcess(y)].parent].PID = t[t[getProcess(y)].parent].PID
  <2>1. PICK x \in Slots : Member(t, x) /\ y = t[x].PID
    BY DEF KnownIn, PidsIn
  <2>2. x # c
    BY <1>3, <2>1
  <2>3. getProcess(y) = x /\ x # Init1
    BY <1>3, <2>1, KnownPid
  <2>4. t[x].parent \in Slots /\ t[x].parent # c
    BY <2>1, <2>3, KnownPid
  <2> QED
    BY <2>2, <2>3, <2>4
<1>4. t[c].PID # 1 /\ getProcess(t[c].PID) = c
  BY <1>1, KnownPid
<1>5. t[c].PID \in KnownIn(t)
  BY <1>2 DEF KnownIn
<1>6. FatherIn(t)[t[c].PID] = t[q].PID
  BY <1>4, <1>5 DEF FatherIn
<1>7. KnownIn(w) = KnownIn(t) \ {t[c].PID}
  <2>1. t[c].PID \notin PidsIn(t, FALSE)
    BY <1>1 DEF PidsIn
  <2> QED
    BY <2>1, <1>2 DEF KnownIn
<1>8. FatherIn(w) = [y \in KnownIn(t) \ {t[c].PID} |-> FatherIn(t)[y]]
  BY <1>3, <1>7 DEF FatherIn
<1> QED
  BY <1>2, <1>6, <1>8 DEF Shrinks, Without

-----------------------------------------------------------------------------
(***************************************************************************)
(* The refinement.                                                         *)
(***************************************************************************)
\* Who has children is in the tree itself.
Attached ==
    \A x \in Slots : processTable[x].parent # NULL =>
        Member(processTable, processTable[x].parent)

TableIsTree == TreeOK(processTable)

\* A process that runs, and does more than to crash, is in the tree.
LEMMA RunnerIsMember ==
    ASSUME CoreInv, RunInv, AllDecent, runningProcessID # -1,
           ctx[Current].pc # "null_func"
    PROVE  Member(processTable, Current)
<1>1. Current \in Slots /\ processTable[Current].isInitialized
  BY DEF RunInv, Runner
<1>2. ASSUME Current # Init1, processTable[Current].parent = NULL
      PROVE  FALSE
  <2>1. ~(ctx[Current].pc \in Forking /\ Current = NewChild)
    BY DEF RunInv, ForkInv
  <2>2. ~ValidArgs(processTable[Current])
    BY <1>1, <1>2, <2>1 DEF RunInv, Orphans, Used
  <2>3. processTable[Current].startFunc = "NULL"
    BY <1>1, <2>2 DEF ValidArgs, AllDecent, Decent
  <2> QED
    BY <1>1, <2>3 DEF RunInv, Places, Used
<1> QED
  BY <1>1, <1>2 DEF Member

\* The invariant gives the tree.
LEMMA InvIsTree ==
    ASSUME CoreInv, TreeInv, Attached
    PROVE  TableIsTree
<1>1. /\ processTable \in [Slots -> Process]
      /\ \A x \in Slots : processTable[x] \in Process
      /\ Init1 \in Slots
  BY SmallPids DEF CoreInv, TypeOK, Init1
<1>2. CASE runningProcessID = -1
  <2>1. /\ TableOK(processTable, 2) /\ processTable[Init1].isInitialized
        /\ processTable[Init1].PID = 1
        /\ \A x \in Slots : /\ processTable[x].parent = NULL
                            /\ processTable[x].state \in {NoName, "Runnable"}
    BY <1>2, InitIs DEF TreeInv
  <2>2. \A x \in Slots : processTable[x].isInitialized =>
            0 < processTable[x].PID /\ getProcess(processTable[x].PID) = x
    BY <2>1 DEF TableOK, Filled
  <2>3. processTable[Init1].state # "Terminated"
    BY <1>1, <2>1, NamesDiffer
  <2> QED
    BY <1>1, <2>1, <2>2, <2>3 DEF TableIsTree, TreeOK
<1>3. CASE runningProcessID # -1
  <2>1. RunInv
    BY <1>3 DEF TreeInv
  <2>2. ASSUME NEW x \in Slots, processTable[x].isInitialized
        PROVE  0 < processTable[x].PID /\ getProcess(processTable[x].PID) = x
    <3>1. Listed[x].isInitialized /\ Listed[x].PID = processTable[x].PID
      BY <2>2, ListedFields
    <3> QED
      BY <2>1, <3>1 DEF RunInv, TableOK, Filled
  <2>3. /\ processTable[Init1].isInitialized /\ processTable[Init1].PID = 1
        /\ processTable[Init1].state # "Terminated"
    BY <2>1 DEF RunInv, InitStays
  <2>4. ASSUME NEW x \in Slots, processTable[x].parent # NULL
        PROVE  /\ processTable[x].parent \in Slots
               /\ Member(processTable, processTable[x].parent)
               /\ processTable[processTable[x].parent].state # "Terminated"
    <3>1. processTable[x].parent \in Slots
      BY <1>1, <2>4 DEF Process, Link
    <3> QED
      BY <2>1, <2>4, <3>1 DEF RunInv, ParentsLive, Attached
  <2> QED
    BY <1>1, <2>2, <2>3, <2>4 DEF TableIsTree, TreeOK
<1> QED
  BY <1>2, <1>3

\* What is needed beside the table's own invariant.
TreeFacts == AllDecent /\ Attached

\* At first there is init alone.
LEMMA InitIsAttached ==
    ASSUME CoreInv, Init PROVE TreeFacts
<1>1. \A x \in Slots : /\ processTable[x].parent = NULL
                       /\ processTable[x].isInitialized => x = Init1
  BY InitIs
<1>2. /\ Init1 = 1 /\ 1 \in Slots /\ getProcess(1) = 1
  BY SmallPids DEF Init1
<1>3. processTable[1].priority = 6
  BY <1>2 DEF Init, Blank
<1> QED
  BY <1>1, <1>2, <1>3 DEF TreeFacts, AllDecent, Decent, Attached

\* And a step keeps it.
LEMMA AttachedStep ==
    ASSUME ~TimeSlicing, WakesLiving, PrioritiesValid,
           CoreInv, CoreInv', TreeInv, TreeFacts,
           [Next]_vars
    PROVE  TreeFacts'
<1>1. Change /\ (runningProcessID = -1 => Calm)
  BY TreeStepKeeps
<1>2. Honest
  BY StepIsHonest
<1>3. AllDecent'
  BY <1>2 DEF TreeFacts, AllDecent, Honest, AsMade, Decent
<1>4. Attached /\ AllDecent
  BY DEF TreeFacts
<1>5. Attached'
  <2> SUFFICES ASSUME NEW x \in Slots, processTable'[x].parent # NULL
               PROVE  Member(processTable', processTable'[x].parent)
    BY DEF Attached, Member, Init1, getProcess
  <2>1. CASE Calm
    <3>1. /\ processTable'[x].parent = processTable[x].parent
          /\ Member(processTable, processTable[x].parent)
      BY <1>4, <2>1 DEF Calm, Attached
    <3>2. processTable[x].parent \in Slots
      BY <2>1, <3>1 DEF Calm, CoreInv, TypeOK, Process, Link
    <3> QED
      BY <2>1, <3>1, <3>2 DEF Calm, Member
  <2>2. ASSUME NEW c \in Slots, CalmBut(c), x # c, processTable[x].parent # c
        PROVE  Member(processTable', processTable'[x].parent)
    <3>1. /\ processTable'[x].parent = processTable[x].parent
          /\ Member(processTable, processTable[x].parent)
      BY <1>4, <2>2 DEF CalmBut, Attached
    <3>2. processTable[x].parent \in Slots
      BY <2>2, <3>1 DEF CalmBut, CoreInv, TypeOK, Process, Link
    <3> QED
      BY <2>2, <3>1, <3>2 DEF CalmBut, Member
  <2>3. ASSUME NEW c \in Slots, Born(c)
        PROVE  Member(processTable', processTable'[x].parent)
    <3>1. CalmBut(c) /\ x # c /\ processTable'[x].parent = processTable[x].parent
      BY <2>3 DEF Born, CalmBut
    <3>2. processTable[x].parent # c
      BY <1>4, <2>3, <3>1 DEF Born, Attached, Member
    <3> QED
      BY <2>2, <3>1, <3>2
  <2>4. ASSUME NEW c \in Slots, Collects(c)
        PROVE  Member(processTable', processTable'[x].parent)
    <3>1. CalmBut(c) /\ x # c /\ processTable[x].parent # c
      BY <2>4, BlankIsFree DEF Collects, FreeSlot
    <3> QED
      BY <2>2, <3>1
  <2>5. CASE Quits /\ ~Calm
    <3>1. runningProcessID # -1
      BY <1>1, <2>5
    <3>2. Current \in Slots
      BY <3>1, CurrentType DEF CoreInv
    <3>3. /\ processTable[x].parent # Current
          /\ processTable'[x].parent = processTable[x].parent
          /\ CalmBut(Current)
      BY <2>5 DEF Quits, CalmBut
    <3>4. Member(processTable, processTable[x].parent)
          /\ processTable[x].parent \in Slots
      BY <1>4, <3>3 DEF Attached, CoreInv, TypeOK, Process, Link
    <3> QED
      BY <3>3, <3>4 DEF CalmBut, Member
  <2>6. ASSUME NEW c \in Slots, Joins(c), ~Calm
        PROVE  Member(processTable', processTable'[x].parent)
    <3>1. runningProcessID # -1 /\ RunInv
      BY <1>1, <2>6 DEF TreeInv
    <3>2. Current \in Slots
      BY <3>1, CurrentType DEF CoreInv
    <3>3. Member(processTable, Current)
      BY <1>4, <2>6, <3>1, RunnerIsMember DEF Joins
    <3>4. CASE x = c
      BY <2>6, <3>2, <3>3, <3>4 DEF Joins, CalmBut, Member
    <3>5. CASE x # c
      <4>1. processTable'[x].parent = processTable[x].parent /\ CalmBut(c)
        BY <2>6, <3>5 DEF Joins, CalmBut
      <4>2. processTable[x].parent # c
        BY <1>4, <2>6, <4>1 DEF Joins, Attached, Member
      <4> QED
        BY <2>2, <3>5, <4>1, <4>2
    <3> QED
      BY <3>4, <3>5
  <2> QED
    BY <1>1, <2>1, <2>3, <2>4, <2>5, <2>6 DEF Change
<1> QED
  BY <1>3, <1>5 DEF TreeFacts

\* The first state is the abstract one.
LEMMA TreeInit ==
    ASSUME CoreInv, Init PROVE Tree!Init
<1>1. /\ Init1 \in Slots
      /\ processTable[Init1].isInitialized /\ processTable[Init1].PID = 1
      /\ \A x \in Slots : /\ processTable[x].isInitialized => x = Init1
                          /\ processTable[x].state \in {NoName, "Runnable"}
  BY InitIs
<1>2. \A x \in Slots : /\ Member(processTable, x) <=> x = Init1
                       /\ processTable[x].state # "Terminated"
  BY <1>1, NamesDiffer DEF Member
<1>3. PidsIn(processTable, FALSE) = {1} /\ PidsIn(processTable, TRUE) = {}
  BY <1>1, <1>2 DEF PidsIn
<1>4. FatherIn(processTable) = [c \in {1} |-> 0]
  BY <1>3 DEF FatherIn, KnownIn
<1>5. TreeOK(processTable)
  <2>1. runningProcessID = -1
    BY DEF Init
  <2>2. TreeInv
    BY <2>1 DEF TreeInv
  <2>3. Attached
    BY InitIsAttached DEF TreeFacts
  <2> QED
    BY <2>2, <2>3, InvIsTree DEF TableIsTree
<1> QED
  BY <1>3, <1>4, <1>5, Mapping DEF Tree!Init

\* A step that leaves the table's tree alone.
LEMMA TreeStutters ==
    ASSUME TreeOK(processTable), TreeOK(processTable'),
           \A x \in Slots :
             /\ Member(processTable', x) <=> Member(processTable, x)
             /\ Member(processTable, x) =>
                  /\ processTable'[x].PID = processTable[x].PID
                  /\ processTable'[x].parent = processTable[x].parent
                  /\ processTable'[x].state = "Terminated"
                        <=> processTable[x].state = "Terminated"
    PROVE  UNCHANGED Tree!vars
<1>1. /\ PidsIn(processTable', FALSE) = PidsIn(processTable, FALSE)
      /\ PidsIn(processTable', TRUE) = PidsIn(processTable, TRUE)
      /\ FatherIn(processTable') = FatherIn(processTable)
  BY SameTree
<1> QED
  BY <1>1, Mapping, MappingNext DEF Tree!vars

\* What fork1, quit and join do to the table, they do to the tree.
LEMMA TreeMoves ==
    ASSUME TreeOK(processTable), TreeOK(processTable')
    PROVE  /\ \A p, pid : Grows(processTable, processTable', p, pid)
                            => Tree!Fork(p, pid) /\ p \in PidsWhere(FALSE)
           /\ \A pid : Dies(processTable, processTable', pid)
                            => Tree!Exit(pid) /\ pid \in PidsWhere(FALSE)
           /\ \A p, pid : Shrinks(processTable, processTable', p, pid)
                            => /\ Tree!Reap(p, pid) /\ p \in PidsWhere(FALSE)
                               /\ pid \in PidsWhere(TRUE)
<1>1. ASSUME NEW p, NEW pid, Grows(processTable, processTable', p, pid)
      PROVE  Tree!Fork(p, pid) /\ p \in PidsWhere(FALSE)
  BY <1>1, Mapping, MappingNext DEF Tree!Fork, Tree!Known, Grows, KnownIn, WithChild
<1>2. ASSUME NEW pid, Dies(processTable, processTable', pid)
      PROVE  Tree!Exit(pid) /\ pid \in PidsWhere(FALSE)
  BY <1>2, Mapping, MappingNext DEF Tree!Exit, Tree!Known, Dies, KnownIn
<1>3. ASSUME NEW p, NEW pid, Shrinks(processTable, processTable', p, pid)
      PROVE  /\ Tree!Reap(p, pid) /\ p \in PidsWhere(FALSE)
             /\ pid \in PidsWhere(TRUE)
  BY <1>3, Mapping, MappingNext DEF Tree!Reap, Tree!Known, Shrinks, KnownIn, Without
<1> QED
  BY <1>1, <1>2, <1>3

\* Every step of the machine is a step of the tree or leaves it alone.
LEMMA TreeStep ==
    ASSUME ~TimeSlicing, WakesLiving, CoreInv, CoreInv', TreeInv, TreeFacts,
           TableIsTree, TableIsTree', [Next]_vars
    PROVE  [Tree!Next]_(Tree!vars)
<1>1. /\ Change /\ (runningProcessID = -1 => Calm)
      /\ TreeOK(processTable) /\ TreeOK(processTable')
  BY TreeStepKeeps DEF TableIsTree
<1>2. runningProcessID # -1 =>
        /\ Current \in Slots
        /\ ctx[Current].pc # "null_func" => Member(processTable, Current)
  BY CurrentType, RunnerIsMember DEF CoreInv, TreeInv, TreeFacts
<1>3. CASE Calm
  <2>1. \A x \in Slots : Member(processTable', x) <=> Member(processTable, x)
    BY <1>3 DEF Calm, Member
  <2>2. UNCHANGED Tree!vars
    BY <1>1, <1>3, <2>1, TreeStutters DEF Calm
  <2> QED
    BY <2>2
<1>4. ASSUME NEW c \in Slots, Born(c)
      PROVE  [Tree!Next]_(Tree!vars)
  <2>1. ~Member(processTable, c) /\ ~Member(processTable', c)
    BY <1>4 DEF Born, Member
  <2>2. ASSUME NEW x \in Slots, x # c
        PROVE  /\ Member(processTable', x) <=> Member(processTable, x)
               /\ processTable'[x].PID = processTable[x].PID
               /\ processTable'[x].parent = processTable[x].parent
               /\ processTable'[x].state = "Terminated"
                     <=> processTable[x].state = "Terminated"
    BY <1>4, <2>2 DEF Born, CalmBut, Member
  <2>3. \A x \in Slots :
             /\ Member(processTable', x) <=> Member(processTable, x)
             /\ Member(processTable, x) =>
                  /\ processTable'[x].PID = processTable[x].PID
                  /\ processTable'[x].parent = processTable[x].parent
                  /\ processTable'[x].state = "Terminated"
                        <=> processTable[x].state = "Terminated"
    BY <2>1, <2>2
  <2>4. UNCHANGED Tree!vars
    BY <1>1, <2>3, TreeStutters
  <2> QED
    BY <2>4
<1>5. ASSUME NEW c \in Slots, Joins(c), ~Calm
      PROVE  [Tree!Next]_(Tree!vars)
  <2>1. Current \in Slots /\ Member(processTable, Current)
    BY <1>1, <1>2, <1>5 DEF Joins
  <2>2. Others(processTable, processTable', c)
    BY <1>5 DEF Joins, CalmBut, Others
  <2>3. PICK p, pid : p = processTable[Current].PID /\ pid = processTable[c].PID
    OBVIOUS
  <2>4. Grows(processTable, processTable', p, pid)
    BY <1>1, <1>5, <2>1, <2>2, <2>3, ForkedTree DEF Joins
  <2>5. pid \in 1 .. MaxPid + MAXPROC
    <3>1. 0 < pid /\ pid \in Nat /\ pid <= MaxPid + MAXPROC
      BY <1>1, <1>5, <2>3 DEF Joins, TreeOK, Process
    <3>2. MaxPid + MAXPROC \in Nat
      BY MaxprocAssumption, KernelAssumption
    <3> QED
      BY <3>1, <3>2
  <2>6. Tree!Fork(p, pid) /\ p \in PidsWhere(FALSE)
    BY <1>1, <2>4, TreeMoves
  <2>7. Tree!Next
    BY <2>5, <2>6 DEF Tree!Next
  <2> QED
    BY <2>7
<1>6. CASE Quits /\ ~Calm
  <2>1. Current \in Slots /\ Member(processTable, Current)
    BY <1>1, <1>2, <1>6 DEF Quits
  <2>2. Others(processTable, processTable', Current)
    BY <1>6 DEF Quits, CalmBut, Others
  <2>3. Dies(processTable, processTable', processTable[Current].PID)
    BY <1>1, <1>6, <2>1, <2>2, ExitedTree DEF Quits
  <2>4. \E p \in PidsWhere(FALSE) : Tree!Exit(p)
    BY <1>1, <2>3, TreeMoves
  <2>5. Tree!Next
    BY <2>4 DEF Tree!Next
  <2> QED
    BY <2>5
<1>7. ASSUME NEW c \in Slots, Collects(c), ~Calm
      PROVE  [Tree!Next]_(Tree!vars)
  <2>1. Current \in Slots
    BY <1>1, <1>2, <1>7
  <2>2. Others(processTable, processTable', c)
    BY <1>7 DEF Collects, CalmBut, Others
  <2>3. PICK p, pid : p = processTable[Current].PID /\ pid = processTable[c].PID
    OBVIOUS
  <2>4. Shrinks(processTable, processTable', p, pid)
    BY <1>1, <1>7, <2>1, <2>2, <2>3, ReapedTree DEF Collects
  <2>5. /\ Tree!Reap(p, pid) /\ p \in PidsWhere(FALSE)
        /\ pid \in PidsWhere(TRUE)
    BY <1>1, <2>4, TreeMoves
  <2>6. Tree!Next
    BY <2>5 DEF Tree!Next
  <2> QED
    BY <2>6
<1> QED
  BY <1>1, <1>3, <1>4, <1>5, <1>6, <1>7 DEF Change

\* Without time slices, fork1, quit and join implement the process tree: a child
\* gets one living parent, which alone can collect it, and nobody dies before
\* his children are gone.  Programs give fork1 a priority from 1 to 7, or a null
\* start function, whose process crashes when it is run.
THEOREM TreeImplemented ==
    ASSUME ~TimeSlicing, WakesLiving, PrioritiesValid
    PROVE  Spec => ImplementsProcessTree
<1>1. CoreInv /\ Init => Tree!Init
  BY TreeInit
<1>2. CoreInv /\ Init => TreeFacts
  BY InitIsAttached
<1>3. CoreInv /\ CoreInv' /\ TreeInv /\ TreeFacts /\ [Next]_vars => TreeFacts'
  BY AttachedStep
<1>4. CoreInv /\ TreeInv /\ TreeFacts => TableIsTree
  BY InvIsTree DEF TreeFacts
<1>5. CoreInv /\ CoreInv' /\ TreeInv /\ TreeFacts /\ TableIsTree /\ TableIsTree'
        /\ [Next]_vars => [Tree!Next]_(Tree!vars)
  BY TreeStep
<1> QED
  BY <1>1, <1>2, <1>3, <1>4, <1>5, Invariance, TreeInvariance, PTL
     DEF Spec, ImplementsProcessTree, Tree!Spec

=============================================================================
