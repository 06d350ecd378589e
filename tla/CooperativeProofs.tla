--------------------------- MODULE CooperativeProofs ---------------------------
(***************************************************************************)
(* Proofs about the kernel of phase 1a, for every table size and every     *)
(* program: its tables keep their shape, and it implements the process     *)
(* tree.                                                                   *)
(***************************************************************************)
EXTENDS Cooperative, TLAPS

-----------------------------------------------------------------------------
(***************************************************************************)
(* Slots and PIDs.                                                         *)
(***************************************************************************)

\* PIDs map into the table, and the first three to the slots of their numbers.
LEMMA SlotOfPid ==
    /\ \A pid \in Nat : getProcess(pid) \in Slots
    /\ getProcess(1) = 1 /\ getProcess(2) = 2 /\ getProcess(3) = 3
    /\ 1 \in Slots /\ 2 \in Slots /\ 3 \in Slots /\ NULL \notin Slots
<1>1. \A pid \in Nat : getProcess(pid) \in Slots
  BY CooperativeAssumption DEF getProcess, Slots
<1>2. getProcess(1) = 1 /\ getProcess(2) = 2 /\ getProcess(3) = 3
  BY CooperativeAssumption DEF getProcess
<1>3. 1 \in Slots /\ 2 \in Slots /\ 3 \in Slots /\ NULL \notin Slots
  BY CooperativeAssumption DEF Slots, NULL
<1> QED
  BY <1>1, <1>2, <1>3

\* Blank and newly created slots hold a struct Process.
LEMMA RecordTypes ==
    /\ Blank \in Process
    /\ \A pid \in Nat, priority \in Int : Created(pid, priority) \in Process
<1>1. NULL \in Link
  BY DEF Link
<1>2. Blank \in Process
  BY <1>1 DEF Blank, Process, States
<1>3. ASSUME NEW pid \in Nat, NEW priority \in Int
      PROVE  Created(pid, priority) \in Process
  BY <1>1 DEF Created, Process, States
<1> QED
  BY <1>2, <1>3

\* A blank slot holds nothing.
LEMMA BlankFields ==
    /\ ~Blank.isInitialized /\ Blank.PID = 0
    /\ Blank.state = "" /\ Blank.parent = NULL
    /\ Blank.firstChild = NULL /\ Blank.nextSibling = NULL
    /\ Blank.prevSibling = NULL
  BY DEF Blank

\* A process that was just created has no links.
LEMMA CreatedFields ==
    ASSUME NEW pid, NEW priority
    PROVE  /\ Created(pid, priority).isInitialized
           /\ Created(pid, priority).PID = pid
           /\ Created(pid, priority).state = "Runnable"
           /\ Created(pid, priority).parent = NULL
           /\ Created(pid, priority).firstChild = NULL
           /\ Created(pid, priority).nextSibling = NULL
           /\ Created(pid, priority).prevSibling = NULL
  BY DEF Created

-----------------------------------------------------------------------------
(***************************************************************************)
(* The table: blank or used slots, each process in the slot of its PID,    *)
(* all PIDs below n, and the lists of children.                            *)
(***************************************************************************)
Filled(t, n) ==
    /\ t \in [Slots -> Process]
    /\ \A x \in Slots :
          /\ ~t[x].isInitialized => t[x] = Blank
          /\ t[x].isInitialized =>
                /\ t[x].state # "" /\ 0 < t[x].PID /\ t[x].PID < n
                /\ getProcess(t[x].PID) = x

\* Between a child and its next sibling there is no other child of the parent,
\* and none beyond the head of the list.
Ordered(t) ==
    \A x, z \in Slots :
        (x # z /\ t[x].parent # NULL /\ t[x].parent = t[z].parent) =>
            /\ \/ t[x].PID < t[z].PID
               \/ /\ t[x].nextSibling # NULL
                  /\ t[z].PID <= t[t[x].nextSibling].PID
            /\ t[z].PID <= t[t[t[z].parent].firstChild].PID

TableOK(t, n) ==
    /\ n \in Nat /\ Filled(t, n)
    /\ \A x \in Slots : Linked(t, x)
    /\ Ordered(t)

\* Nothing points at a blank slot, and different processes have different PIDs.
LEMMA BlankIsFree ==
    ASSUME NEW t, NEW n, TableOK(t, n),
           NEW c \in Slots, t[c] = Blank, NEW x \in Slots
    PROVE  /\ t[x].parent # c /\ t[x].firstChild # c
           /\ t[x].nextSibling # c /\ t[x].prevSibling # c
<1>1. /\ t[c].parent = NULL /\ t[c].firstChild = NULL
      /\ t[c].nextSibling = NULL /\ t[c].prevSibling = NULL
  BY BlankFields
<1>2. Linked(t, x) /\ x # NULL /\ c # NULL
  BY SlotOfPid DEF TableOK
<1> QED
  BY <1>1, <1>2 DEF Linked

\* createProcess: a new process, with a PID beyond all others and no links.
LEMMA CreatedInTable ==
    ASSUME NEW t, NEW n, TableOK(t, n), NEW pid \in Nat, n <= pid, 1 <= pid,
           NEW priority \in Int, t[getProcess(pid)] = Blank
    PROVE  TableOK([t EXCEPT ![getProcess(pid)] = Created(pid, priority)],
                   pid + 1)
<1> DEFINE c == getProcess(pid)
           u == [t EXCEPT ![c] = Created(pid, priority)]
<1>1. c \in Slots /\ t \in [Slots -> Process] /\ NULL \notin Slots
  BY SlotOfPid DEF TableOK, Filled
<1>2. /\ u[c] = Created(pid, priority) /\ u \in [Slots -> Process]
      /\ \A x \in Slots : x # c => u[x] = t[x]
  BY <1>1, RecordTypes
<1>6. /\ u[c].isInitialized /\ u[c].PID = pid /\ u[c].state = "Runnable"
      /\ u[c].parent = NULL /\ u[c].firstChild = NULL
      /\ u[c].nextSibling = NULL /\ u[c].prevSibling = NULL
  BY <1>2, CreatedFields
<1> HIDE DEF u
<1>3. Filled(u, pid + 1)
  <2>1. 0 < u[c].PID /\ u[c].PID < pid + 1 /\ getProcess(u[c].PID) = c
    BY <1>6
  <2>2. \A x \in Slots : t[x].PID < n => t[x].PID < pid + 1
    BY <1>1 DEF TableOK, Process
  <2>4. ASSUME NEW x \in Slots
        PROVE  /\ ~u[x].isInitialized => u[x] = Blank
               /\ u[x].isInitialized =>
                    /\ u[x].state # "" /\ 0 < u[x].PID /\ u[x].PID < pid + 1
                    /\ getProcess(u[x].PID) = x
    <3>1. CASE x = c
      BY <3>1, <1>6, <2>1
    <3>2. CASE x # c
      BY <3>2, <1>2, <2>2 DEF Filled, TableOK
    <3> QED
      BY <3>1, <3>2
  <2> QED
    BY <1>2, <2>4 DEF Filled
<1>4. ASSUME NEW x \in Slots PROVE Linked(u, x)
  <2>1. CASE x = c
    BY <2>1, <1>6 DEF Linked
  <2>2. CASE x # c
    <3>1. u[x] = t[x] /\ t[x] \in Process /\ Linked(t, x)
      BY <2>2, <1>2, <1>1 DEF TableOK
    <3>2. /\ t[x].parent # c /\ t[x].firstChild # c
          /\ t[x].nextSibling # c /\ t[x].prevSibling # c
      BY <1>1, BlankIsFree
    <3>3. \A y \in Slots : y # c => u[y] = t[y]
      BY <1>2
    <3> QED
      BY <3>1, <3>2, <3>3 DEF Linked, Process, Link
  <2> QED
    BY <2>1, <2>2
<1>5. Ordered(u)
  <2> SUFFICES ASSUME NEW x \in Slots, NEW z \in Slots,
                      x # z, u[x].parent # NULL, u[x].parent = u[z].parent
               PROVE  /\ \/ u[x].PID < u[z].PID
                         \/ /\ u[x].nextSibling # NULL
                            /\ u[z].PID <= u[u[x].nextSibling].PID
                      /\ u[z].PID <= u[u[u[z].parent].firstChild].PID
    BY DEF Ordered
  <2>1. x # c /\ z # c /\ u[x] = t[x] /\ u[z] = t[z]
    BY <1>2, <1>6
  <2>2. t[x].parent # c /\ t[x].nextSibling # c
    BY <1>1, BlankIsFree
  <2>3. t[x] \in Process /\ t[z] \in Process /\ Linked(t, z)
    BY <1>1 DEF TableOK
  <2>4. /\ t[z].parent \in Slots /\ t[t[z].parent].firstChild # NULL
        /\ t[t[z].parent] \in Process
    BY <2>1, <2>3, <1>1 DEF Linked, Process, Link
  <2>5. t[t[z].parent].firstChild \in Slots /\ t[t[z].parent].firstChild # c
    BY <2>4, <1>1, BlankIsFree DEF Process, Link
  <2>6. /\ u[t[z].parent] = t[t[z].parent]
        /\ u[t[t[z].parent].firstChild] = t[t[t[z].parent].firstChild]
        /\ t[x].nextSibling # NULL => u[t[x].nextSibling] = t[t[x].nextSibling]
    BY <2>1, <2>2, <2>3, <2>4, <2>5, <1>2 DEF Process, Link
  <2> QED
    BY <2>1, <2>2, <2>6 DEF TableOK, Ordered
<1>7. TableOK(u, pid + 1)
  BY <1>3, <1>4, <1>5 DEF TableOK
<1> QED
  BY <1>7 DEF u

-----------------------------------------------------------------------------
\* fork1: the youngest process, with no links yet, becomes the head of its
\* parent's list; nothing but links is written.
LEMMA AdoptedInTable ==
    ASSUME NEW t, NEW n, TableOK(t, n),
           NEW q \in Slots, NEW c \in Slots, q # c, t[c].isInitialized,
           t[c].parent = NULL, t[c].firstChild = NULL,
           \A x \in Slots : x # c => t[x].PID < t[c].PID,
           t[q].isInitialized
    PROVE  /\ TableOK(Adopted(t, q, c), n)
           /\ \A x \in Slots :
                /\ Adopted(t, q, c)[x].isInitialized = t[x].isInitialized
                /\ Adopted(t, q, c)[x].PID = t[x].PID
                /\ Adopted(t, q, c)[x].state = t[x].state
                /\ Adopted(t, q, c)[x].parent = IF x = c THEN q ELSE t[x].parent
<1> DEFINE u == Adopted(t, q, c)
           first == t[q].firstChild
<1>1. /\ t \in [Slots -> Process] /\ NULL \notin Slots /\ q # NULL /\ c # NULL
      /\ \A x \in Slots : t[x] \in Process /\ Linked(t, x)
  BY SlotOfPid DEF TableOK, Filled
<1>2. ASSUME NEW x \in Slots
      PROVE  /\ u[x] \in Process
             /\ u[x].isInitialized = t[x].isInitialized
             /\ u[x].PID = t[x].PID /\ u[x].state = t[x].state
             /\ u[x].parent = IF x = c THEN q ELSE t[x].parent
             /\ u[x].prevSibling = IF x = first THEN c ELSE t[x].prevSibling
             /\ u[x].nextSibling = IF x = c /\ first # NULL
                                   THEN first ELSE t[x].nextSibling
             /\ u[x].firstChild = IF x = q THEN c ELSE t[x].firstChild
  <2> DEFINE r == t[x]
             a == IF x = c THEN q ELSE r.parent
             b == IF x = first THEN c ELSE r.prevSibling
             d == IF x = c /\ first # NULL THEN first ELSE r.nextSibling
             e == IF x = q THEN c ELSE r.firstChild
  <2>1. u[x] = [r EXCEPT !.parent = a, !.prevSibling = b, !.nextSibling = d,
                         !.firstChild = e]
    BY DEF Adopted
  <2>2. first \in Link /\ r \in Process
    BY <1>1 DEF Process
  <2>3. a \in Link /\ b \in Link /\ d \in Link /\ e \in Link
    BY <2>2 DEF Process, Link
  <2> DEFINE v == u[x]
  <2> HIDE DEF r, a, b, d, e, v, u
  <2>4. r \in Process /\ v = [r EXCEPT !.parent = a, !.prevSibling = b,
                              !.nextSibling = d, !.firstChild = e]
    BY <2>1, <2>2 DEF v
  <2>5. v \in Process
    BY <2>3, <2>4 DEF Process
  <2>6. v.isInitialized = r.isInitialized
    BY <2>4 DEF Process
  <2>7. v.PID = r.PID
    BY <2>4 DEF Process
  <2>8. v.state = r.state
    BY <2>4 DEF Process
  <2>9. v.parent = a /\ v.prevSibling = b
    BY <2>4 DEF Process
  <2>10. v.nextSibling = d /\ v.firstChild = e
    BY <2>4 DEF Process
  <2> QED
    BY <2>5, <2>6, <2>7, <2>8, <2>9, <2>10 DEF v, r, a, b, d, e
<1>3. u \in [Slots -> Process]
  <2>1. u = [x \in Slots |-> u[x]]
    BY DEF Adopted
  <2> QED
    BY <2>1, <1>2
<1>4. /\ first # c
      /\ first # NULL => /\ first \in Slots /\ t[first].parent = q
                         /\ t[first].prevSibling = NULL
      /\ t[c].nextSibling = NULL /\ t[c].prevSibling = NULL
  BY <1>1 DEF Linked, Process, Link
<1> HIDE DEF u, first
<1>5. ASSUME NEW x \in Slots PROVE Linked(u, x)
  <2>1. /\ t[x].firstChild \in Slots \cup {NULL}
        /\ t[x].nextSibling \in Slots \cup {NULL}
        /\ t[x].prevSibling \in Slots \cup {NULL}
        /\ t[x].parent \in Slots \cup {NULL}
    BY <1>1 DEF Process, Link
  <2>2. x # NULL
    BY <1>1
  <2>3. u[x].firstChild # NULL =>
            /\ u[u[x].firstChild].parent = x
            /\ u[u[x].firstChild].prevSibling = NULL
    BY <1>1, <1>2, <1>4, <2>1, <2>2 DEF Linked, first
  <2>4. u[x].nextSibling # NULL =>
            /\ u[u[x].nextSibling].parent = u[x].parent
            /\ u[u[x].nextSibling].prevSibling = x
            /\ u[u[x].nextSibling].PID < u[x].PID
    BY <1>1, <1>2, <1>4, <2>1, <2>2 DEF Linked
  <2>5. u[x].prevSibling # NULL => u[u[x].prevSibling].nextSibling = x
    BY <1>1, <1>2, <1>4, <2>1, <2>2 DEF Linked
  <2>6. u[x].parent # NULL =>
            /\ u[u[x].parent].firstChild # NULL
            /\ u[x].prevSibling = NULL => u[u[x].parent].firstChild = x
    BY <1>1, <1>2, <1>4, <2>1, <2>2 DEF Linked, first
  <2>7. u[x].parent = NULL => u[x].nextSibling = NULL /\ u[x].prevSibling = NULL
    BY <1>1, <1>2, <1>4, <2>1, <2>2 DEF Linked
  <2> QED
    BY <2>3, <2>4, <2>5, <2>6, <2>7 DEF Linked
<1>6. Ordered(u)
  <2> SUFFICES ASSUME NEW x \in Slots, NEW z \in Slots,
                      x # z, u[x].parent # NULL, u[x].parent = u[z].parent
               PROVE  /\ \/ u[x].PID < u[z].PID
                         \/ /\ u[x].nextSibling # NULL
                            /\ u[z].PID <= u[u[x].nextSibling].PID
                      /\ u[z].PID <= u[u[u[z].parent].firstChild].PID
    BY DEF Ordered
  <2>1. /\ t[x].nextSibling \in Slots \cup {NULL}
        /\ t[z].parent \in Slots \cup {NULL}
        /\ Linked(t, z) /\ Linked(t, x)
        /\ \A y \in Slots : t[y].PID \in Nat /\ t[y].firstChild \in Slots \cup {NULL}
    BY <1>1 DEF Process, Link
  <2>2. CASE x = c
    <3>1. t[z].parent = q /\ first # NULL /\ t[z].PID <= t[first].PID
      <4>1. t[z].parent = q /\ first # NULL
        BY <2>1, <2>2, <1>1, <1>2 DEF Linked, first
      <4>2. CASE z = first
        BY <4>1, <4>2, <2>1
      <4>3. CASE z # first
        BY <4>1, <4>3, <1>1, <1>4 DEF TableOK, Ordered, first
      <4> QED
        BY <4>1, <4>2, <4>3
    <3> QED
      BY <3>1, <2>2, <2>1, <1>1, <1>2, <1>4
  <2>3. CASE z = c
    BY <2>3, <2>1, <1>1, <1>2, <1>4
  <2>4. CASE x # c /\ z # c
    <3>1. /\ t[x].parent = t[z].parent /\ t[x].parent # NULL
          /\ \/ t[x].PID < t[z].PID
             \/ /\ t[x].nextSibling # NULL
                /\ t[z].PID <= t[t[x].nextSibling].PID
          /\ t[z].PID <= t[t[t[z].parent].firstChild].PID
      BY <2>4, <1>2 DEF TableOK, Ordered
    <3>2. /\ u[x].nextSibling = t[x].nextSibling
          /\ u[x].PID = t[x].PID /\ u[z].PID = t[z].PID
          /\ u[z].parent = t[z].parent
      BY <2>4, <1>2
    <3>3. \/ u[x].PID < u[z].PID
          \/ /\ u[x].nextSibling # NULL
             /\ u[z].PID <= u[u[x].nextSibling].PID
      BY <3>1, <3>2, <2>1, <1>2
    <3>4. u[z].PID <= u[u[u[z].parent].firstChild].PID
      <4>1. CASE t[z].parent = q
        BY <4>1, <3>2, <2>4, <2>1, <1>2
      <4>2. CASE t[z].parent # q
        BY <4>2, <3>1, <3>2, <2>1, <1>2, <1>1 DEF Linked
      <4> QED
        BY <4>1, <4>2
    <3> QED
      BY <3>3, <3>4
  <2> QED
    BY <2>2, <2>3, <2>4
<1>7. Filled(u, n)
  <2>1. ASSUME NEW x \in Slots, ~u[x].isInitialized
        PROVE  u[x] = Blank
    <3>1. t[x] = Blank /\ x # c /\ x # q
      BY <2>1, <1>2 DEF TableOK, Filled
    <3>2. x # first
      BY <3>1, <1>4, <1>1, BlankFields
    <3>3. u[x] = t[x]
      BY <3>1, <3>2, <1>1 DEF u, Adopted, first, Process
    <3> QED
      BY <3>1, <3>3
  <2>2. ASSUME NEW x \in Slots, u[x].isInitialized
        PROVE  /\ u[x].state # "" /\ 0 < u[x].PID /\ u[x].PID < n
               /\ getProcess(u[x].PID) = x
    BY <2>2, <1>2 DEF TableOK, Filled
  <2> QED
    BY <2>1, <2>2, <1>3 DEF Filled
<1>8. TableOK(u, n)
  BY <1>5, <1>6, <1>7 DEF TableOK
<1> QED
  BY <1>2, <1>8 DEF u

-----------------------------------------------------------------------------
Reaped(t, q, c) == [Unlinked(t, q, c) EXCEPT ![c] = Blank]

\* join: a childless process leaves the list of its parent, and its slot is blank;
\* of the others nothing but links is written.
LEMMA UnlinkedInTable ==
    ASSUME NEW t, NEW n, TableOK(t, n), NEW q \in Slots, NEW c \in Slots,
           t[c].parent = q, t[c].firstChild = NULL, t[c].isInitialized
    PROVE  LET w == Reaped(t, q, c)
           IN  /\ TableOK(w, n)
               /\ w[c] = Blank
               /\ \A x \in Slots \ {c} :
                    /\ w[x].isInitialized = t[x].isInitialized
                    /\ w[x].PID = t[x].PID /\ w[x].state = t[x].state
                    /\ w[x].parent = t[x].parent
<1> DEFINE u == Unlinked(t, q, c)
           w == [u EXCEPT ![c] = Blank]
           younger == t[c].prevSibling
           older == t[c].nextSibling
<1>1. /\ t \in [Slots -> Process] /\ NULL \notin Slots /\ q # NULL /\ c # NULL
      /\ \A x \in Slots : t[x] \in Process /\ Linked(t, x)
  BY SlotOfPid DEF TableOK, Filled
<1>2. ASSUME NEW x \in Slots, x # c
      PROVE  /\ w[x] = u[x] /\ u[x] \in Process
             /\ u[x].isInitialized = t[x].isInitialized
             /\ u[x].PID = t[x].PID /\ u[x].state = t[x].state
             /\ u[x].parent = t[x].parent
             /\ u[x].nextSibling = IF x = younger THEN older ELSE t[x].nextSibling
             /\ u[x].firstChild = IF x = q /\ younger = NULL
                                  THEN older ELSE t[x].firstChild
             /\ u[x].prevSibling = IF x = older THEN younger ELSE t[x].prevSibling
  <2> DEFINE r == t[x]
             d == IF x = younger THEN older ELSE r.nextSibling
             e == IF x = q /\ younger = NULL THEN older ELSE r.firstChild
             b == IF x = older THEN younger ELSE r.prevSibling
  <2>1. u[x] = [r EXCEPT !.nextSibling = d, !.firstChild = e, !.prevSibling = b]
    BY DEF Unlinked
  <2>2. older \in Link /\ younger \in Link /\ r \in Process
    BY <1>1 DEF Process
  <2>3. b \in Link /\ d \in Link /\ e \in Link
    BY <2>2 DEF Process, Link
  <2>11. w[x] = u[x]
    BY <1>2 DEF Unlinked
  <2> DEFINE v == u[x]
  <2> HIDE DEF r, b, d, e, v, u, w
  <2>4. r \in Process /\ v = [r EXCEPT !.nextSibling = d, !.firstChild = e,
                                       !.prevSibling = b]
    BY <2>1, <2>2 DEF v
  <2>5. v \in Process
    BY <2>3, <2>4 DEF Process
  <2>6. v.isInitialized = r.isInitialized
    BY <2>4 DEF Process
  <2>7. v.PID = r.PID
    BY <2>4 DEF Process
  <2>8. v.state = r.state
    BY <2>4 DEF Process
  <2>9. v.parent = r.parent
    BY <2>4 DEF Process
  <2>10. v.nextSibling = d /\ v.firstChild = e /\ v.prevSibling = b
    BY <2>4 DEF Process
  <2> QED
    BY <2>5, <2>6, <2>7, <2>8, <2>9, <2>10, <2>11 DEF v, r, b, d, e
<1>3. w[c] = Blank
  BY DEF Unlinked
<1>4. w \in [Slots -> Process]
  <2>1. w = [x \in Slots |-> w[x]]
    BY DEF Unlinked
  <2>2. \A x \in Slots : w[x] \in Process
    BY <1>2, <1>3, RecordTypes
  <2> QED
    BY <2>1, <2>2
<1> HIDE DEF u, w, younger, older
\* The neighbours of the child that leaves.
<1>5. /\ older \in Slots \cup {NULL} /\ older # c
      /\ older # NULL => /\ t[older].parent = q /\ t[older].prevSibling = c
                         /\ t[older].PID < t[c].PID
  BY <1>1 DEF Linked, Process, Link, older
<1>6. /\ younger \in Slots \cup {NULL} /\ younger # c
      /\ younger # NULL => /\ t[younger].nextSibling = c
                           /\ t[younger].parent = q
                           /\ t[c].PID < t[younger].PID
  BY <1>1, <1>5 DEF Linked, Process, Link, younger, older
<1>7. /\ q # c /\ t[q].firstChild # NULL
      /\ younger = NULL => t[q].firstChild = c
  BY <1>1 DEF Linked, younger
\* Another child of the same parent, if it is not younger, is not beyond the next.
<1>8. ASSUME NEW z \in Slots, z # c, t[z].parent = q, t[z].PID <= t[c].PID
      PROVE  /\ older # NULL /\ t[z].PID <= t[older].PID
  <2>4. t[z].isInitialized
    BY <1>1, <1>8, BlankFields DEF TableOK, Filled
  <2>5. getProcess(t[z].PID) = z /\ getProcess(t[c].PID) = c
    BY <2>4 DEF TableOK, Filled
  <2>1. t[z].PID # t[c].PID
    BY <1>8, <2>5
  <2>2. t[z].PID < t[c].PID
    BY <1>1, <1>8, <2>1 DEF Process
  <2>3. t[z].PID \in Nat /\ t[c].PID \in Nat
    BY <1>1 DEF Process
  <2> QED
    BY <1>1, <1>8, <2>2, <2>3 DEF TableOK, Ordered, older
<1>9. ASSUME NEW x \in Slots, x # c
      PROVE  /\ t[x].firstChild \in Slots \cup {NULL}
             /\ t[x].nextSibling \in Slots \cup {NULL}
             /\ t[x].prevSibling \in Slots \cup {NULL}
             /\ t[x].parent \in (Slots \cup {NULL}) \ {c}
             /\ t[x].PID \in Nat
             /\ t[x].nextSibling = c => x = younger
             /\ t[x].prevSibling = c => x = older
             /\ t[x].firstChild = c => x = q /\ younger = NULL
  BY <1>1, <1>9 DEF Linked, Process, Link, younger, older
<1>10. ASSUME NEW x \in Slots PROVE Linked(w, x)
  <2>1. CASE x = c
    BY <2>1, <1>3, BlankFields DEF Linked
  <2>2. CASE x # c
    <3>1. w[x].firstChild # NULL =>
              /\ w[w[x].firstChild].parent = x
              /\ w[w[x].firstChild].prevSibling = NULL
      BY <2>2, <1>1, <1>2, <1>5, <1>6, <1>7, <1>9 DEF Linked
    <3>2. w[x].nextSibling # NULL =>
              /\ w[w[x].nextSibling].parent = w[x].parent
              /\ w[w[x].nextSibling].prevSibling = x
              /\ w[w[x].nextSibling].PID < w[x].PID
      <4>1. CASE x = younger
        <5>1. w[x].nextSibling = older /\ w[x].PID = t[x].PID /\ w[x].parent = q
          BY <2>2, <4>1, <1>1, <1>2, <1>6
        <5>2. CASE older # NULL
          <6>1. /\ w[older].parent = q /\ w[older].prevSibling = younger
                /\ w[older].PID = t[older].PID /\ t[older].PID \in Nat
            BY <5>2, <1>2, <1>5, <1>9
          <6>2. t[older].PID < t[x].PID
            BY <5>2, <6>1, <4>1, <1>1, <1>5, <1>6, <2>2 DEF Process
          <6> QED
            BY <5>1, <6>1, <6>2, <4>1
        <5> QED
          BY <5>1, <5>2
      <4>2. CASE x # younger
        BY <4>2, <2>2, <1>1, <1>2, <1>5, <1>6, <1>9 DEF Linked
      <4> QED
        BY <4>1, <4>2
    <3>3. w[x].prevSibling # NULL => w[w[x].prevSibling].nextSibling = x
      BY <2>2, <1>1, <1>2, <1>5, <1>6, <1>9 DEF Linked
    <3>4. w[x].parent # NULL =>
              /\ w[w[x].parent].firstChild # NULL
              /\ w[x].prevSibling = NULL => w[w[x].parent].firstChild = x
      <4>1. CASE t[x].parent = q /\ younger = NULL
        <5>1. t[q].firstChild = c
          BY <4>1, <1>7
        <5>2. t[x].PID <= t[c].PID
          BY <4>1, <5>1, <2>2, <1>1 DEF TableOK, Ordered
        <5>3. older # NULL
          BY <4>1, <5>2, <2>2, <1>8
        <5>4. w[x].parent = q /\ w[q].firstChild = older
          BY <4>1, <2>2, <1>2, <1>7
        <5>5. w[x].prevSibling = NULL => x = older
          BY <4>1, <5>1, <2>2, <1>1, <1>2 DEF Linked
        <5> QED
          BY <5>3, <5>4, <5>5
      <4>2. CASE ~(t[x].parent = q /\ younger = NULL)
        <5>1. w[x].parent = t[x].parent
          BY <2>2, <1>2
        <5>2. CASE t[x].parent # NULL
          <6>1. /\ t[x].parent \in Slots /\ t[x].parent # c
                /\ t[t[x].parent].firstChild # NULL
            BY <5>2, <2>2, <1>1, <1>9 DEF Linked
          <6>2. w[t[x].parent].firstChild = t[t[x].parent].firstChild
            BY <6>1, <4>2, <1>2
          <6>3. w[x].prevSibling = NULL => t[x].prevSibling = NULL
            BY <2>2, <4>2, <1>1, <1>2, <1>5
          <6> QED
            BY <5>1, <5>2, <6>1, <6>2, <6>3, <1>1 DEF Linked
        <5> QED
          BY <5>1, <5>2
      <4> QED
        BY <4>1, <4>2
    <3>5. w[x].parent = NULL => w[x].nextSibling = NULL /\ w[x].prevSibling = NULL
      BY <2>2, <1>1, <1>2, <1>5, <1>6 DEF Linked
    <3> QED
      BY <3>1, <3>2, <3>3, <3>4, <3>5 DEF Linked
  <2> QED
    BY <2>1, <2>2
<1>11. Ordered(w)
  <2> SUFFICES ASSUME NEW x \in Slots, NEW z \in Slots,
                      x # z, w[x].parent # NULL, w[x].parent = w[z].parent
               PROVE  /\ \/ w[x].PID < w[z].PID
                         \/ /\ w[x].nextSibling # NULL
                            /\ w[z].PID <= w[w[x].nextSibling].PID
                      /\ w[z].PID <= w[w[w[z].parent].firstChild].PID
    BY DEF Ordered
  <2>1. x # c /\ z # c
    BY <1>3, BlankFields
  <2>2. /\ w[x].parent = t[x].parent /\ w[z].parent = t[z].parent
        /\ w[x].PID = t[x].PID /\ w[z].PID = t[z].PID
    BY <2>1, <1>2
  <2>3. /\ \/ t[x].PID < t[z].PID
           \/ /\ t[x].nextSibling # NULL
              /\ t[z].PID <= t[t[x].nextSibling].PID
        /\ t[z].PID <= t[t[t[z].parent].firstChild].PID
    BY <2>1, <2>2 DEF TableOK, Ordered
  <2>4. \/ w[x].PID < w[z].PID
        \/ /\ w[x].nextSibling # NULL
           /\ w[z].PID <= w[w[x].nextSibling].PID
    <3>1. CASE x = younger
      <4>1. CASE t[x].PID < t[z].PID
        BY <4>1, <2>2
      <4>2. CASE ~(t[x].PID < t[z].PID)
        <5>1. t[z].PID <= t[c].PID /\ t[z].parent = q
          BY <4>2, <3>1, <2>1, <2>2, <2>3, <1>1, <1>6
        <5>2. older # NULL /\ t[z].PID <= t[older].PID
          BY <5>1, <2>1, <1>8
        <5> QED
          BY <5>2, <3>1, <2>1, <2>2, <1>2, <1>5
      <4> QED
        BY <4>1, <4>2
    <3>2. CASE x # younger
      BY <3>2, <2>1, <2>2, <2>3, <1>2, <1>9
    <3> QED
      BY <3>1, <3>2
  <2>5. w[z].PID <= w[w[w[z].parent].firstChild].PID
    <3>1. t[z].parent \in Slots /\ t[z].parent # c
      BY <2>1, <2>2, <1>9
    <3>2. CASE t[z].parent = q /\ younger = NULL
      <4>1. older # NULL /\ t[z].PID <= t[older].PID
        BY <3>2, <2>1, <2>3, <1>7, <1>8
      <4>2. w[q].firstChild = older
        BY <3>2, <1>2, <1>7
      <4>3. w[older].PID = t[older].PID
        BY <4>1, <1>2, <1>5
      <4>4. w[w[z].parent].firstChild = older
        BY <3>2, <4>2, <2>2
      <4> HIDE DEF older
      <4> QED
        BY <4>1, <4>3, <4>4, <2>2
    <3>3. CASE ~(t[z].parent = q /\ younger = NULL)
      <4>1. w[t[z].parent].firstChild = t[t[z].parent].firstChild
        BY <3>1, <3>3, <1>2
      <4>2. /\ t[t[z].parent].firstChild \in Slots
            /\ t[t[z].parent].firstChild # c
        BY <3>1, <3>3, <2>1, <1>1, <1>9 DEF Linked
      <4>3. w[t[t[z].parent].firstChild].PID = t[t[t[z].parent].firstChild].PID
        BY <4>2, <1>2
      <4>4. w[w[w[z].parent].firstChild].PID = t[t[t[z].parent].firstChild].PID
        BY <4>1, <4>3, <2>2
      <4> QED
        BY <4>4, <2>2, <2>3
    <3> QED
      BY <3>2, <3>3
  <2> QED
    BY <2>4, <2>5
<1>12. Filled(w, n)
  <2>1. ASSUME NEW x \in Slots, ~w[x].isInitialized
        PROVE  w[x] = Blank
    <3>1. CASE x # c
      <4>1. t[x] = Blank
        BY <3>1, <2>1, <1>2 DEF TableOK, Filled
      <4>2. x # older /\ x # younger /\ x # q
        BY <4>1, BlankIsFree DEF older, younger
      <4>3. u[x] = t[x]
        BY <4>2, <1>1 DEF u, Unlinked, older, younger, Process
      <4> QED
        BY <4>1, <4>3, <3>1, <1>2
    <3> QED
      BY <3>1, <1>3
  <2>2. ASSUME NEW x \in Slots, w[x].isInitialized
        PROVE  /\ w[x].state # "" /\ 0 < w[x].PID /\ w[x].PID < n
               /\ getProcess(w[x].PID) = x
    <3>1. x # c
      BY <2>2, <1>3, BlankFields
    <3>2. t[x].isInitialized /\ w[x].state = t[x].state /\ w[x].PID = t[x].PID
      BY <3>1, <2>2, <1>2
    <3> QED
      BY <3>2 DEF TableOK, Filled
  <2> QED
    BY <2>1, <2>2, <1>4 DEF Filled
<1>13. TableOK(w, n)
  BY <1>10, <1>11, <1>12 DEF TableOK
<1>14. w = Reaped(t, q, c)
  BY DEF w, u, Reaped
<1> QED
  BY <1>2, <1>3, <1>13, <1>14

-----------------------------------------------------------------------------
Switched(t, a, b, old) == [t EXCEPT ![a].state = old, ![b].state = "Running"]

\* A context switch writes states only.
LEMMA SwitchedInTable ==
    ASSUME NEW t, NEW n, TableOK(t, n), NEW a \in Slots, NEW b \in Slots,
           t[a].isInitialized, t[b].isInitialized,
           NEW old \in {"Runnable", "Terminated"}
    PROVE  LET w == Switched(t, a, b, old)
           IN  /\ TableOK(w, n)
               /\ \A x \in Slots :
                    /\ w[x].isInitialized = t[x].isInitialized
                    /\ w[x].PID = t[x].PID /\ w[x].parent = t[x].parent
                    /\ w[x].firstChild = t[x].firstChild
                    /\ w[x].state = IF x = b THEN "Running"
                                    ELSE IF x = a THEN old ELSE t[x].state
<1> DEFINE s(x) == IF x = b THEN "Running" ELSE IF x = a THEN old ELSE t[x].state
           w == [t EXCEPT ![a].state = old, ![b].state = "Running"]
<1>1. t \in [Slots -> Process]
  BY DEF TableOK, Filled
<1>2. ASSUME NEW x \in Slots
      PROVE  /\ w[x] = [t[x] EXCEPT !.state = s(x)]
             /\ s(x) \in States
             /\ x # a /\ x # b => w[x] = t[x]
  <2>1. t[x] \in Process /\ t[x].state \in States
    BY <1>1 DEF Process
  <2>2. CASE x = b
    BY <1>1, <2>2, <2>1 DEF States, Process
  <2>3. CASE x # b /\ x = a
    BY <1>1, <2>3, <2>1 DEF States, Process
  <2>4. CASE x # b /\ x # a
    BY <1>1, <2>4, <2>1 DEF States, Process
  <2> QED
    BY <2>2, <2>3, <2>4
<1>3. \A x \in Slots : x # b /\ x # a => s(x) = t[x].state
  OBVIOUS
<1>4. \A x \in Slots : x = b \/ x = a => s(x) \in {"Running", "Runnable", "Terminated"}
  OBVIOUS
<1>5. w = [x \in Slots |-> w[x]]
  BY <1>1
<1>9. \A x \in Slots : s(x) = IF x = b THEN "Running"
                              ELSE IF x = a THEN old ELSE t[x].state
  OBVIOUS
<1> HIDE DEF s, w
<1>6. ASSUME NEW x \in Slots
      PROVE  /\ w[x] \in Process /\ w[x].state = s(x)
             /\ w[x].isInitialized = t[x].isInitialized
             /\ w[x].PID = t[x].PID /\ w[x].parent = t[x].parent
             /\ w[x].firstChild = t[x].firstChild
             /\ w[x].nextSibling = t[x].nextSibling
             /\ w[x].prevSibling = t[x].prevSibling
  <2> DEFINE r == t[x]
             v == w[x]
             e == s(x)
  <2>1. r \in Process /\ e \in States /\ v = [r EXCEPT !.state = e]
    BY <1>1, <1>2
  <2> HIDE DEF r, v, e
  <2>2. v \in Process
    BY <2>1 DEF Process
  <2>3. /\ v.state = e /\ v.isInitialized = r.isInitialized
        /\ v.PID = r.PID /\ v.parent = r.parent
    BY <2>1 DEF Process
  <2>4. /\ v.firstChild = r.firstChild
        /\ v.nextSibling = r.nextSibling /\ v.prevSibling = r.prevSibling
    BY <2>1 DEF Process
  <2> QED
    BY <2>2, <2>3, <2>4 DEF r, v, e
<1>7. ASSUME NEW x \in Slots PROVE Linked(w, x)
  <2>1. /\ Linked(t, x) /\ t[x].parent \in Slots \cup {NULL}
        /\ t[x].firstChild \in Slots \cup {NULL}
        /\ t[x].nextSibling \in Slots \cup {NULL}
        /\ t[x].prevSibling \in Slots \cup {NULL}
    BY <1>1 DEF TableOK, Process, Link
  <2> QED
    BY <2>1, <1>6 DEF Linked
<1>8. Ordered(w)
  <2> SUFFICES ASSUME NEW x \in Slots, NEW z \in Slots,
                      x # z, t[x].parent # NULL, t[x].parent = t[z].parent
               PROVE  /\ \/ w[x].PID < w[z].PID
                         \/ /\ w[x].nextSibling # NULL
                            /\ w[z].PID <= w[w[x].nextSibling].PID
                      /\ w[z].PID <= w[w[w[z].parent].firstChild].PID
    BY <1>6 DEF Ordered
  <2>1. /\ t[x].nextSibling \in Slots \cup {NULL} /\ t[z].parent \in Slots
        /\ t[t[z].parent].firstChild \in Slots
    BY <1>1 DEF TableOK, Linked, Process, Link
  <2>2. /\ \/ t[x].PID < t[z].PID
           \/ /\ t[x].nextSibling # NULL
              /\ t[z].PID <= t[t[x].nextSibling].PID
        /\ t[z].PID <= t[t[t[z].parent].firstChild].PID
    BY DEF TableOK, Ordered
  <2> QED
    BY <2>1, <2>2, <1>6
<1>10. Filled(w, n)
  <2>1. w \in [Slots -> Process]
    BY <1>5, <1>6
  <2>2. ASSUME NEW x \in Slots
        PROVE  /\ ~w[x].isInitialized => w[x] = Blank
               /\ w[x].isInitialized =>
                    /\ w[x].state # "" /\ 0 < w[x].PID /\ w[x].PID < n
                    /\ getProcess(w[x].PID) = x
    <3>1. CASE x = a \/ x = b
      BY <3>1, <1>4, <1>6 DEF TableOK, Filled
    <3>2. CASE ~(x = a \/ x = b)
      BY <3>2, <1>2 DEF TableOK, Filled
    <3> QED
      BY <3>1, <3>2
  <2> QED
    BY <2>1, <2>2 DEF Filled
<1>11. TableOK(w, n)
  BY <1>7, <1>8, <1>10 DEF TableOK
<1>12. w = Switched(t, a, b, old)
  BY DEF w, Switched
<1> QED
  BY <1>6, <1>9, <1>11, <1>12

-----------------------------------------------------------------------------
(***************************************************************************)
(* The inductive invariant: the table, and who runs and where.             *)
(***************************************************************************)
NamedIn(t, x) == t[x].parent # NULL \/ x = getProcess(1)

TypeInv ==
    /\ runningProcessID \in Nat \ {0} /\ pidCounter \in Nat \ {0}
    /\ resume \in [Slots -> PCs]
    /\ curChild \in Link
    /\ machine \in {"on", "halted", "deadlock", "crashed"}

\* The running process is the one marked Running, once it has begun, and it is
\* one that somebody could name.
RunInv ==
    /\ processTable[Current].isInitialized
    /\ processTable[Current].PID = runningProcessID
    /\ Named(Current)
    /\ processTable[Current].state =
            IF resume[1] = "startup" THEN "Runnable" ELSE "Running"
    /\ \A x \in Slots : processTable[x].state = "Running" =>
            x = Current /\ resume[1] # "startup"

Booting == {"startup", "init_sentinel", "init_testcase", "init_switch"}

\* init never leaves; until it has switched to testcase_main nothing else runs.
BootInv ==
    /\ processTable[1].isInitialized /\ processTable[1].PID = 1
    /\ processTable[1].parent = NULL
    /\ resume[1] \in Booting \cup {"init_halt"}
    /\ \A x \in Slots \ {1} : processTable[x].isInitialized =>
            resume[x] \in {"sentinel", "user", "join"}
    /\ resume[1] \in Booting => runningProcessID = 1
    /\ resume[1] \in {"startup", "init_sentinel"} =>
            /\ pidCounter = 2
            /\ \A x \in Slots \ {1} : processTable[x] = Blank
    /\ resume[1] = "init_testcase" =>
            /\ pidCounter = 3
            /\ \A x \in Slots \ {1, 2} : processTable[x] = Blank
    /\ resume[1] = "init_switch" =>
            /\ processTable[3].isInitialized /\ processTable[3].PID = 3
            /\ processTable[3].parent # NULL /\ processTable[3].state = "Runnable"

\* Only the running process is in join, at one of its children.
JoinInv ==
    /\ \A x \in Slots \ {1} :
            processTable[x].isInitialized /\ resume[x] = "join" =>
                x = Current /\ curChild # NULL
    /\ curChild # NULL =>
            resume[Current] = "join" /\ processTable[curChild].parent = Current

\* Nobody outlives its parent, and the parent is one that somebody can name.
ParentInv ==
    \A x \in Slots : processTable[x].parent # NULL =>
        /\ processTable[processTable[x].parent].state # "Terminated"
        /\ Named(processTable[x].parent)

Inv ==
    /\ TypeInv
    /\ TableOK(processTable, pidCounter)
    /\ RunInv /\ BootInv /\ JoinInv /\ ParentInv

-----------------------------------------------------------------------------
\* The running process has a slot, and so has init.
LEMMA InvFacts ==
    ASSUME Inv
    PROVE  /\ Current \in Slots /\ 1 \in Slots /\ NULL \notin Slots
           /\ processTable \in [Slots -> Process] /\ resume \in [Slots -> PCs]
           /\ runningProcessID \in Nat /\ pidCounter \in Nat
           /\ \A x \in Slots : processTable[x].parent \in Slots \cup {NULL}
  BY SlotOfPid DEF Inv, TypeInv, Current, TableOK, Filled, Process, Link

\* What fork1 has done when it has made the process pid.
LEMMA CreateEffect ==
    ASSUME Inv, NEW pid, NEW priority \in Int, NEW entry, NEW back,
           Create(pid, priority, entry, back)
    PROVE  LET c == getProcess(pid)
           IN  /\ pid \in Nat /\ pidCounter <= pid /\ c \in Slots
               /\ processTable[c] = Blank /\ c # Current /\ c # 1
               /\ pidCounter' = pid + 1 /\ TableOK(processTable', pidCounter')
               /\ processTable'[c].isInitialized /\ processTable'[c].PID = pid
               /\ processTable'[c].state = "Runnable"
               /\ processTable'[c].parent = IF ValidPriority(priority)
                                            THEN Current ELSE NULL
               /\ \A x \in Slots \ {c} :
                    /\ processTable'[x].isInitialized = processTable[x].isInitialized
                    /\ processTable'[x].PID = processTable[x].PID
                    /\ processTable'[x].state = processTable[x].state
                    /\ processTable'[x].parent = processTable[x].parent
                    /\ processTable[x] = Blank => processTable'[x] = Blank
<1> DEFINE c == getProcess(pid)
           t == [processTable EXCEPT ![c] = Created(pid, priority)]
<1>1. /\ pid \in Nat /\ pidCounter <= pid /\ 1 <= pid /\ c \in Slots
      /\ processTable[c] = Blank /\ Current \in Slots /\ NULL \notin Slots
  <2>1. pid \in Nat /\ pidCounter <= pid /\ 1 <= pid
    BY InvFacts, CooperativeAssumption DEF Create, FirstOpen, Inv, TypeInv
  <2>2. c \in Slots
    BY <2>1, SlotOfPid
  <2> QED
    BY <2>1, <2>2, InvFacts DEF Create, FirstOpen, Open, Inv, TableOK, Filled
<1>2. c # Current /\ c # 1
  BY <1>1, BlankFields DEF Inv, RunInv, BootInv
<1>3. TableOK(t, pid + 1)
  BY <1>1, CreatedInTable DEF Inv
<1>4. /\ t[c] = Created(pid, priority)
      /\ \A x \in Slots : x # c => t[x] = processTable[x]
  BY <1>1, InvFacts
<1>5. /\ t[c].isInitialized /\ t[c].PID = pid /\ t[c].state = "Runnable"
      /\ t[c].parent = NULL /\ t[c].firstChild = NULL
  BY <1>4, CreatedFields
<1>6. pidCounter' = pid + 1
      /\ processTable' = IF ValidPriority(priority) THEN Adopted(t, Current, c)
                                                    ELSE t
  BY DEF Create
<1> HIDE DEF t
<1>7. CASE ValidPriority(priority)
  <2>1. processTable' = Adopted(t, Current, c)
    BY <1>6, <1>7
  <2>2. \A x \in Slots : x # c => t[x].PID < t[c].PID
    <3>1. ASSUME NEW x \in Slots, x # c PROVE t[x].PID < pid
      <4>1. processTable[x].PID < pidCounter
        <5>1. CASE processTable[x].isInitialized
          BY <5>1 DEF Inv, TableOK, Filled
        <5>2. CASE ~processTable[x].isInitialized
          <6>1. processTable[x] = Blank
            BY <5>2 DEF Inv, TableOK, Filled
          <6>2. 0 < pidCounter
            BY DEF Inv, TypeInv
          <6> QED
            BY <6>1, <6>2, BlankFields
        <5> QED
          BY <5>1, <5>2
      <4>2. processTable[x].PID \in Nat
        BY InvFacts DEF Process
      <4> QED
        BY <1>1, <1>4, <3>1, <4>1, <4>2, InvFacts
    <3> QED
      BY <3>1, <1>5
  <2>3. t[Current].isInitialized
    BY <1>1, <1>2, <1>4 DEF Inv, RunInv
  <2>4. /\ TableOK(processTable', pid + 1)
        /\ \A x \in Slots :
             /\ processTable'[x].isInitialized = t[x].isInitialized
             /\ processTable'[x].PID = t[x].PID
             /\ processTable'[x].state = t[x].state
             /\ processTable'[x].parent = IF x = c THEN Current ELSE t[x].parent
    BY <1>1, <1>2, <1>3, <1>5, <2>1, <2>2, <2>3, AdoptedInTable
  <2>5. ASSUME NEW x \in Slots \ {c}, processTable[x] = Blank
        PROVE  processTable'[x] = Blank
    BY <2>4, <2>5, <1>4, BlankFields DEF TableOK, Filled
  <2> QED
    BY <1>1, <1>2, <1>4, <1>5, <1>6, <1>7, <2>4, <2>5
<1>8. CASE ~ValidPriority(priority)
  BY <1>1, <1>2, <1>3, <1>4, <1>5, <1>6, <1>8
<1> QED
  BY <1>7, <1>8

\* What a context switch to a process that somebody can name has done.
LEMMA SwitchEffect ==
    ASSUME Inv, NEW x \in Slots, processTable[x].isInitialized,
           NEW old \in {"Runnable", "Terminated"},
           SwitchFrom(old, processTable[x].PID)
    PROVE  /\ runningProcessID' = processTable[x].PID /\ Current' = x
           /\ pidCounter' = pidCounter /\ curChild' = curChild
           /\ machine' = machine
           /\ TableOK(processTable', pidCounter)
           /\ \A y \in Slots :
                /\ processTable'[y].isInitialized = processTable[y].isInitialized
                /\ processTable'[y].PID = processTable[y].PID
                /\ processTable'[y].parent = processTable[y].parent
                /\ processTable'[y].firstChild = processTable[y].firstChild
                /\ processTable'[y].state =
                        IF y = x THEN "Running"
                        ELSE IF y = Current THEN old ELSE processTable[y].state
<1>1. getProcess(processTable[x].PID) = x
  BY DEF Inv, TableOK, Filled
<1>2. /\ processTable' = [processTable EXCEPT ![Current].state = old,
                                              ![x].state = "Running"]
      /\ runningProcessID' = processTable[x].PID
      /\ pidCounter' = pidCounter /\ curChild' = curChild /\ machine' = machine
  BY <1>1 DEF SwitchFrom
<1>3. Current' = x
  BY <1>1, <1>2 DEF Current
<1>4. Current \in Slots /\ processTable[Current].isInitialized
  BY InvFacts DEF Inv, RunInv
<1> DEFINE t == processTable
           a == Current
           w == Switched(t, a, x, old)
<1>5. TableOK(t, pidCounter) /\ a \in Slots /\ t[a].isInitialized
  BY <1>4 DEF Inv
<1> HIDE DEF t, a
<1>6. /\ TableOK(w, pidCounter)
      /\ \A y \in Slots :
           /\ w[y].isInitialized = t[y].isInitialized
           /\ w[y].PID = t[y].PID /\ w[y].parent = t[y].parent
           /\ w[y].firstChild = t[y].firstChild
           /\ w[y].state = IF y = x THEN "Running"
                           ELSE IF y = a THEN old ELSE t[y].state
  <2>1. t[x].isInitialized
    BY DEF t
  <2> QED
    BY <1>5, <2>1, SwitchedInTable
<1>7. processTable' = w
  BY <1>2 DEF t, a, Switched
<1> HIDE DEF w
<1> QED
  BY <1>2, <1>3, <1>6, <1>7 DEF t, a

\* Nobody has a parent without a first child: such a parent has no children.
LEMMA NoChildren ==
    ASSUME Inv, NEW p \in Slots, processTable[p].firstChild = NULL, NEW x \in Slots
    PROVE  processTable[x].parent # p
<1>1. Linked(processTable, x) /\ p # NULL
  BY SlotOfPid DEF Inv, TableOK
<1> QED
  BY <1>1 DEF Linked

\* A dead process has no children left.
LEMMA DeadHasNone ==
    ASSUME Inv, NEW p \in Slots, processTable[p].state = "Terminated"
    PROVE  processTable[p].firstChild = NULL
<1>1. SUFFICES ASSUME processTable[p].firstChild # NULL PROVE FALSE
  OBVIOUS
<1> DEFINE f == processTable[p].firstChild
<1>2. f \in Slots /\ processTable[f].parent = p /\ p # NULL
  BY <1>1, SlotOfPid, InvFacts DEF Inv, TableOK, Linked, Process, Link
<1> QED
  BY <1>2 DEF Inv, ParentInv

\* What join has done when it has collected a child.
LEMMA ReapEffect ==
    ASSUME Inv, JoinReaps
    PROVE  /\ curChild \in Slots /\ curChild # Current /\ curChild # 1
           /\ processTable[curChild].parent = Current
           /\ processTable[curChild].state = "Terminated"
           /\ processTable[curChild].isInitialized
           /\ TableOK(processTable', pidCounter)
           /\ processTable'[curChild] = Blank
           /\ \A x \in Slots \ {curChild} :
                /\ processTable'[x].isInitialized = processTable[x].isInitialized
                /\ processTable'[x].PID = processTable[x].PID
                /\ processTable'[x].state = processTable[x].state
                /\ processTable'[x].parent = processTable[x].parent
           /\ \A x \in Slots : processTable[x].parent # curChild
<1>1. Current \in Slots /\ Current # 1 /\ curChild \in Slots /\ curChild # NULL
  <2>1. Current # 1
    BY InvFacts DEF JoinReaps, At, Inv, BootInv, Booting
  <2>2. curChild # NULL
    BY <2>1, InvFacts DEF JoinReaps, At, Inv, JoinInv, RunInv
  <2> QED
    BY <2>1, <2>2, InvFacts DEF Inv, TypeInv, Link
<1>2. processTable[curChild].parent = Current /\ Current # NULL
  BY <1>1, InvFacts DEF Inv, JoinInv
<1>3. processTable[curChild].state = "Terminated"
  BY DEF JoinReaps
<1>4. processTable[curChild].isInitialized
  BY <1>1, <1>3, BlankFields DEF Inv, TableOK, Filled
<1>5. getProcess(processTable[curChild].PID) = curChild
  BY <1>1, <1>4 DEF Inv, TableOK, Filled
<1>6. processTable[curChild].firstChild = NULL
  BY <1>1, <1>3, DeadHasNone
<1>7. processTable' = [Unlinked(processTable, Current, curChild) EXCEPT
                            ![curChild] = Blank]
  BY <1>5 DEF JoinReaps
<1>8. curChild # 1 /\ curChild # Current
  <2>1. curChild # 1
    BY <1>2 DEF Inv, BootInv
  <2>2. \A x \in Slots : processTable[x].parent # curChild
    BY <1>1, <1>6, NoChildren
  <2> QED
    BY <1>1, <1>2, <2>1, <2>2
<1>9. \A x \in Slots : processTable[x].parent # curChild
  BY <1>1, <1>6, NoChildren
<1> DEFINE t == processTable
           q == Current
           c == curChild
           w == Reaped(t, q, c)
<1>10. /\ TableOK(t, pidCounter) /\ q \in Slots /\ c \in Slots
       /\ t[c].parent = q /\ t[c].firstChild = NULL /\ t[c].isInitialized
  BY <1>1, <1>2, <1>4, <1>6 DEF Inv
<1>11. processTable' = w
  BY <1>7 DEF Reaped
<1> HIDE DEF t, q, c
<1>12. /\ TableOK(w, pidCounter)
       /\ w[c] = Blank
       /\ \A x \in Slots \ {c} :
            /\ w[x].isInitialized = t[x].isInitialized
            /\ w[x].PID = t[x].PID /\ w[x].state = t[x].state
            /\ w[x].parent = t[x].parent
  BY <1>10, UnlinkedInTable
<1> HIDE DEF w
<1> QED
  BY <1>1, <1>2, <1>3, <1>4, <1>8, <1>9, <1>11, <1>12 DEF t, c

-----------------------------------------------------------------------------
(***************************************************************************)
(* The invariant is inductive.                                             *)
(***************************************************************************)

\* phase1_init sets it up.
LEMMA InitInv ==
    ASSUME Init PROVE Inv
<1>1. /\ getProcess(1) = 1 /\ 1 \in Slots /\ NULL \notin Slots /\ Current = 1
      /\ 1 # NULL /\ NULL \in Link
  BY SlotOfPid DEF Init, Current, Link
<1>2. /\ processTable \in [Slots -> Process]
      /\ processTable[1] = Created(1, 6)
      /\ \A x \in Slots : x # 1 => processTable[x] = Blank
  BY <1>1, RecordTypes DEF Init
<1>3. /\ processTable[1].isInitialized /\ processTable[1].PID = 1
      /\ processTable[1].state = "Runnable" /\ processTable[1].parent = NULL
      /\ processTable[1].firstChild = NULL /\ processTable[1].nextSibling = NULL
      /\ processTable[1].prevSibling = NULL
  BY <1>2, CreatedFields
<1>4. ASSUME NEW x \in Slots, x # 1
      PROVE  /\ processTable[x] = Blank /\ ~processTable[x].isInitialized
             /\ processTable[x].state = "" /\ processTable[x].parent = NULL
             /\ processTable[x].firstChild = NULL
             /\ processTable[x].nextSibling = NULL
             /\ processTable[x].prevSibling = NULL
  BY <1>2, <1>4, BlankFields
<1>5. TypeInv
  BY <1>1 DEF TypeInv, Init, PCs
<1>6. TableOK(processTable, pidCounter)
  <2>1. Filled(processTable, 2)
    <3>1. \A x \in Slots :
            /\ ~processTable[x].isInitialized => processTable[x] = Blank
            /\ processTable[x].isInitialized =>
                  /\ processTable[x].state # "" /\ 0 < processTable[x].PID
                  /\ processTable[x].PID < 2 /\ getProcess(processTable[x].PID) = x
      <4>1. 0 < processTable[1].PID /\ processTable[1].PID < 2
        BY <1>3
      <4>2. processTable[1].state # "" /\ getProcess(processTable[1].PID) = 1
        BY <1>1, <1>3
      <4> QED
        BY <1>3, <1>4, <4>1, <4>2
    <3> QED
      BY <3>1, <1>2 DEF Filled
  <2>2. \A x \in Slots : Linked(processTable, x)
    BY <1>3, <1>4 DEF Linked
  <2>3. Ordered(processTable)
    BY <1>3, <1>4 DEF Ordered
  <2> QED
    BY <2>1, <2>2, <2>3 DEF TableOK, Init
<1>7. RunInv
  BY <1>1, <1>3, <1>4 DEF RunInv, Init, Named
<1>8. BootInv
  BY <1>1, <1>3, <1>4 DEF BootInv, Booting, Init
<1>9. JoinInv
  BY <1>1, <1>4 DEF JoinInv, Init
<1>10. ParentInv
  BY <1>3, <1>4 DEF ParentInv
<1> QED
  BY <1>5, <1>6, <1>7, <1>8, <1>9, <1>10 DEF Inv

\* A table stays one when pidCounter goes on.
LEMMA TableGrows ==
    ASSUME NEW t, NEW n, TableOK(t, n), NEW k \in Nat, n <= k
    PROVE  TableOK(t, k)
<1>1. ASSUME NEW x \in Slots, t[x].PID < n PROVE t[x].PID < k
  <2>1. t[x] \in Process /\ n \in Nat
    BY DEF TableOK, Filled
  <2>2. t[x].PID \in Nat
    BY <2>1 DEF Process
  <2> QED
    BY <1>1, <2>1, <2>2
<1>2. Filled(t, k)
  BY <1>1 DEF TableOK, Filled
<1> QED
  BY <1>2 DEF TableOK

\* A process that was made does not disturb who runs, joins or is whose parent.
LEMMA CreateKeeps ==
    ASSUME Inv, NEW pid, NEW priority \in Int, NEW entry \in {"sentinel", "user"},
           NEW back \in PCs \ {"startup", "join"}, NEW pc \in PCs \ {"startup", "join"},
           At(pc), Create(pid, priority, entry, back)
    PROVE  /\ TypeInv' /\ TableOK(processTable, pidCounter)' /\ RunInv'
           /\ JoinInv' /\ ParentInv'
<1> DEFINE c == getProcess(pid)
<1>1. /\ pid \in Nat /\ pidCounter <= pid /\ c \in Slots
      /\ processTable[c] = Blank /\ c # Current /\ c # 1
      /\ pidCounter' = pid + 1 /\ TableOK(processTable', pidCounter')
      /\ processTable'[c].isInitialized /\ processTable'[c].PID = pid
      /\ processTable'[c].state = "Runnable"
      /\ processTable'[c].parent = IF ValidPriority(priority) THEN Current ELSE NULL
      /\ \A x \in Slots \ {c} :
           /\ processTable'[x].isInitialized = processTable[x].isInitialized
           /\ processTable'[x].PID = processTable[x].PID
           /\ processTable'[x].state = processTable[x].state
           /\ processTable'[x].parent = processTable[x].parent
  BY CreateEffect
<1>2. /\ resume' = [resume EXCEPT ![Current] = back, ![c] = entry]
      /\ runningProcessID' = runningProcessID /\ curChild' = curChild
      /\ machine' = machine
  BY DEF Create
<1>3. /\ Current' = Current /\ Current \in Slots /\ 1 \in Slots
      /\ NULL \notin Slots /\ getProcess(1) = 1
      /\ \A x \in Slots : processTable[x].parent \in Slots \cup {NULL}
  BY <1>2, InvFacts, SlotOfPid DEF Current
<1>4. resume[Current] = pc /\ resume \in [Slots -> PCs]
  BY InvFacts DEF At
<1>5. /\ resume'[Current] = back /\ resume'[c] = entry
      /\ \A x \in Slots \ {c, Current} : resume'[x] = resume[x]
      /\ resume' \in [Slots -> PCs]
  BY <1>1, <1>2, <1>3, <1>4 DEF PCs
<1>6. resume[1] # "startup" /\ resume'[1] # "startup"
  <2>1. resume[1] = "startup" => Current = 1
    BY SlotOfPid DEF Inv, BootInv, Booting, Current
  <2> QED
    BY <2>1, <1>1, <1>3, <1>4, <1>5
<1> HIDE DEF c
<1>7. TypeInv'
  BY <1>1, <1>2, <1>5 DEF Inv, TypeInv
<1>8. RunInv'
  BY <1>1, <1>2, <1>3, <1>6 DEF Inv, RunInv, Named
<1>9. curChild = NULL
  BY <1>4 DEF Inv, JoinInv
<1>10. JoinInv'
  BY <1>1, <1>2, <1>3, <1>4, <1>5, <1>9 DEF Inv, JoinInv
<1>11. ParentInv'
  <2> SUFFICES ASSUME NEW x \in Slots, processTable'[x].parent # NULL
               PROVE  /\ processTable'[processTable'[x].parent].state # "Terminated"
                      /\ NamedIn(processTable', processTable'[x].parent)
    BY <1>1 DEF ParentInv, Named, NamedIn
  <2>1. CASE x = c
    <3>1. processTable'[x].parent = Current
      BY <2>1, <1>1
    <3>2. NamedIn(processTable', Current) /\ processTable'[Current].state = "Running"
      BY <1>3, <1>6, <1>8 DEF RunInv, Named, NamedIn
    <3> QED
      BY <3>1, <3>2
  <2>2. CASE x # c
    <3>1. /\ processTable'[x].parent = processTable[x].parent
          /\ processTable[x].parent \in Slots
          /\ processTable[processTable[x].parent].state # "Terminated"
          /\ Named(processTable[x].parent)
      BY <2>2, <1>1, <1>3 DEF Inv, ParentInv
    <3>2. processTable[x].parent # c
      BY <1>1, BlankIsFree DEF Inv
    <3> QED
      BY <3>1, <3>2, <1>1 DEF Named, NamedIn
  <2> QED
    BY <2>1, <2>2
<1> QED
  BY <1>1, <1>7, <1>8, <1>10, <1>11

\* The place where the running process is tells whether it is init.
LEMMA WhoRuns ==
    ASSUME Inv, NEW pc, At(pc)
    PROVE  /\ resume[Current] = pc
           /\ pc \in Booting \cup {"init_halt"} => Current = 1 /\ runningProcessID = 1
           /\ pc \notin Booting \cup {"init_halt"} =>
                    Current # 1 /\ resume[1] = "init_halt"
<1>1. resume[Current] = pc /\ Current \in Slots /\ getProcess(1) = 1
  BY InvFacts, SlotOfPid DEF At
<1>2. Current # 1 => resume[Current] \in {"sentinel", "user", "join"}
  BY <1>1 DEF Inv, RunInv, BootInv
<1>3. Current = 1 => runningProcessID = 1 /\ resume[1] = pc
  BY <1>1 DEF Inv, RunInv, BootInv
<1>4. resume[1] \in Booting => Current = 1
  BY <1>1 DEF Inv, BootInv, Current
<1>5. resume[1] \in Booting \cup {"init_halt"}
  BY DEF Inv, BootInv
<1> QED
  BY <1>1, <1>2, <1>3, <1>4, <1>5 DEF Booting

\* A context switch to a process that somebody can name keeps the parts of the
\* invariant that the old process can disturb.
LEMMA SwitchKeeps ==
    ASSUME Inv, NEW x \in Slots, processTable[x].isInitialized, Named(x),
           NEW old \in {"Runnable", "Terminated"},
           old = "Terminated" => processTable[Current].firstChild = NULL,
           SwitchFrom(old, processTable[x].PID),
           NEW pc \in PCs \ {"startup", "join"}, At(pc),
           NEW back \in PCs \ {"startup", "join"}, Goto(back)
    PROVE  /\ TypeInv' /\ TableOK(processTable, pidCounter)' /\ RunInv'
           /\ JoinInv' /\ ParentInv'
<1>1. /\ runningProcessID' = processTable[x].PID /\ Current' = x
      /\ pidCounter' = pidCounter /\ curChild' = curChild /\ machine' = machine
      /\ TableOK(processTable', pidCounter)
      /\ \A y \in Slots :
           /\ processTable'[y].isInitialized = processTable[y].isInitialized
           /\ processTable'[y].PID = processTable[y].PID
           /\ processTable'[y].parent = processTable[y].parent
           /\ processTable'[y].firstChild = processTable[y].firstChild
           /\ processTable'[y].state =
                   IF y = x THEN "Running"
                   ELSE IF y = Current THEN old ELSE processTable[y].state
  BY SwitchEffect
<1>2. /\ Current \in Slots /\ 1 \in Slots /\ NULL \notin Slots /\ getProcess(1) = 1
      /\ \A y \in Slots : processTable[y].parent \in Slots \cup {NULL}
  BY InvFacts, SlotOfPid
<1>3. resume[Current] = pc /\ resume \in [Slots -> PCs]
  BY InvFacts DEF At
<1>4. /\ resume'[Current] = back /\ resume' \in [Slots -> PCs]
      /\ \A y \in Slots \ {Current} : resume'[y] = resume[y]
  BY <1>2, <1>3 DEF Goto
<1>5. resume'[1] # "startup"
  <2>1. resume[1] = "startup" => Current = 1
    BY SlotOfPid DEF Inv, BootInv, Booting, Current
  <2> QED
    BY <2>1, <1>2, <1>3, <1>4
<1>6. TypeInv'
  <2>1. processTable[x].PID \in Nat \ {0}
    <3>1. processTable[x] \in Process /\ 0 < processTable[x].PID
      BY InvFacts DEF Inv, TableOK, Filled
    <3>2. processTable[x].PID \in Nat
      BY <3>1 DEF Process
    <3> QED
      BY <3>1, <3>2
  <2> QED
    BY <2>1, <1>1, <1>4 DEF Inv, TypeInv
<1>7. RunInv'
  BY <1>1, <1>2, <1>5 DEF Inv, RunInv, Named
<1>8. JoinInv'
  BY <1>1, <1>2, <1>3, <1>4 DEF Inv, JoinInv
<1>9. ParentInv'
  <2> SUFFICES ASSUME NEW y \in Slots, processTable[y].parent # NULL
               PROVE  /\ processTable'[processTable[y].parent].state # "Terminated"
                      /\ NamedIn(processTable', processTable[y].parent)
    BY <1>1 DEF ParentInv, Named, NamedIn
  <2> DEFINE p == processTable[y].parent
  <2>1. /\ p \in Slots /\ processTable[p].state # "Terminated"
        /\ NamedIn(processTable, p)
    BY <1>2 DEF Inv, ParentInv, Named, NamedIn
  <2>2. p = Current => old # "Terminated"
    BY <2>1, NoChildren
  <2>3. processTable'[p].state # "Terminated"
    BY <2>1, <2>2, <1>1
  <2> QED
    BY <2>1, <2>3, <1>1 DEF NamedIn
<1> QED
  BY <1>1, <1>6, <1>7, <1>8, <1>9

\* createProcess takes the slot of pidCounter when that is free.
LEMMA FirstIsOpen ==
    ASSUME Inv, NEW priority, NEW entry, NEW back,
           createProcess(priority, entry, back),
           processTable[getProcess(pidCounter)] = Blank
    PROVE  Create(pidCounter, priority, entry, back)
<1>1. Open(pidCounter) /\ pidCounter \in Nat
  BY BlankFields, InvFacts DEF Open
<1>2. pidCounter \in pidCounter .. pidCounter + MAXPROC - 1
  BY <1>1, CooperativeAssumption
<1>3. ~CreateFails(back)
  BY <1>1, <1>2 DEF CreateFails, TableFull
<1>4. PICK k \in 0 .. MAXPROC - 1 : Create(pidCounter + k, priority, entry, back)
  BY <1>3 DEF createProcess
<1>5. k = 0
  <2>1. SUFFICES ASSUME k # 0 PROVE FALSE
    OBVIOUS
  <2>2. pidCounter \in pidCounter .. (pidCounter + k) - 1
    BY <1>1, <2>1, CooperativeAssumption
  <2> QED
    BY <1>1, <1>4, <2>2 DEF Create, FirstOpen
<1> QED
  BY <1>1, <1>4, <1>5

\* Every step of the machine keeps the invariant.
LEMMA NextInv ==
    ASSUME Inv, Next PROVE Inv'
<1> USE DEF Inv
<1>1. /\ Current \in Slots /\ 1 \in Slots /\ 2 \in Slots /\ 3 \in Slots
      /\ getProcess(1) = 1 /\ getProcess(2) = 2 /\ getProcess(3) = 3
      /\ NULL \notin Slots /\ resume \in [Slots -> PCs]
  BY InvFacts, SlotOfPid
<1>2. CASE StartProcesses
  <2>1. At("startup") /\ Current = 1 /\ runningProcessID = 1
    BY <1>2, WhoRuns DEF StartProcesses, Booting
  <2>2. /\ processTable' = [processTable EXCEPT ![1].state = "Running"]
        /\ resume' = [resume EXCEPT ![1] = "init_sentinel"]
        /\ runningProcessID' = runningProcessID /\ pidCounter' = pidCounter
        /\ curChild' = curChild /\ machine' = machine /\ Current' = Current
    BY <1>1, <1>2, <2>1 DEF StartProcesses, Goto, Current
  <2>3. /\ resume'[1] = "init_sentinel" /\ resume' \in [Slots -> PCs]
        /\ \A x \in Slots \ {1} : resume'[x] = resume[x]
    BY <1>1, <2>2 DEF PCs
  <2>4. processTable' = Switched(processTable, 1, 1, "Runnable")
    BY <1>1, <2>2 DEF Switched, TableOK, Filled
  <2>5. /\ TableOK(processTable', pidCounter)
        /\ \A x \in Slots :
             /\ processTable'[x].isInitialized = processTable[x].isInitialized
             /\ processTable'[x].PID = processTable[x].PID
             /\ processTable'[x].parent = processTable[x].parent
             /\ processTable'[x].state = IF x = 1 THEN "Running"
                                         ELSE processTable[x].state
    <3>1. processTable[1].isInitialized
      BY DEF BootInv
    <3> QED
      BY <1>1, <2>4, <3>1, SwitchedInTable
  <2>6. \A x \in Slots \ {1} : processTable[x] = Blank /\ processTable'[x] = Blank
    <3>1. \A x \in Slots \ {1} : processTable[x] = Blank
      BY <2>1, WhoRuns DEF BootInv
    <3> QED
      BY <3>1, <2>5, BlankFields DEF TableOK, Filled
  <2>12. \A x \in Slots \ {1} :
            /\ ~processTable'[x].isInitialized /\ processTable'[x].parent = NULL
            /\ processTable'[x].state = ""
    BY <2>6, BlankFields
  <2>13. /\ processTable'[1].isInitialized /\ processTable'[1].PID = 1
         /\ processTable'[1].parent = NULL /\ processTable'[1].state = "Running"
    BY <1>1, <2>5 DEF BootInv
  <2>7. TypeInv'
    BY <2>2, <2>3 DEF TypeInv
  <2>8. RunInv'
    BY <1>1, <2>1, <2>2, <2>3, <2>12, <2>13 DEF RunInv, Named
  <2>9. BootInv'
    <3>1. resume[1] = "startup"
      BY <2>1 DEF At
    <3> QED
      BY <1>1, <2>1, <2>2, <2>3, <2>6, <2>12, <2>13, <3>1 DEF BootInv, Booting
  <2>10. JoinInv'
    <3>1. curChild = NULL
      BY <2>1 DEF JoinInv, At
    <3> QED
      BY <1>1, <2>2, <2>3, <2>12, <3>1 DEF JoinInv
  <2>11. ParentInv'
    <3>1. \A x \in Slots : processTable'[x].parent = NULL
      BY <2>12, <2>13
    <3> QED
      BY <3>1 DEF ParentInv
  <2> QED
    BY <2>2, <2>5, <2>7, <2>8, <2>9, <2>10, <2>11
<1>3. CASE InitForksSentinel
  <2>1. At("init_sentinel") /\ createProcess(7, "sentinel", "init_testcase")
    BY <1>3 DEF InitForksSentinel
  <2>2. /\ Current = 1 /\ runningProcessID = 1 /\ resume[1] = "init_sentinel"
        /\ pidCounter = 2 /\ \A x \in Slots \ {1} : processTable[x] = Blank
    BY <2>1, WhoRuns DEF Booting, BootInv
  <2>3. Create(2, 7, "sentinel", "init_testcase")
    BY <1>1, <2>1, <2>2, FirstIsOpen
  <2>4. TypeInv' /\ TableOK(processTable, pidCounter)' /\ RunInv' /\ JoinInv'
        /\ ParentInv'
    BY <2>1, <2>3, CreateKeeps DEF PCs
  <2>5. /\ pidCounter' = 3
        /\ \A x \in Slots \ {1, 2} : processTable'[x] = Blank
        /\ processTable'[1].isInitialized = processTable[1].isInitialized
        /\ processTable'[1].PID = processTable[1].PID
        /\ processTable'[1].parent = processTable[1].parent
    BY <1>1, <2>2, <2>3, CreateEffect
  <2>6. /\ resume'[1] = "init_testcase" /\ resume'[2] = "sentinel"
        /\ runningProcessID' = 1
    BY <1>1, <2>2, <2>3 DEF Create
  <2>8. \A x \in Slots \ {1, 2} : ~processTable'[x].isInitialized
    BY <2>5, BlankFields
  <2>7. BootInv'
    BY <1>1, <2>2, <2>5, <2>6, <2>8 DEF BootInv, Booting
  <2> QED
    BY <2>4, <2>7
<1>4. CASE InitForksTestcase
  <2>1. At("init_testcase") /\ createProcess(3, "user", "init_switch")
    BY <1>4 DEF InitForksTestcase
  <2>2. /\ Current = 1 /\ runningProcessID = 1 /\ resume[1] = "init_testcase"
        /\ pidCounter = 3 /\ \A x \in Slots \ {1, 2} : processTable[x] = Blank
    BY <2>1, WhoRuns DEF Booting, BootInv
  <2>3. Create(3, 3, "user", "init_switch")
    BY <1>1, <2>1, <2>2, FirstIsOpen
  <2>4. TypeInv' /\ TableOK(processTable, pidCounter)' /\ RunInv' /\ JoinInv'
        /\ ParentInv'
    BY <2>1, <2>3, CreateKeeps DEF PCs
  <2>5. /\ \A x \in Slots \ {3} :
             /\ processTable'[x].isInitialized = processTable[x].isInitialized
             /\ processTable'[x].PID = processTable[x].PID
             /\ processTable'[x].parent = processTable[x].parent
        /\ processTable'[3].isInitialized /\ processTable'[3].PID = 3
        /\ processTable'[3].parent = 1 /\ processTable'[3].state = "Runnable"
    BY <1>1, <2>2, <2>3, CreateEffect DEF ValidPriority
  <2>6. /\ resume'[1] = "init_switch" /\ resume'[3] = "user"
        /\ \A x \in Slots \ {1, 3} : resume'[x] = resume[x]
        /\ runningProcessID' = 1
    BY <1>1, <2>2, <2>3 DEF Create
  <2>7. BootInv'
    BY <1>1, <2>2, <2>5, <2>6 DEF BootInv, Booting
  <2> QED
    BY <2>4, <2>7
<1>5. CASE InitSwitches
  <2>1. At("init_switch") /\ SwitchFrom("Runnable", 3) /\ Goto("init_halt")
    BY <1>5 DEF InitSwitches
  <2>2. /\ Current = 1 /\ resume[1] = "init_switch"
        /\ processTable[3].isInitialized /\ processTable[3].PID = 3 /\ Named(3)
    BY <2>1, WhoRuns DEF Booting, BootInv, Named
  <2>3. TypeInv' /\ TableOK(processTable, pidCounter)' /\ RunInv' /\ JoinInv'
        /\ ParentInv'
    BY <1>1, <2>1, <2>2, SwitchKeeps DEF PCs
  <2>4. \A x \in Slots :
             /\ processTable'[x].isInitialized = processTable[x].isInitialized
             /\ processTable'[x].PID = processTable[x].PID
             /\ processTable'[x].parent = processTable[x].parent
    BY <1>1, <2>1, <2>2, SwitchEffect
  <2>5. /\ resume'[1] = "init_halt"
        /\ \A x \in Slots \ {1} : resume'[x] = resume[x]
    BY <1>1, <2>1, <2>2 DEF Goto
  <2>6. BootInv'
    BY <1>1, <2>4, <2>5 DEF BootInv, Booting
  <2> QED
    BY <2>3, <2>6
<1>6. CASE \E how \in {"halted", "deadlock", "crashed"} : End(how)
  <2>1. /\ UNCHANGED <<processTable, runningProcessID, pidCounter, resume, curChild>>
        /\ machine' \in {"halted", "deadlock", "crashed"}
    BY <1>6 DEF End
  <2> QED
    BY <2>1 DEF TypeInv, RunInv, BootInv, JoinInv, ParentInv, Named, Current
<1>7. CASE JoinNext \/ CallJoin
  <2>1. /\ UNCHANGED <<processTable, runningProcessID, pidCounter, machine>>
        /\ resume' = [resume EXCEPT ![Current] =
                          IF curChild' = NULL THEN "user" ELSE "join"]
        /\ Current # 1 /\ Current' = Current /\ resume[1] = "init_halt"
        /\ resume[Current] \in {"user", "join"}
    BY <1>7, WhoRuns DEF JoinNext, CallJoin, Goto, Booting, Current
  <2>2. /\ curChild' \in Link
        /\ curChild' # NULL => processTable[curChild'].parent = Current
    <3>1. CASE CallJoin
      <4>1. curChild' = processTable[Current].firstChild
        BY <3>1 DEF CallJoin
      <4> QED
        BY <4>1, <1>1, InvFacts DEF TableOK, Linked, Process, Link
    <3>2. CASE JoinNext
      <4>1. At("join") /\ curChild' = processTable[curChild].nextSibling
        BY <3>2 DEF JoinNext
      <4>2. curChild \in Slots /\ processTable[curChild].parent = Current
        BY <4>1, <1>1, <2>1 DEF JoinInv, TypeInv, RunInv, Link, At
      <4> QED
        BY <4>1, <4>2, <1>1, InvFacts DEF TableOK, Linked, Process, Link
    <3> QED
      BY <1>7, <3>1, <3>2
  <2>3. /\ resume'[Current] = IF curChild' = NULL THEN "user" ELSE "join"
        /\ resume' \in [Slots -> PCs]
        /\ \A x \in Slots \ {Current} : resume'[x] = resume[x]
    BY <1>1, <2>1 DEF PCs
  <2>4. TypeInv'
    BY <2>1, <2>2, <2>3 DEF TypeInv
  <2>5. RunInv'
    BY <1>1, <2>1, <2>3 DEF RunInv, Named
  <2>6. BootInv'
    BY <1>1, <2>1, <2>3 DEF BootInv, Booting
  <2>7. JoinInv'
    BY <1>1, <2>1, <2>2, <2>3 DEF JoinInv
  <2>8. ParentInv' /\ TableOK(processTable, pidCounter)'
    BY <2>1 DEF ParentInv, Named
  <2> QED
    BY <2>4, <2>5, <2>6, <2>7, <2>8
<1>8. CASE JoinReaps
  <2>1. /\ UNCHANGED <<runningProcessID, pidCounter, machine>> /\ curChild' = NULL
        /\ resume' = [resume EXCEPT ![Current] = "user"]
        /\ Current # 1 /\ Current' = Current /\ resume[1] = "init_halt"
    BY <1>8, WhoRuns DEF JoinReaps, Goto, Booting, Current
  <2>2. /\ resume'[Current] = "user" /\ resume' \in [Slots -> PCs]
        /\ \A x \in Slots \ {Current} : resume'[x] = resume[x]
    BY <1>1, <2>1 DEF PCs
  <2>3. /\ curChild \in Slots /\ curChild # Current /\ curChild # 1
        /\ TableOK(processTable', pidCounter)
        /\ processTable'[curChild] = Blank
        /\ \A x \in Slots \ {curChild} :
             /\ processTable'[x].isInitialized = processTable[x].isInitialized
             /\ processTable'[x].PID = processTable[x].PID
             /\ processTable'[x].state = processTable[x].state
             /\ processTable'[x].parent = processTable[x].parent
        /\ \A x \in Slots : processTable[x].parent # curChild
    BY <1>8, ReapEffect
  <2>4. TypeInv'
    BY <2>1, <2>2 DEF TypeInv, Link
  <2>9. /\ ~processTable'[curChild].isInitialized
        /\ processTable'[curChild].state = ""
    BY <2>3, BlankFields
  <2>10. resume'[1] = "init_halt"
    BY <1>1, <2>1, <2>2
  <2>11. /\ processTable[Current].isInitialized /\ Named(Current)
         /\ processTable[Current].PID = runningProcessID
         /\ processTable[Current].state = "Running"
         /\ \A x \in Slots : processTable[x].state = "Running" => x = Current
    BY <2>1 DEF RunInv
  <2>12. /\ processTable'[Current].isInitialized /\ NamedIn(processTable', Current)
         /\ processTable'[Current].PID = runningProcessID
         /\ processTable'[Current].state = "Running"
    BY <1>1, <2>3, <2>11 DEF Named, NamedIn
  <2>13. \A x \in Slots : processTable'[x].state = "Running" => x = Current
    BY <2>3, <2>9, <2>11
  <2>5. RunInv'
    BY <2>1, <2>10, <2>12, <2>13 DEF RunInv, Named, NamedIn
  <2>6. BootInv'
    BY <1>1, <2>1, <2>2, <2>3, <2>9 DEF BootInv, Booting
  <2>7. JoinInv'
    BY <1>1, <2>1, <2>2, <2>3, <2>9 DEF JoinInv
  <2>8. ParentInv'
    <3> SUFFICES ASSUME NEW x \in Slots, processTable'[x].parent # NULL
                 PROVE  /\ processTable'[processTable'[x].parent].state # "Terminated"
                        /\ NamedIn(processTable', processTable'[x].parent)
      BY DEF ParentInv, Named, NamedIn
    <3>1. x # curChild
      BY <2>3, BlankFields
    <3>2. /\ processTable'[x].parent = processTable[x].parent
          /\ processTable[x].parent \in Slots \ {curChild}
      BY <3>1, <2>3, InvFacts
    <3> QED
      BY <3>2, <2>3 DEF ParentInv, Named, NamedIn
  <2> QED
    BY <2>1, <2>3, <2>4, <2>5, <2>6, <2>7, <2>8
<1>9. ASSUME NEW priority \in ForkArgs, Fork1(priority) PROVE Inv'
  <2>1. At("user") /\ createProcess(priority, "user", "user") /\ priority \in Int
    BY <1>9, CooperativeAssumption DEF Fork1
  <2>2. Current # 1 /\ resume[1] = "init_halt" /\ resume[Current] = "user"
    BY <2>1, WhoRuns DEF Booting
  <2>3. ASSUME NEW k \in 0 .. MAXPROC - 1,
               Create(pidCounter + k, priority, "user", "user")
        PROVE  Inv'
    <3> DEFINE c == getProcess(pidCounter + k)
    <3>1. TypeInv' /\ TableOK(processTable, pidCounter)' /\ RunInv' /\ JoinInv'
          /\ ParentInv'
      BY <2>1, <2>3, CreateKeeps DEF PCs
    <3>2. /\ c \in Slots /\ c # 1
          /\ \A x \in Slots \ {c} :
               /\ processTable'[x].isInitialized = processTable[x].isInitialized
               /\ processTable'[x].PID = processTable[x].PID
               /\ processTable'[x].parent = processTable[x].parent
      BY <2>1, <2>3, CreateEffect
    <3>3. /\ resume' = [resume EXCEPT ![Current] = "user", ![c] = "user"]
          /\ runningProcessID' = runningProcessID
      BY <2>3 DEF Create
    <3>4. /\ \A x \in Slots \ {c, Current} : resume'[x] = resume[x]
          /\ resume'[c] = "user" /\ resume'[Current] = "user"
      BY <1>1, <3>2, <3>3
    <3>5. BootInv'
      BY <1>1, <2>2, <3>2, <3>4 DEF BootInv, Booting
    <3> QED
      BY <3>1, <3>5
  <2>4. CASE CreateFails("user")
    <3>1. /\ UNCHANGED <<processTable, runningProcessID, curChild, machine>>
          /\ pidCounter' = pidCounter + MAXPROC
          /\ resume' = [resume EXCEPT ![Current] = "user"]
      BY <2>4 DEF CreateFails, Goto
    <3>2. resume' = resume
      BY <1>1, <2>2, <3>1
    <3>3. /\ pidCounter \in Nat \ {0} /\ pidCounter' \in Nat \ {0}
          /\ pidCounter <= pidCounter'
      BY <3>1, CooperativeAssumption DEF TypeInv
    <3>4. TableOK(processTable', pidCounter')
      BY <3>1, <3>3, TableGrows
    <3> QED
      BY <2>2, <3>1, <3>2, <3>3, <3>4
         DEF TypeInv, RunInv, BootInv, JoinInv, ParentInv, Named, Current, Booting
  <2> QED
    BY <2>1, <2>3, <2>4 DEF createProcess
<1>10. ASSUME NEW pid \in CanRun, TEMP_switchTo(pid) \/ Quit(pid) PROVE Inv'
  <2>1. PICK x \in Slots : /\ processTable[x].state = "Runnable" /\ Named(x)
                           /\ pid = processTable[x].PID
    BY DEF CanRun
  <2>2. PICK old \in {"Runnable", "Terminated"} :
            /\ SwitchFrom(old, pid)
            /\ old = "Terminated" => processTable[Current].firstChild = NULL
    BY <1>10 DEF TEMP_switchTo, Quit
  <2>3. At("user") /\ resume' = resume
    BY <1>10 DEF TEMP_switchTo, Quit
  <2>4. Current # 1 /\ resume[1] = "init_halt" /\ resume[Current] = "user"
    BY <2>3, WhoRuns DEF Booting
  <2>5. processTable[x].isInitialized
    BY <2>1, BlankFields DEF TableOK, Filled
  <2>6. Goto("user")
    BY <1>1, <2>3, <2>4 DEF Goto
  <2>7. TypeInv' /\ TableOK(processTable, pidCounter)' /\ RunInv' /\ JoinInv'
        /\ ParentInv'
    BY <2>1, <2>2, <2>3, <2>5, <2>6, SwitchKeeps DEF PCs
  <2>8. \A y \in Slots :
             /\ processTable'[y].isInitialized = processTable[y].isInitialized
             /\ processTable'[y].PID = processTable[y].PID
             /\ processTable'[y].parent = processTable[y].parent
    BY <2>1, <2>2, <2>5, SwitchEffect
  <2>9. BootInv'
    BY <1>1, <2>3, <2>4, <2>8 DEF BootInv, Booting
  <2> QED
    BY <2>7, <2>9
<1>11. CASE Ended
  BY <1>11 DEF Ended, vars, TypeInv, RunInv, BootInv, JoinInv, ParentInv, Named,
               Current
<1> QED
  BY <1>2, <1>3, <1>4, <1>5, <1>6, <1>7, <1>8, <1>9, <1>10, <1>11
     DEF Next, KernelStep, UserStep, InitHalts, Sentinel, QuitError, DumpCrashes,
         UserModeError, MainReturns

\* In every reachable state.
THEOREM Invariance == Spec => []Inv
<1>1. Init => Inv
  BY InitInv
<1>2. Inv /\ [Next]_vars => Inv'
  <2>1. CASE UNCHANGED vars
    BY <2>1 DEF vars, Inv, TypeInv, RunInv, BootInv, JoinInv, ParentInv, Named,
                Current
  <2> QED
    BY <2>1, NextInv
<1> QED
  BY <1>1, <1>2, PTL DEF Spec

\* Everything has its type, and a slot is in use or blank: in the first kernel no
\* call leaves a slot half cleared.
THEOREM TypeCorrect == Spec => []TypeOK
<1>1. Inv => TypeOK
  <2> SUFFICES ASSUME Inv PROVE TypeOK
    OBVIOUS
  <2>1. processTable \in [Slots -> Process]
    BY DEF Inv, TableOK, Filled
  <2>2. \A x \in Slots : IF processTable[x].isInitialized
                         THEN processTable[x].state # ""
                         ELSE processTable[x] = Blank
    BY DEF Inv, TableOK, Filled
  <2> QED
    BY <2>1, <2>2 DEF TypeOK, Inv, TypeInv
<1> QED
  BY <1>1, Invariance, PTL

\* getProcess finds every process, and the running one is the only one marked so,
\* whatever the table's size and however often the PIDs have gone round it.
THEOREM ProcessesFound == Spec => []RunningFound
<1>1. Inv => RunningFound
  <2> SUFFICES ASSUME Inv PROVE RunningFound
    OBVIOUS
  <2>1. \A x \in Used : getProcess(processTable[x].PID) = x
    BY DEF Inv, TableOK, Filled, Used
  <2>2. ASSUME NEW x \in Slots, processTable[x].state = "Running"
        PROVE  x = Current /\ resume[x] # "startup"
    <3>1. x = Current /\ resume[1] # "startup" /\ processTable[x].isInitialized
      BY <2>2 DEF Inv, RunInv
    <3> QED
      BY <3>1 DEF Inv, BootInv
  <2> QED
    BY <2>1, <2>2 DEF RunningFound, Inv, RunInv
<1> QED
  BY <1>1, Invariance, PTL

\* The children of a process are the list that fork1 and join maintain.
THEOREM ListsOfChildren == Spec => []ChildLists
<1>1. Inv => ChildLists
  BY DEF Inv, TableOK, ParentInv, JoinInv, ChildLists
<1> QED
  BY <1>1, Invariance, PTL

-----------------------------------------------------------------------------
(***************************************************************************)
(* fork1, quit and join implement the process tree.                        *)
(***************************************************************************)
InTree(t, x) == t[x].isInitialized /\ NamedIn(t, x)

PidsIn(t, dead) ==
    {t[x].PID : x \in {y \in Slots :
        InTree(t, y) /\ (t[y].state = "Terminated") = dead}}

FatherIn(t) ==
    [pid \in PidsIn(t, FALSE) \cup PidsIn(t, TRUE) |->
        IF pid = 1 THEN 0 ELSE t[t[getProcess(pid)].parent].PID]

TreeOK(t, n) ==
    /\ TableOK(t, n)
    /\ t[1].isInitialized /\ t[1].PID = 1 /\ t[1].parent = NULL
    /\ \A x \in Slots : t[x].parent # NULL =>
            /\ t[t[x].parent].state # "Terminated"
            /\ NamedIn(t, t[x].parent)

\* A PID of the tree leads to its process, and that one to its parent.
LEMMA KnownPid ==
    ASSUME NEW t, NEW n, TreeOK(t, n), NEW x \in Slots, InTree(t, x)
    PROVE  /\ getProcess(t[x].PID) = x /\ t[x].PID \in Nat /\ 0 < t[x].PID
           /\ t[x].PID < n
           /\ t[x].PID = 1 <=> x = 1
           /\ x # 1 => /\ t[x].parent \in Slots /\ InTree(t, t[x].parent)
                       /\ t[t[x].parent].state # "Terminated"
<1>1. /\ getProcess(t[x].PID) = x /\ 0 < t[x].PID /\ t[x].PID < n
      /\ getProcess(1) = 1 /\ NULL \notin Slots
  BY SlotOfPid DEF InTree, TreeOK, TableOK, Filled
<1>2. t[x] \in Process
  BY DEF TreeOK, TableOK, Filled
<1>3. t[x].PID \in Nat /\ t[x].parent \in Slots \cup {NULL}
  BY <1>2 DEF Process, Link
<1>4. t[x].PID = 1 <=> x = 1
  BY <1>1 DEF TreeOK
<1>5. ASSUME x # 1
      PROVE  /\ t[x].parent \in Slots /\ InTree(t, t[x].parent)
             /\ t[t[x].parent].state # "Terminated"
  <2>1. t[x].parent \in Slots
    BY <1>1, <1>3, <1>5 DEF InTree, NamedIn
  <2>2. t[t[x].parent].firstChild # NULL
    BY <1>1, <2>1 DEF TreeOK, TableOK, Linked
  <2>3. t[t[x].parent].isInitialized
    BY <2>1, <2>2, BlankFields DEF TreeOK, TableOK, Filled
  <2> QED
    BY <1>1, <2>1, <2>3 DEF TreeOK, InTree
<1> QED
  BY <1>1, <1>3, <1>4, <1>5

\* The invariant says so much of the table.
LEMMA InvTree ==
    Inv => TreeOK(processTable, pidCounter)
  BY DEF Inv, BootInv, ParentInv, Named, NamedIn, TreeOK

\* So it does after a step.
LEMMA InvTreeNext ==
    Inv' => TreeOK(processTable', pidCounter')
  BY DEF Inv, BootInv, ParentInv, Named, NamedIn, TreeOK

\* The refinement mapping, in terms of the table.
LEMMA Mapping ==
    /\ PidsWhere(FALSE) = PidsIn(processTable, FALSE)
    /\ PidsWhere(TRUE) = PidsIn(processTable, TRUE)
    /\ [pid \in PidsWhere(FALSE) \cup PidsWhere(TRUE) |->
            IF pid = 1 THEN 0
            ELSE processTable[processTable[getProcess(pid)].parent].PID]
       = FatherIn(processTable)
<1>1. /\ PidsWhere(FALSE) = PidsIn(processTable, FALSE)
      /\ PidsWhere(TRUE) = PidsIn(processTable, TRUE)
  BY DEF PidsWhere, PidsIn, Used, Named, InTree, NamedIn
<1> QED
  BY <1>1 DEF FatherIn

\* The same, of the next state.
LEMMA MappingNext ==
    /\ PidsWhere(FALSE)' = PidsIn(processTable', FALSE)
    /\ PidsWhere(TRUE)' = PidsIn(processTable', TRUE)
    /\ [pid \in PidsWhere(FALSE) \cup PidsWhere(TRUE) |->
            IF pid = 1 THEN 0
            ELSE processTable[processTable[getProcess(pid)].parent].PID]'
       = FatherIn(processTable')
<1>1. /\ PidsWhere(FALSE)' = PidsIn(processTable', FALSE)
      /\ PidsWhere(TRUE)' = PidsIn(processTable', TRUE)
  BY DEF PidsWhere, PidsIn, Used, Named, InTree, NamedIn
<1> QED
  BY <1>1 DEF FatherIn

\* Where the processes of the tree keep PID, parent and life, so does the tree.
LEMMA SameTree ==
    ASSUME NEW t, NEW n, NEW w, NEW k, TreeOK(t, n), TreeOK(w, k),
           \A x \in Slots :
             /\ InTree(w, x) <=> InTree(t, x)
             /\ InTree(t, x) =>
                  /\ w[x].PID = t[x].PID /\ w[x].parent = t[x].parent
                  /\ w[x].state = "Terminated" <=> t[x].state = "Terminated"
    PROVE  /\ PidsIn(w, FALSE) = PidsIn(t, FALSE)
           /\ PidsIn(w, TRUE) = PidsIn(t, TRUE)
           /\ FatherIn(w) = FatherIn(t)
<1>1. PidsIn(w, FALSE) = PidsIn(t, FALSE) /\ PidsIn(w, TRUE) = PidsIn(t, TRUE)
  BY DEF PidsIn
<1>2. ASSUME NEW pid \in PidsIn(t, FALSE) \cup PidsIn(t, TRUE), pid # 1
      PROVE  w[w[getProcess(pid)].parent].PID = t[t[getProcess(pid)].parent].PID
  <2>1. PICK x \in Slots : InTree(t, x) /\ pid = t[x].PID
    BY DEF PidsIn
  <2>2. getProcess(pid) = x /\ x # 1
    BY <1>2, <2>1, KnownPid
  <2>3. t[x].parent \in Slots /\ InTree(t, t[x].parent)
    BY <2>1, <2>2, KnownPid
  <2> QED
    BY <2>1, <2>2, <2>3
<1> QED
  BY <1>1, <1>2 DEF FatherIn

\* The processes in slots other than c keep PID, parent and state.
Others(t, w, c) ==
    \A x \in Slots \ {c} :
        /\ w[x].isInitialized = t[x].isInitialized
        /\ w[x].PID = t[x].PID /\ w[x].parent = t[x].parent
        /\ w[x].state = t[x].state

KnownIn(t) == PidsIn(t, FALSE) \cup PidsIn(t, TRUE)

\* FatherIn(t) with one process more, or one less.
WithChild(t, p, pid) ==
    [y \in KnownIn(t) \cup {pid} |-> IF y = pid THEN p ELSE FatherIn(t)[y]]
Without(t, pid) == [y \in KnownIn(t) \ {pid} |-> FatherIn(t)[y]]

\* What a fork, an exit and a collected child do to the tree.
Grows(t, w, p, pid) ==
    /\ pid \notin KnownIn(t)
    /\ PidsIn(w, FALSE) = PidsIn(t, FALSE) \cup {pid}
    /\ PidsIn(w, TRUE) = PidsIn(t, TRUE)
    /\ FatherIn(w) = WithChild(t, p, pid)

Dies(t, w, pid) ==
    /\ pid \in PidsIn(t, FALSE) \ {1}
    /\ \A y \in KnownIn(t) : FatherIn(t)[y] # pid
    /\ PidsIn(w, FALSE) = PidsIn(t, FALSE) \ {pid}
    /\ PidsIn(w, TRUE) = PidsIn(t, TRUE) \cup {pid}
    /\ FatherIn(w) = FatherIn(t)

Shrinks(t, w, p, pid) ==
    /\ p \in PidsIn(t, FALSE) /\ pid \in PidsIn(t, TRUE)
    /\ FatherIn(t)[pid] = p
    /\ PidsIn(w, FALSE) = PidsIn(t, FALSE)
    /\ PidsIn(w, TRUE) = PidsIn(t, TRUE) \ {pid}
    /\ FatherIn(w) = Without(t, pid)

\* A new process in slot c, the child of the one in slot q.
LEMMA ForkedTree ==
    ASSUME NEW t, NEW n, NEW w, NEW k, TreeOK(t, n), TreeOK(w, k),
           NEW c \in Slots, Others(t, w, c), t[c] = Blank, c # 1,
           w[c].isInitialized, w[c].state # "Terminated", n <= w[c].PID,
           w[c].parent \in Slots, InTree(t, w[c].parent)
    PROVE  Grows(t, w, t[w[c].parent].PID, w[c].PID)
<1> DEFINE q == w[c].parent
           pid == w[c].PID
<1>0. /\ q \in Slots /\ InTree(t, q) /\ w[c].parent = q
      /\ pid \in Nat /\ w[c].PID = pid /\ n <= pid
  BY DEF TreeOK, TableOK, Filled, Process
<1> HIDE DEF q, pid
<1> USE DEF Others
<1> DEFINE known == PidsIn(t, FALSE) \cup PidsIn(t, TRUE)
<1>1. /\ ~InTree(t, c) /\ InTree(w, c) /\ c # q
      /\ \A x \in Slots \ {c} : InTree(w, x) <=> InTree(t, x)
  <2>1. ~t[c].isInitialized /\ q # NULL
    BY <1>0, BlankFields, SlotOfPid
  <2> QED
    BY <1>0, <2>1 DEF InTree, NamedIn
<1>2. /\ PidsIn(w, FALSE) = PidsIn(t, FALSE) \cup {pid}
      /\ PidsIn(w, TRUE) = PidsIn(t, TRUE)
  BY <1>0, <1>1 DEF PidsIn
<1>3. ASSUME NEW y \in known
      PROVE  /\ y # pid /\ getProcess(y) \in Slots \ {c}
             /\ InTree(t, getProcess(y))
             /\ y # 1 => /\ t[getProcess(y)].parent \in Slots \ {c}
  <2>1. PICK x \in Slots : InTree(t, x) /\ y = t[x].PID
    BY DEF PidsIn
  <2>2. getProcess(y) = x /\ y \in Nat /\ y < n /\ (y # 1 => x # 1)
    BY <2>1, KnownPid
  <2>3. n \in Nat
    BY DEF TreeOK, TableOK
  <2>4. y # 1 => t[x].parent \in Slots /\ InTree(t, t[x].parent)
    BY <2>1, <2>2, KnownPid
  <2> QED
    BY <1>0, <1>1, <2>1, <2>2, <2>3, <2>4
<1>4. getProcess(pid) = c /\ pid # 1
  BY <1>0, <1>1, KnownPid
<1>5. FatherIn(w) = [y \in known \cup {pid} |->
                        IF y = 1 THEN 0 ELSE w[w[getProcess(y)].parent].PID]
  <2>1. PidsIn(w, FALSE) \cup PidsIn(w, TRUE) = known \cup {pid}
    BY <1>2
  <2> QED
    BY <2>1 DEF FatherIn
<1>6. ASSUME NEW y \in known
      PROVE  (IF y = 1 THEN 0 ELSE w[w[getProcess(y)].parent].PID) = FatherIn(t)[y]
  BY <1>3 DEF FatherIn
<1>7. w[w[getProcess(pid)].parent].PID = t[q].PID
  BY <1>0, <1>1, <1>4
<1> HIDE DEF known
<1>8. FatherIn(w) = [y \in known \cup {pid} |->
                        IF y = pid THEN t[q].PID ELSE FatherIn(t)[y]]
  BY <1>3, <1>4, <1>5, <1>6, <1>7
<1> QED
  BY <1>2, <1>3, <1>8 DEF Grows, known, KnownIn, WithChild, q, pid

\* The process in slot q dies.
LEMMA ExitedTree ==
    ASSUME NEW t, NEW n, NEW w, NEW k, TreeOK(t, n), TreeOK(w, k),
           NEW q \in Slots, q # 1, InTree(t, q), t[q].firstChild = NULL,
           t[q].state # "Terminated", w[q].state = "Terminated",
           \A x \in Slots :
             /\ w[x].isInitialized = t[x].isInitialized
             /\ w[x].PID = t[x].PID /\ w[x].parent = t[x].parent
             /\ x # q => (w[x].state = "Terminated" <=> t[x].state = "Terminated")
    PROVE  Dies(t, w, t[q].PID)
<1> DEFINE known == PidsIn(t, FALSE) \cup PidsIn(t, TRUE)
<1>1. /\ \A x \in Slots : InTree(w, x) <=> InTree(t, x)
      /\ \A x \in Slots : InTree(t, x) /\ t[x].PID = t[q].PID => x = q
      /\ t[q].PID # 1 /\ t[q].PID \in Nat /\ 0 < t[q].PID
  BY KnownPid DEF InTree, NamedIn
<1>2. /\ PidsIn(w, FALSE) = PidsIn(t, FALSE) \ {t[q].PID}
      /\ PidsIn(w, TRUE) = PidsIn(t, TRUE) \cup {t[q].PID}
      /\ t[q].PID \in PidsIn(t, FALSE)
  <2>1. PidsIn(w, TRUE) = PidsIn(t, TRUE) \cup {t[q].PID}
    BY <1>1 DEF PidsIn
  <2>2. PidsIn(w, FALSE) = PidsIn(t, FALSE) \ {t[q].PID}
    BY <1>1 DEF PidsIn
  <2>3. t[q].PID \in PidsIn(t, FALSE)
    BY DEF PidsIn
  <2> QED
    BY <2>1, <2>2, <2>3
<1>3. ASSUME NEW y \in known, y # 1
      PROVE  /\ t[getProcess(y)].parent \in Slots
             /\ t[t[getProcess(y)].parent].PID # t[q].PID
             /\ w[w[getProcess(y)].parent].PID = t[t[getProcess(y)].parent].PID
  <2>1. PICK x \in Slots : InTree(t, x) /\ y = t[x].PID
    BY DEF PidsIn
  <2>2. getProcess(y) = x /\ x # 1
    BY <1>3, <2>1, KnownPid
  <2>3. t[x].parent \in Slots /\ InTree(t, t[x].parent)
    BY <2>1, <2>2, KnownPid
  <2>4. t[x].parent # q
    BY <2>3, SlotOfPid DEF TreeOK, TableOK, Linked
  <2> QED
    BY <1>1, <2>2, <2>3, <2>4
<1>4. ASSUME NEW y \in known PROVE FatherIn(t)[y] # t[q].PID
  <2>1. FatherIn(t)[y] = IF y = 1 THEN 0 ELSE t[t[getProcess(y)].parent].PID
    BY DEF FatherIn
  <2>2. 0 # t[q].PID
    BY <1>1
  <2> QED
    BY <2>1, <2>2, <1>3
<1>5. FatherIn(w) = FatherIn(t)
  <2>1. PidsIn(w, FALSE) \cup PidsIn(w, TRUE) = known
    BY <1>2
  <2> QED
    BY <2>1, <1>3 DEF FatherIn
<1> QED
  BY <1>1, <1>2, <1>4, <1>5 DEF Dies, KnownIn

\* The dead process in slot c is collected by its parent in slot q.
LEMMA ReapedTree ==
    ASSUME NEW t, NEW n, NEW w, NEW k, TreeOK(t, n), TreeOK(w, k),
           NEW q \in Slots, NEW c \in Slots, c # 1, InTree(t, q),
           t[q].state # "Terminated", t[c].isInitialized,
           t[c].state = "Terminated", t[c].parent = q, w[c] = Blank,
           \A x \in Slots : t[x].parent # c,
           Others(t, w, c)
    PROVE  Shrinks(t, w, t[q].PID, t[c].PID)
<1> USE DEF Others
<1> DEFINE known == PidsIn(t, FALSE) \cup PidsIn(t, TRUE)
<1>1. /\ InTree(t, c) /\ ~InTree(w, c) /\ c # q
      /\ \A x \in Slots \ {c} : InTree(w, x) <=> InTree(t, x)
      /\ \A x \in Slots : InTree(t, x) /\ t[x].PID = t[c].PID => x = c
  <2>1. InTree(t, c) /\ c # q
    BY SlotOfPid DEF InTree, NamedIn
  <2>2. ~InTree(w, c) /\ \A x \in Slots \ {c} : InTree(w, x) <=> InTree(t, x)
    BY BlankFields DEF InTree, NamedIn
  <2> QED
    BY <2>1, <2>2, KnownPid
<1>2. /\ PidsIn(w, FALSE) = PidsIn(t, FALSE)
      /\ PidsIn(w, TRUE) = PidsIn(t, TRUE) \ {t[c].PID}
      /\ t[q].PID \in PidsIn(t, FALSE) /\ t[c].PID \in PidsIn(t, TRUE)
  <2>1. PidsIn(w, FALSE) = PidsIn(t, FALSE)
    BY <1>1 DEF PidsIn
  <2>2. PidsIn(w, TRUE) = PidsIn(t, TRUE) \ {t[c].PID}
    BY <1>1 DEF PidsIn
  <2>3. t[q].PID \in PidsIn(t, FALSE) /\ t[c].PID \in PidsIn(t, TRUE)
    BY <1>1 DEF PidsIn
  <2> QED
    BY <2>1, <2>2, <2>3
<1>3. ASSUME NEW y \in known \ {t[c].PID}, y # 1
      PROVE  /\ w[w[getProcess(y)].parent].PID = t[t[getProcess(y)].parent].PID
  <2>1. PICK x \in Slots : InTree(t, x) /\ y = t[x].PID
    BY DEF PidsIn
  <2>4. x # c
    BY <1>3, <2>1
  <2>2. getProcess(y) = x /\ x # 1 /\ x # c
    BY <1>3, <2>1, <2>4, KnownPid
  <2>3. t[x].parent \in Slots /\ t[x].parent # c
    BY <2>1, <2>2, KnownPid
  <2> QED
    BY <2>2, <2>3
<1>4. t[c].PID # 1 /\ getProcess(t[c].PID) = c
  BY <1>1, KnownPid
<1>5. FatherIn(t)[t[c].PID] = t[q].PID
  BY <1>2, <1>4 DEF FatherIn
<1>6. PidsIn(w, FALSE) \cup PidsIn(w, TRUE) = known \ {t[c].PID}
  <2>1. t[c].PID \notin PidsIn(t, FALSE)
    BY <1>1 DEF PidsIn
  <2> QED
    BY <2>1, <1>2
<1>7. FatherIn(w) = [y \in known \ {t[c].PID} |-> FatherIn(t)[y]]
  BY <1>3, <1>6 DEF FatherIn
<1> QED
  BY <1>2, <1>5, <1>7 DEF Shrinks, KnownIn, Without

-----------------------------------------------------------------------------
\* The first state is the abstract one.
LEMMA TreeInit ==
    ASSUME Init PROVE Tree!Init
<1>1. /\ getProcess(1) = 1 /\ 1 \in Slots
      /\ processTable[1] = Created(1, 6)
      /\ \A x \in Slots : x # 1 => processTable[x] = Blank
  BY SlotOfPid DEF Init
<1>2. /\ processTable[1].isInitialized /\ processTable[1].PID = 1
      /\ processTable[1].state = "Runnable"
      /\ \A x \in Slots : x # 1 => ~processTable[x].isInitialized
  <2>1. \A x \in Slots : x # 1 => ~processTable[x].isInitialized
    BY <1>1, BlankFields
  <2>2. /\ processTable[1].isInitialized /\ processTable[1].PID = 1
        /\ processTable[1].state = "Runnable"
    BY <1>1, CreatedFields
  <2> QED
    BY <2>1, <2>2
<1>3. \A x \in Slots : InTree(processTable, x) <=> x = 1
  BY <1>1, <1>2 DEF InTree, NamedIn
<1>4. PidsIn(processTable, FALSE) = {1} /\ PidsIn(processTable, TRUE) = {}
  BY <1>1, <1>2, <1>3 DEF PidsIn
<1>5. FatherIn(processTable) = [c \in {1} |-> 0]
  BY <1>4 DEF FatherIn
<1> QED
  BY <1>4, <1>5, Mapping DEF Tree!Init

\* A step that leaves the table alone leaves the tree alone.
LEMMA TreeStutters ==
    ASSUME PidsIn(processTable', FALSE) = PidsIn(processTable, FALSE),
           PidsIn(processTable', TRUE) = PidsIn(processTable, TRUE),
           FatherIn(processTable') = FatherIn(processTable)
    PROVE  UNCHANGED Tree!vars
  BY Mapping, MappingNext DEF Tree!vars

\* fork1: a child of the caller, or a process outside the tree when its priority
\* is refused.
LEMMA TreeCreate ==
    ASSUME Inv, Inv', NEW pid \in 1 .. MaxPid + MAXPROC, NEW priority \in Int,
           NEW entry, NEW back, Create(pid, priority, entry, back),
           processTable[Current].state # "Terminated"
    PROVE  [Tree!Next]_(Tree!vars)
<1> DEFINE c == getProcess(pid)
<1>1. /\ pid \in Nat /\ pidCounter <= pid /\ c \in Slots /\ NULL \notin Slots
      /\ processTable[c] = Blank /\ c # Current /\ c # 1 /\ Current \in Slots
      /\ processTable'[c].isInitialized /\ processTable'[c].PID = pid
      /\ processTable'[c].state = "Runnable"
      /\ processTable'[c].parent = IF ValidPriority(priority) THEN Current ELSE NULL
      /\ \A x \in Slots \ {c} :
           /\ processTable'[x].isInitialized = processTable[x].isInitialized
           /\ processTable'[x].PID = processTable[x].PID
           /\ processTable'[x].state = processTable[x].state
           /\ processTable'[x].parent = processTable[x].parent
  BY CreateEffect, InvFacts
<1>2. /\ TreeOK(processTable, pidCounter) /\ TreeOK(processTable', pidCounter')
  BY InvTree, InvTreeNext
<1>3. InTree(processTable, Current) /\ processTable[Current].PID = runningProcessID
  BY DEF Inv, RunInv, InTree, Named, NamedIn
<1>4. CASE ValidPriority(priority)
  <2>1. Grows(processTable, processTable', runningProcessID, pid)
    <3>1. Others(processTable, processTable', c)
      BY <1>1 DEF Others
    <3>2. processTable'[c].state # "Terminated" /\ processTable'[c].parent = Current
      BY <1>1, <1>4
    <3> HIDE DEF c
    <3>3. processTable'[c].PID = pid
      BY <1>1
    <3>4. processTable'[c].isInitialized /\ c \in Slots /\ processTable[c] = Blank
          /\ c # 1
      BY <1>1
    <3>5. pidCounter <= processTable'[c].PID
      BY <1>1
    <3>6. /\ processTable'[c].parent \in Slots
          /\ InTree(processTable, processTable'[c].parent)
      BY <3>2, <1>1, <1>3
    <3>7. Grows(processTable, processTable',
                processTable[processTable'[c].parent].PID, processTable'[c].PID)
      BY <1>2, <3>1, <3>2, <3>4, <3>5, <3>6, ForkedTree
    <3> QED
      BY <3>2, <3>3, <3>7, <1>3
  <2>2. runningProcessID \in PidsIn(processTable, FALSE)
    BY <1>1, <1>3 DEF PidsIn
  <2>3. Tree!Fork(runningProcessID, pid)
    BY <1>3, <2>1, <2>2, Mapping, MappingNext
       DEF Tree!Fork, Tree!Known, Grows, KnownIn, WithChild
  <2> QED
    BY <2>2, <2>3, Mapping DEF Tree!Next
<1>5. CASE ~ValidPriority(priority)
  <2>1. ~InTree(processTable, c) /\ ~InTree(processTable', c)
    BY <1>1, <1>5, BlankFields, SlotOfPid DEF InTree, NamedIn
  <2>2. \A x \in Slots \ {c} : InTree(processTable', x) <=> InTree(processTable, x)
    BY <1>1 DEF InTree, NamedIn
  <2>4. \A x \in Slots :
          /\ InTree(processTable', x) <=> InTree(processTable, x)
          /\ InTree(processTable, x) =>
               /\ processTable'[x].PID = processTable[x].PID
               /\ processTable'[x].parent = processTable[x].parent
               /\ processTable'[x].state = "Terminated"
                      <=> processTable[x].state = "Terminated"
    BY <1>1, <2>1, <2>2
  <2>3. UNCHANGED Tree!vars
    BY <1>2, <2>4, SameTree, TreeStutters
  <2> QED
    BY <2>3
<1> QED
  BY <1>4, <1>5

\* Where nothing of the table but states other than the dead ones' changes, the
\* tree stays.
LEMMA TreeStays ==
    ASSUME Inv, Inv',
           \A x \in Slots :
             /\ processTable'[x].isInitialized = processTable[x].isInitialized
             /\ processTable'[x].PID = processTable[x].PID
             /\ processTable'[x].parent = processTable[x].parent
             /\ processTable'[x].state = "Terminated"
                    <=> processTable[x].state = "Terminated"
    PROVE  UNCHANGED Tree!vars
<1>1. TreeOK(processTable, pidCounter) /\ TreeOK(processTable', pidCounter')
  BY InvTree, InvTreeNext
<1>2. \A x \in Slots : InTree(processTable', x) <=> InTree(processTable, x)
  BY DEF InTree, NamedIn
<1> QED
  BY <1>1, <1>2, SameTree, TreeStutters

\* So does a context switch in which nobody dies.
LEMMA TreeSwitch ==
    ASSUME Inv, Inv', NEW x \in Slots, processTable[x].isInitialized,
           processTable[x].state # "Terminated",
           processTable[Current].state # "Terminated",
           SwitchFrom("Runnable", processTable[x].PID)
    PROVE  [Tree!Next]_(Tree!vars)
<1>1. \A y \in Slots :
           /\ processTable'[y].isInitialized = processTable[y].isInitialized
           /\ processTable'[y].PID = processTable[y].PID
           /\ processTable'[y].parent = processTable[y].parent
           /\ processTable'[y].state =
                   IF y = x THEN "Running"
                   ELSE IF y = Current THEN "Runnable" ELSE processTable[y].state
  BY SwitchEffect
<1>2. \A y \in Slots :
           /\ processTable'[y].isInitialized = processTable[y].isInitialized
           /\ processTable'[y].PID = processTable[y].PID
           /\ processTable'[y].parent = processTable[y].parent
           /\ processTable'[y].state = "Terminated"
                  <=> processTable[y].state = "Terminated"
  BY <1>1
<1> QED
  BY <1>2, TreeStays

\* Every step of the machine is a step of the tree or leaves it alone.
LEMMA TreeStep ==
    ASSUME Inv, Inv', [Next]_vars
    PROVE  [Tree!Next]_(Tree!vars)
<1>1. /\ Current \in Slots /\ 1 \in Slots /\ NULL \notin Slots
      /\ getProcess(1) = 1 /\ getProcess(2) = 2 /\ getProcess(3) = 3
      /\ 2 \in Slots /\ 3 \in Slots
      /\ TreeOK(processTable, pidCounter) /\ TreeOK(processTable', pidCounter')
  BY InvFacts, SlotOfPid, InvTree, InvTreeNext
<1>2. resume[1] # "startup" => processTable[Current].state = "Running"
  BY DEF Inv, RunInv
<1>3. InTree(processTable, Current) /\ processTable[Current].PID = runningProcessID
  BY DEF Inv, RunInv, InTree, Named, NamedIn
<1>4. CASE UNCHANGED processTable
  BY <1>4, TreeStays
<1>5. CASE StartProcesses
  <2>1. At("startup") /\ Current = 1
    BY <1>5, WhoRuns DEF StartProcesses, Booting
  <2>2. processTable' = Switched(processTable, 1, 1, "Runnable")
    BY <1>1, <1>5 DEF StartProcesses, Switched, Inv, TableOK, Filled
  <2>3. processTable[1].isInitialized /\ processTable[1].state # "Terminated"
    BY <1>3, <2>1 DEF InTree, Inv, RunInv
  <2>4. \A x \in Slots :
             /\ processTable'[x].isInitialized = processTable[x].isInitialized
             /\ processTable'[x].PID = processTable[x].PID
             /\ processTable'[x].parent = processTable[x].parent
             /\ processTable'[x].state = IF x = 1 THEN "Running"
                                         ELSE processTable[x].state
    BY <1>1, <2>2, <2>3, SwitchedInTable DEF Inv
  <2>5. \A x \in Slots :
             /\ processTable'[x].isInitialized = processTable[x].isInitialized
             /\ processTable'[x].PID = processTable[x].PID
             /\ processTable'[x].parent = processTable[x].parent
             /\ processTable'[x].state = "Terminated"
                    <=> processTable[x].state = "Terminated"
    BY <2>3, <2>4
  <2> QED
    BY <2>5, TreeStays
<1>6. CASE InitForksSentinel \/ InitForksTestcase
  <2>1. PICK pc \in {"init_sentinel", "init_testcase"} : At(pc)
    BY <1>6 DEF InitForksSentinel, InitForksTestcase
  <2>2. Current = 1 /\ resume[1] = pc
    BY <2>1, WhoRuns DEF Booting
  <2>3. processTable[Current].state # "Terminated"
    BY <2>2 DEF Inv, RunInv
  <2>4. pidCounter \in {2, 3} /\ processTable[getProcess(pidCounter)] = Blank
    BY <1>1, <2>2 DEF Inv, BootInv
  <2>5. PICK priority \in {7, 3}, entry \in {"sentinel", "user"}, back \in PCs :
            Create(pidCounter, priority, entry, back)
    <3>1. CASE InitForksSentinel
      BY <2>4, <3>1, FirstIsOpen DEF InitForksSentinel, PCs
    <3>2. CASE InitForksTestcase
      BY <2>4, <3>2, FirstIsOpen DEF InitForksTestcase, PCs
    <3> QED
      BY <1>6, <3>1, <3>2
  <2>6. pidCounter \in 1 .. MaxPid + MAXPROC
    BY <2>4, CooperativeAssumption
  <2> QED
    BY <2>3, <2>5, <2>6, TreeCreate
<1>7. CASE InitSwitches
  <2>1. At("init_switch") /\ SwitchFrom("Runnable", 3)
    BY <1>7 DEF InitSwitches
  <2>2. /\ Current = 1 /\ resume[1] = "init_switch"
        /\ processTable[3].isInitialized /\ processTable[3].PID = 3
        /\ processTable[Current].state # "Terminated"
        /\ InTree(processTable, 3) /\ processTable[3].state # "Terminated"
    <3>1. Current = 1 /\ resume[1] = "init_switch"
      BY <2>1, WhoRuns DEF Booting
    <3>2. /\ processTable[3].isInitialized /\ processTable[3].PID = 3
          /\ InTree(processTable, 3) /\ processTable[3].state # "Terminated"
      BY <3>1 DEF Inv, BootInv, InTree, NamedIn
    <3>3. processTable[Current].state # "Terminated"
      BY <1>2, <3>1
    <3> QED
      BY <3>1, <3>2, <3>3
  <2> QED
    BY <1>1, <2>1, <2>2, TreeSwitch
<1>8. CASE JoinReaps
  <2> DEFINE c == curChild
  <2>1. /\ c \in Slots /\ c # Current /\ c # 1
        /\ processTable[c].parent = Current
        /\ processTable[c].state = "Terminated" /\ processTable[c].isInitialized
        /\ processTable'[c] = Blank
        /\ \A x \in Slots \ {c} :
             /\ processTable'[x].isInitialized = processTable[x].isInitialized
             /\ processTable'[x].PID = processTable[x].PID
             /\ processTable'[x].state = processTable[x].state
             /\ processTable'[x].parent = processTable[x].parent
        /\ \A x \in Slots : processTable[x].parent # c
    BY <1>8, ReapEffect
  <2>2. Others(processTable, processTable', c)
    BY <2>1 DEF Others
  <2>3. processTable[Current].state # "Terminated"
    BY <1>1, <2>1 DEF Inv, ParentInv
  <2>4. Shrinks(processTable, processTable', processTable[Current].PID,
                processTable[c].PID)
    BY <1>1, <1>3, <2>1, <2>2, <2>3, ReapedTree
  <2>5. Tree!Reap(runningProcessID, processTable[c].PID)
    BY <1>3, <2>4, Mapping, MappingNext
       DEF Tree!Reap, Tree!Known, Shrinks, KnownIn, Without
  <2>6. /\ runningProcessID \in PidsIn(processTable, FALSE)
        /\ processTable[c].PID \in PidsIn(processTable, TRUE)
    BY <1>3, <2>4 DEF Shrinks
  <2>7. runningProcessID \in PidsWhere(FALSE)
        /\ processTable[c].PID \in PidsWhere(TRUE)
    BY <2>6, Mapping
  <2>10. \E y \in PidsWhere(TRUE) : Tree!Reap(runningProcessID, y)
    BY <2>5, <2>7 DEF Tree!Reap
  <2>9. \E p \in PidsWhere(FALSE) : \E y \in PidsWhere(TRUE) : Tree!Reap(p, y)
    BY <2>7, <2>10
  <2>8. Tree!Next
    BY <2>9 DEF Tree!Next
  <2> QED
    BY <2>8
<1>9. ASSUME NEW priority \in ForkArgs, Fork1(priority)
      PROVE  [Tree!Next]_(Tree!vars)
  <2>1. At("user") /\ createProcess(priority, "user", "user") /\ priority \in Int
        /\ pidCounter <= MaxPid
    BY <1>9, CooperativeAssumption DEF Fork1
  <2>2. processTable[Current].state # "Terminated"
    BY DEF Inv, RunInv
  <2>3. ASSUME NEW k \in 0 .. MAXPROC - 1,
               Create(pidCounter + k, priority, "user", "user")
        PROVE  [Tree!Next]_(Tree!vars)
    <3>1. pidCounter + k \in 1 .. MaxPid + MAXPROC
      BY <2>1, CooperativeAssumption DEF Inv, TypeInv
    <3> QED
      BY <2>1, <2>2, <2>3, <3>1, TreeCreate
  <2>4. ASSUME CreateFails("user") PROVE [Tree!Next]_(Tree!vars)
    BY <1>4, <2>4 DEF CreateFails
  <2> QED
    BY <2>1, <2>3, <2>4 DEF createProcess
<1>10. ASSUME NEW pid \in CanRun, TEMP_switchTo(pid) \/ Quit(pid)
       PROVE  [Tree!Next]_(Tree!vars)
  <2>1. PICK x \in Slots : /\ processTable[x].state = "Runnable" /\ Named(x)
                           /\ pid = processTable[x].PID
    BY DEF CanRun
  <2>2. processTable[x].isInitialized
    BY <1>1, <2>1, BlankFields DEF TreeOK, TableOK, Filled
  <2>3. At("user") /\ processTable[Current].state = "Running"
    BY <1>2, <1>10, WhoRuns DEF TEMP_switchTo, Quit, Booting
  <2>4. CASE TEMP_switchTo(pid)
    BY <2>1, <2>2, <2>3, <2>4, TreeSwitch DEF TEMP_switchTo
  <2>5. CASE Quit(pid)
    <3>1. /\ SwitchFrom("Terminated", processTable[x].PID) /\ Current # 1
          /\ processTable[Current].firstChild = NULL /\ x # Current
      BY <2>1, <2>3, <2>5, WhoRuns DEF Quit, Booting
    <3>2. /\ processTable'[Current].state = "Terminated"
          /\ \A y \in Slots :
               /\ processTable'[y].isInitialized = processTable[y].isInitialized
               /\ processTable'[y].PID = processTable[y].PID
               /\ processTable'[y].parent = processTable[y].parent
               /\ y # Current => (processTable'[y].state = "Terminated"
                                    <=> processTable[y].state = "Terminated")
      <4>1. \A y \in Slots :
               /\ processTable'[y].isInitialized = processTable[y].isInitialized
               /\ processTable'[y].PID = processTable[y].PID
               /\ processTable'[y].parent = processTable[y].parent
               /\ processTable'[y].state =
                       IF y = x THEN "Running"
                       ELSE IF y = Current THEN "Terminated"
                       ELSE processTable[y].state
        BY <2>2, <3>1, SwitchEffect
      <4> QED
        BY <1>1, <2>1, <3>1, <4>1
    <3>3. Dies(processTable, processTable', processTable[Current].PID)
      BY <1>1, <1>3, <2>3, <3>1, <3>2, ExitedTree
    <3>4. Tree!Exit(runningProcessID)
      BY <1>3, <3>3, Mapping, MappingNext DEF Tree!Exit, Tree!Known, Dies, KnownIn
    <3>5. runningProcessID \in PidsWhere(FALSE)
      BY <1>3, <3>3, Mapping DEF Dies
    <3>6. \E p \in PidsWhere(FALSE) : Tree!Exit(p)
      BY <3>4, <3>5
    <3>7. Tree!Next
      BY <3>6 DEF Tree!Next
    <3> QED
      BY <3>7
  <2> QED
    BY <1>10, <2>4, <2>5
<1> QED
  BY <1>4, <1>5, <1>6, <1>7, <1>8, <1>9, <1>10
     DEF Next, KernelStep, UserStep, InitHalts, Sentinel, QuitError, DumpCrashes,
         UserModeError, MainReturns, Ended, vars, End, JoinNext, CallJoin

\* fork1, quit and join, whatever the programs do, behave as the process tree.
THEOREM TreeImplemented == Spec => ImplementsProcessTree
<1>1. Init => Tree!Init
  BY TreeInit
<1>2. Inv /\ Inv' /\ [Next]_vars => [Tree!Next]_(Tree!vars)
  BY TreeStep
<1> QED
  BY <1>1, <1>2, Invariance, PTL DEF Spec, ImplementsProcessTree, Tree!Spec
=============================================================================
