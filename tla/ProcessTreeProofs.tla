--------------------------- MODULE ProcessTreeProofs ---------------------------
(***************************************************************************)
(* Proofs about the process tree, for every set of PIDs.  Neither property *)
(* is inductive alone: a reaped child leaves parentOf's domain only because *)
(* it was not alive, and its parent is alive only because every process    *)
(* has an entry.                                                           *)
(***************************************************************************)
EXTENDS ProcessTree, TLAPS

TreeInv == TypeOK /\ ParentsAlive

\* What is true of the tree when init is its only process.
LEMMA InitEstablishes == Init => TreeInv
  BY DEF Init, TreeInv, TypeOK, ParentsAlive, Known

\* fork1's child gets a parent that runs.
LEMMA ForkPreserves ==
    ASSUME TreeInv, NEW p \in alive, NEW c \in Pids, Fork(p, c)
    PROVE  TreeInv'
<1> USE DEF TreeInv, TypeOK, ParentsAlive, Known, Fork
<1>1. TypeOK'
  OBVIOUS
<1>2. ParentsAlive'
  OBVIOUS
<1> QED
  BY <1>1, <1>2

\* quit refuses a process with children, so nobody loses a parent.
LEMMA ExitPreserves ==
    ASSUME TreeInv, NEW p \in alive, Exit(p)
    PROVE  TreeInv'
<1> USE DEF TreeInv, TypeOK, ParentsAlive, Known, Exit
<1>1. Known' = Known
  OBVIOUS
<1>2. TypeOK'
  BY <1>1
<1>3. ParentsAlive'
  BY <1>1
<1> QED
  BY <1>2, <1>3

\* join takes away a zombie, which is nobody's parent.
LEMMA ReapPreserves ==
    ASSUME TreeInv, NEW p \in alive, NEW c \in zombies, Reap(p, c)
    PROVE  TreeInv'
<1> USE DEF TreeInv, TypeOK, ParentsAlive, Known, Reap
<1>1. Known' = Known \ {c} /\ c # 1
  OBVIOUS
<1>2. TypeOK'
  BY <1>1
<1>3. ParentsAlive'
  BY <1>1
<1> QED
  BY <1>2, <1>3

\* No step of the tree breaks the invariant.
LEMMA StepPreserves == TreeInv /\ [Next]_vars => TreeInv'
<1> SUFFICES ASSUME TreeInv, [Next]_vars
             PROVE  TreeInv'
  OBVIOUS
<1>1. CASE \E p \in alive : \E c \in Pids : Fork(p, c)
  BY <1>1, ForkPreserves
<1>2. CASE \E p \in alive : Exit(p)
  BY <1>2, ExitPreserves
<1>3. CASE \E p \in alive : \E c \in zombies : Reap(p, c)
  BY <1>3, ReapPreserves
<1>4. CASE UNCHANGED vars
  BY <1>4 DEF TreeInv, TypeOK, ParentsAlive, Known, vars
<1> QED
  BY <1>1, <1>2, <1>3, <1>4 DEF Next

\* The three variables always describe one set of PIDs: fork1, quit and join
\* keep the parent of exactly the processes that were not collected.
THEOREM TypeCorrect == Spec => []TypeOK
<1>1. TreeInv => TypeOK
  BY DEF TreeInv
<1> QED
  BY <1>1, InitEstablishes, StepPreserves, PTL DEF Spec

\* No orphans: every process that was not joined yet has a living parent.
THEOREM NoOrphans == Spec => []ParentsAlive
<1>1. TreeInv => ParentsAlive
  BY DEF TreeInv
<1> QED
  BY <1>1, InitEstablishes, StepPreserves, PTL DEF Spec

=============================================================================
