------------------------------ MODULE ProcessTree ------------------------------
(***************************************************************************)
(* What fork1, quit and join promise together, without queues, priorities, *)
(* interrupts or slots: a tree of processes.  A process is born to one     *)
(* living parent, dies only without children, and is collected once, by    *)
(* that parent.                                                            *)
(***************************************************************************)
EXTENDS Integers

CONSTANT Pids     \* the PIDs that fork1 can give; init's is 1

VARIABLES
    alive,      \* the PIDs that have not called quit
    zombies,    \* the PIDs that have, and were not joined yet
    parentOf    \* PID -> PID of the process that forked it; init's is 0

vars == <<alive, zombies, parentOf>>

Known == alive \cup zombies

Init ==
    /\ alive = {1}
    /\ zombies = {}
    /\ parentOf = [c \in {1} |-> 0]

\* fork1: p gets a new child.
Fork(p, c) ==
    /\ p \in alive /\ c \notin Known
    /\ alive' = alive \cup {c}
    /\ parentOf' = [x \in Known \cup {c} |-> IF x = c THEN p ELSE parentOf[x]]
    /\ UNCHANGED zombies

\* quit: refused while a child is left, running or not.
Exit(p) ==
    /\ p \in alive \ {1}
    /\ \A c \in Known : parentOf[c] # p
    /\ alive' = alive \ {p}
    /\ zombies' = zombies \cup {p}
    /\ UNCHANGED parentOf

\* join: p collects one of its own dead children.
Reap(p, c) ==
    /\ p \in alive /\ c \in zombies /\ parentOf[c] = p
    /\ zombies' = zombies \ {c}
    /\ parentOf' = [x \in Known \ {c} |-> parentOf[x]]
    /\ UNCHANGED alive

Next ==
    \/ \E p \in alive : \E c \in Pids : Fork(p, c)
    \/ \E p \in alive : Exit(p)
    \/ \E p \in alive : \E c \in zombies : Reap(p, c)

Spec == Init /\ [][Next]_vars

-----------------------------------------------------------------------------
\* The three variables describe one set of PIDs.
TypeOK ==
    /\ alive \subseteq Pids \cup {1}
    /\ zombies \subseteq Pids
    /\ parentOf \in [Known -> Pids \cup {0, 1}]

\* No orphans: a process, dead or alive, that was not joined yet has a parent
\* that can still join it, and init itself never goes away.
ParentsAlive ==
    /\ 1 \in alive /\ alive \cap zombies = {}
    /\ \A c \in Known \ {1} : parentOf[c] \in alive
    /\ parentOf[1] = 0

=============================================================================
