------------------------------ MODULE RunQueues ------------------------------
(***************************************************************************)
(* The process table and the eight run queues of phase1b/phase1.c, and the *)
(* functions that read and rewrite their links.                            *)
(*                                                                         *)
(* A C pointer to a process is the slot it points at, or NULL.  A memory   *)
(* is a record of the table, the queues and a fault: "hung" when the       *)
(* walk of a list never leaves it, "crashed" when the code follows a null  *)
(* pointer.  The operators are named after the C functions they stand for. *)
(***************************************************************************)
EXTENDS Integers, FiniteSets, FiniteSetsExt

CONSTANT MAXPROC      \* the size of processTable (50 in the course's phase1.h)

ASSUME MaxprocAssumption == MAXPROC \in Nat \ {0}

NULL == -1
Slots == 0 .. MAXPROC - 1
Link == Slots \cup {NULL}
Priorities == 0 .. 7          \* the indices of runQueues

ZapBlocked == "Blocked(waiting for zap target to quit)"
JoinBlocked == "Blocked(waiting for child to quit)"

\* The blank slot left by join() has a null state string: "".
States == {"", "Runnable", "Running", "Blocked", ZapBlocked, JoinBlocked,
           "Terminated"}
StartFuncs == {"", "NULL", "init_main", "sentinel", "testcase_main", "user"}

\* struct Process without what no branch of the kernel depends on: the name,
\* stack, exit status, times, saved context (see Kernel) and unused fields.
Process ==
    [isInitialized : BOOLEAN, PID : Nat, priority : Priorities,
     state : States, startFunc : StartFuncs,
     parent : Link, firstChild : Link, nextSibling : Link, prevSibling : Link,
     nextQueueNode : Link, prevQueueNode : Link,
     zapHead : Link, nextZapNode : Link]

Blank ==
    [isInitialized |-> FALSE, PID |-> 0, priority |-> 0,
     state |-> "", startFunc |-> "",
     parent |-> NULL, firstChild |-> NULL,
     nextSibling |-> NULL, prevSibling |-> NULL,
     nextQueueNode |-> NULL, prevQueueNode |-> NULL,
     zapHead |-> NULL, nextZapNode |-> NULL]

Memory == [table : [Slots -> Process], queues : [Priorities -> Link],
           fault : {"none", "hung", "crashed"}]

Fault(m, kind) == [m EXCEPT !.fault = kind]

-----------------------------------------------------------------------------
\* Where a loop that starts at h and follows next stops: at the first node of
\* Stop, or at NULL.  A node outside Stop means that the list has a cycle and
\* the loop never ends.
Walk(next, h, Stop) ==
    LET step == [x \in Link |-> IF x = NULL \/ x \in Stop
                                THEN x ELSE next[x]]
        at[k \in 0 .. MAXPROC] == IF k = 0 THEN h ELSE step[at[k-1]]
    IN  at[MAXPROC]

QueueLinks(m) == [x \in Slots |-> m.table[x].nextQueueNode]
SiblingLinks(m) == [x \in Slots |-> m.table[x].nextSibling]
Tails(m) == {x \in Slots : m.table[x].nextQueueNode = NULL}

-----------------------------------------------------------------------------
\* addToQueue: append n, unless the walk meets n before the tail.  An empty
\* queue keeps n's own old links, and a tail that is n becomes its own
\* predecessor.
addToQueue(m, n) ==
    LET pr   == m.table[n].priority
        stop == Walk(QueueLinks(m), m.queues[pr], Tails(m) \cup {n})
    IN  IF m.queues[pr] = NULL
        THEN [m EXCEPT !.queues[pr] = n]
        ELSE IF stop \in Tails(m)
        THEN [m EXCEPT !.table[stop].nextQueueNode = n,
                       !.table[n].prevQueueNode = stop,
                       !.table[n].nextQueueNode = NULL]
        ELSE IF stop = n THEN m
        ELSE Fault(m, "hung")

\* removeNode: relink n's neighbours and the head.  n keeps its own links, and
\* an empty queue is left alone whatever n's neighbours are.
removeNode(m, n) ==
    LET p == m.table[n]
        unlinked(x) ==
            [m.table[x] EXCEPT
                !.nextQueueNode = IF x = p.prevQueueNode
                                  THEN p.nextQueueNode ELSE @,
                !.prevQueueNode = IF x = p.nextQueueNode
                                  THEN p.prevQueueNode ELSE @]
    IN  IF m.queues[p.priority] = NULL
        THEN m
        ELSE [m EXCEPT !.table = [x \in Slots |-> unlinked(x)],
                       !.queues[p.priority] =
                            IF @ = n THEN p.nextQueueNode ELSE @]

\* The loop of dispatcher(): from priority 1 to 7, the first process found
\* Runnable.  strcmp() on a blank slot's state is the other way to stop.
Decisive(m) == {x \in Slots : m.table[x].state \in {"Runnable", ""}}

\* Slip: the loop over the priorities runs from 7 down to 1.
NextToRun_WorstFirst(m) ==
    LET stop  == [i \in 1 .. 7 |->
                    Walk(QueueLinks(m), m.queues[i], Decisive(m))]
        found == {i \in 1 .. 7 : stop[i] # NULL}
    IN  IF found = {} THEN NULL ELSE stop[Max(found)]

NextToRun(m) ==
    LET stop  == [i \in 1 .. 7 |->
                    Walk(QueueLinks(m), m.queues[i], Decisive(m))]
        found == {i \in 1 .. 7 : stop[i] # NULL}
    IN  IF found = {} THEN NULL ELSE stop[Min(found)]

\* timeSlice's rotation: the head of p's queue goes behind its tail.  Only the
\* forward links are kept; p need not be the head.
rotate(m, p) ==
    LET pr   == m.table[p].priority
        head == m.queues[pr]
        tail == Walk(QueueLinks(m), head, Tails(m))
        ring == [m EXCEPT !.table[tail].nextQueueNode = head]
    IN  IF head = NULL THEN Fault(m, "crashed")
        ELSE IF tail \notin Tails(m) THEN Fault(m, "hung")
        ELSE [ring EXCEPT
                !.queues[pr] = ring.table[head].nextQueueNode,
                !.table[head].nextQueueNode = NULL]

\* The slots findOpenProcessTableSlot() tries, counted from pidCounter.
\* Slip: isInitialized is read after pidCounter has moved on, in the slot behind.
FreeSteps_Behind(table, pidCounter) ==
    {k \in 0 .. MAXPROC - 1 :
        ~table[(pidCounter + k + 1) % MAXPROC].isInitialized}

FreeSteps(table, pidCounter) ==
    {k \in 0 .. MAXPROC - 1 :
        ~table[(pidCounter + k) % MAXPROC].isInitialized}

=============================================================================
