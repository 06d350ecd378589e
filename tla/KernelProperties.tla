--------------------------- MODULE KernelProperties ---------------------------
(***************************************************************************)
(* What the process kernel is for, stated over Kernel's variables.         *)
(***************************************************************************)
EXTENDS Kernel

Used == {x \in Slots : processTable[x].isInitialized}
Init1 == getProcess(1)

\* The nodes a list that starts at h goes through.
OnList(next, h) == {x \in Slots : Walk(next, h, {x}) = x}
Queued(i) == OnList(QueueLinks(Mem), runQueues[i])
ChildList(p) == OnList(SiblingLinks(Mem), processTable[p].firstChild)

\* The child that p has forked but not yet put in its list.
Linking(p) == {x \in Slots : ctx[p].pc = "fork_link" /\ x = ctx[p].arg}

-----------------------------------------------------------------------------
\* A slot in use holds the one PID that getProcess(pid) looks up there, below
\* pidCounter: findOpenProcessTableSlot must skip every slot in use when it
\* wraps around.
PidsInPlace ==
    \A x \in Used : /\ getProcess(processTable[x].PID) = x
                    /\ processTable[x].PID < pidCounter

\* PIDs stay unique and in their slots, and the slot of the running process is
\* its own: nobody reaps it or reuses it under its feet.
SlotIdentity ==
    /\ PidsInPlace
    /\ runningProcessID # -1 =>
            /\ Current \in Used
            /\ processTable[Current].PID = runningProcessID

\* firstChild and the sibling links, rewritten by fork1 and by join, agree with
\* the parent links: p's list holds exactly p's children, each once, with both
\* directions consistent; nobody is an orphan but init, a child being forked and
\* a process whose arguments fork1 rejected after it had made it.
ChildLists ==
    \A p \in Used :
        /\ {x \in Used : processTable[x].parent = p} =
                ChildList(p) \cup Linking(p)
        /\ \A x \in ChildList(p) :
            /\ (processTable[x].prevSibling = NULL) <=>
                    (processTable[p].firstChild = x)
            /\ processTable[x].nextSibling # NULL =>
                    processTable[processTable[x].nextSibling].prevSibling = x
        /\ (p # Init1 /\ processTable[p].parent = NULL) =>
                \/ ctx[Current].pc \in {"fork_pid", "fork_parent"}
                \/ ~ValidArgs(processTable[p])

\* No lost wakeup: a process that waits in join has no dead child, except one
\* that is still in the middle of quit and has its unblockProc ahead.
NoLostJoin ==
    \A p \in Used : processTable[p].state = JoinBlocked =>
        \A x \in ChildList(p) :
            processTable[x].state = "Terminated" => x = Current

\* When the sentinel reports a deadlock, every other process is blocked or
\* dead: the report is true.
DeadlockIsReal ==
    machine = "deadlock" =>
        \A x \in Used : \/ processTable[x].startFunc = "sentinel"
                        \/ processTable[x].state \in
                                {"Blocked", ZapBlocked, JoinBlocked, "Terminated"}

\* A context switch goes to a process of the best priority among all those
\* Runnable in the process table, not only among those the queues still reach.
DispatchByPriority ==
    [][(runningProcessID' # runningProcessID /\ runningProcessID # -1) =>
            \A y \in Slots :
                processTable[y].state = "Runnable" =>
                    processTable[y].priority >=
                        processTable[getProcess(runningProcessID')].priority
      ]_vars

\* One CPU: whatever wakeups, interrupts and rotations do to the state fields,
\* only the current process is ever marked Running.
OnlyCurrentRuns ==
    \A x \in Slots : processTable[x].state = "Running" =>
        runningProcessID # -1 /\ x = Current

\* The kernel itself brings nobody back: a dead process stays dead until its slot
\* is blanked, whatever stale zap lists, the wakeup by a child's quit or the
\* parent's fork1 find in its slot, unless a program passes it to unblockProc.
WokenByUser(x) ==
    At("unblock_state") /\ ctx[Current].ret = "user" /\ ctx[Current].arg = x

DeadStayDead ==
    [][\A x \in Slots :
            (processTable[x].state = "Terminated" /\ ~WokenByUser(x)) =>
                processTable'[x].state \in {"Terminated", ""}]_vars

-----------------------------------------------------------------------------
\* What the code does not keep.

\* A removed node is gone: when its removeNode is over, a process that blocked
\* or quit is on no run queue (until somebody unblocks it).
RemovedIsOffQueue ==
    machine = "on" =>
        \A x \in Used :
            (/\ processTable[x].state \in
                    {"Blocked", ZapBlocked, JoinBlocked, "Terminated"}
             /\ ctx[x].pc \notin {"block_remove", "quit_remove"}) =>
                \A i \in Priorities : x \notin Queued(i)

\* A process that waits in zap is woken by the quit of its target, in the loop
\* over the zap list, and by nothing else.
ZapWaitsForTarget ==
    [][\A x \in Slots :
            (processTable[x].state = ZapBlocked
                /\ processTable'[x].state # ZapBlocked) =>
                    At("wake_state")]_vars

\* fork1 links, and returns the PID of, the process it has just created: that
\* process has no parent yet.
ForkLinksItsOwnChild ==
    [][ForkParent => processTable[ctx[Current].arg].parent = NULL]_vars

\* When a time slice ends in a switch, the process that had the CPU is now the
\* last of its queue.
SliceSendsRunningToTail ==
    [][(ClockInterrupt /\ runningProcessID' # runningProcessID) =>
            processTable'[Current].nextQueueNode = NULL]_vars

-----------------------------------------------------------------------------
\* The CPU goes on executing kernel code.  Nothing forces a user program to
\* make its next call, and nothing forces a clock interrupt.
FairSpec == Spec /\ WF_vars(KernelStep)

Awaited(p) ==
    /\ processTable[p].state = JoinBlocked
    /\ \E x \in ChildList(p) : processTable[x].state = "Terminated"

\* A join whose child has died does not wait for ever, and the sentinel does not
\* call that a deadlock; only an error of a user program or a crash prevents it.
JoinReturns ==
    \A p \in Slots : Awaited(p) ~>
                        (~Awaited(p) \/ machine \in {"halted", "crashed"})

\* The loop over the zap list ends, so that quit reaches its unblockProc.
QuitLeavesZapList ==
    At("quit_wake") ~> ~(At("quit_wake") \/ At("wake_state") \/ At("wake_add"))

-----------------------------------------------------------------------------
\* The kernel's tree, by PID: a process joins it when fork1 sets its parent.
InTree(x) == x \in Used /\ (processTable[x].parent # NULL \/ x = Init1)
PidsWhere(dead) ==
    {processTable[x].PID : x \in {y \in Slots :
        InTree(y) /\ (processTable[y].state = "Terminated") = dead}}
SlotOf(pid) == CHOOSE x \in Used : processTable[x].PID = pid

Tree == INSTANCE ProcessTree WITH
    Pids <- 1 .. MaxPid + MAXPROC,
    alive <- PidsWhere(FALSE),
    zombies <- PidsWhere(TRUE),
    parentOf <- [pid \in PidsWhere(FALSE) \cup PidsWhere(TRUE) |->
                    IF pid = 1 THEN 0
                    ELSE processTable[processTable[SlotOf(pid)].parent].PID]

\* fork1, quit and join implement the process tree.
ImplementsProcessTree == Tree!Spec

=============================================================================
