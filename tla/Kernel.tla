-------------------------------- MODULE Kernel --------------------------------
(***************************************************************************)
(* The process kernel of phase1b/phase1.c: fork1, join, quit, zap,         *)
(* blockMe, unblockProc, the dispatcher and the clock interrupt.           *)
(*                                                                         *)
(* One simulated CPU runs one process at a time.  A kernel function is cut *)
(* into the steps that a clock interrupt can separate: pc says where the   *)
(* process is inside the kernel.  Code that runs with interrupts off is    *)
(* one step (createProcess, dispatcher, the body of zap); so are, as a     *)
(* coarser grain than the code's, addToQueue, removeNode, the linking of   *)
(* a child, and join's scan with the reaping it ends in.  What a user      *)
(* program does between kernel calls is left open: it makes any call of    *)
(* Ops, in any order.                                                      *)
(***************************************************************************)
EXTENDS RunQueues

CONSTANTS
    Ops,          \* the kernel calls user programs make
    ForkArgs,     \* the priorities and start functions they give to fork1
    TimeSlicing,  \* do clock interrupts expire the running time slice?
    WokenStates,   \* the states in which they find whom they pass to unblockProc
    MaxPid        \* bound: no fork1 call once pidCounter exceeds it

AllOps == {"fork1", "join", "quit", "zap", "blockMe", "unblockProc",
           "dumpProcesses", "return"}

ASSUME KernelAssumption ==
    /\ MAXPROC > 3
    /\ Ops \subseteq AllOps
    /\ ForkArgs \subseteq [priority : Priorities, startFunc : {"NULL", "user"}]
    /\ TimeSlicing \in BOOLEAN
    /\ WokenStates \subseteq States
    /\ MaxPid \in Nat

VARIABLES
    processTable,      \* slot -> struct Process
    runQueues,         \* priority -> head of the run queue
    runningProcessID,  \* -1 until the first dispatch
    pidCounter,
    intOn,             \* USLOSS_PSR_CURRENT_INT of the CPU
    ctx,               \* slot -> where the process is, see Context
    machine            \* "on", or how the simulation ended

vars == <<processTable, runQueues, runningProcessID, pidCounter, intOn, ctx,
          machine>>

PCs == {"init_sentinel", "init_testcase", "init_loop", "sentinel", "user",
        "null_func", "fork_pid", "fork_parent", "fork_link", "join",
        "block_state", "block_remove", "unblock_state", "unblock_add",
        "dispatch", "quit_remove", "quit_wake", "wake_state", "wake_add",
        "dead"}

\* pc: the next step.  ret: where it goes on after the kernel call.  arg: the
\* slot the call works on.  block: the state blockMe will set.  parent: the slot
\* of quit's parentID.  int: the interrupt bit once the process is back from its
\* next dispatch.  "dead" is where quit would return, or init has run out of
\* children; the sentinel is one for good, so that a run in which init gets there
\* is a deadlock of the model.
BlockStates == {"", "Blocked", ZapBlocked, JoinBlocked}
Context == [pc : PCs, ret : PCs, arg : Link, block : BlockStates,
            parent : Slots, int : BOOLEAN]

Start(pc) == [pc |-> pc, ret |-> pc, arg |-> NULL, block |-> "", parent |-> 0,
              int |-> TRUE]

\* USLOSS_ContextInit: a new process begins in trampoline(), which turns
\* interrupts on and calls its start function.
EntryPoint(startFunc) ==
    CASE startFunc = "init_main" -> "init_sentinel"
      [] startFunc = "sentinel"  -> "sentinel"
      [] startFunc = "NULL"      -> "null_func"
      [] OTHER                   -> "user"

-----------------------------------------------------------------------------
getProcess(pid) == pid % MAXPROC
Current == getProcess(runningProcessID)

Mem == [table |-> processTable, queues |-> runQueues, fault |-> "none"]

\* Write m back; a fault inside a loop ends the simulation.
Store(m) == /\ processTable' = m.table
            /\ runQueues' = m.queues
            /\ machine' = IF m.fault = "none" THEN "on" ELSE m.fault

SetState(m, x, state) == [m EXCEPT !.table[x].state = state]

At(pc) == /\ machine = "on"
          /\ runningProcessID # -1
          /\ ctx[Current].pc = pc

Goto(pc) == ctx' = [ctx EXCEPT ![Current].pc = pc]

\* The current process enters a kernel function that returns to ret.
Call(pc, arg, ret) ==
    ctx' = [ctx EXCEPT ![Current].pc = pc, ![Current].arg = arg,
                       ![Current].ret = ret]

End(kind) ==
    /\ machine' = kind
    /\ UNCHANGED <<processTable, runQueues, runningProcessID, pidCounter,
                   intOn, ctx>>

\* USLOSS_ContextSwitch to pid, the old process's state being oldState and the
\* interrupt bit int.
SwitchTo(m, c, pid, oldState, int) ==
    LET x == getProcess(pid)
    IN  /\ processTable' = [m.table EXCEPT ![Current].state = oldState,
                                           ![x].state = "Running"]
        /\ runQueues' = m.queues
        /\ runningProcessID' = pid
        /\ ctx' = [c EXCEPT ![x].int = FALSE]
        /\ intOn' = int
        /\ UNCHANGED machine

OldState(m) == IF m.table[Current].state = "Running" THEN "Runnable"
                                                    ELSE m.table[Current].state
\* The resumed process runs with interrupts off, unless it starts in
\* trampoline() or comes back from the clock interrupt or from zap().
ResumeInt(c, pid) == c[getProcess(pid)].int

\* Slips: the old process stays Running; it becomes Runnable whatever its state
\* was.
runProcess_KeepsOld(m, c, pid) ==
    SwitchTo(m, c, pid, m.table[Current].state, ResumeInt(c, pid))
runProcess_AlwaysDemotes(m, c, pid) ==
    SwitchTo(m, c, pid, "Runnable", ResumeInt(c, pid))

\* runProcess: only a process still marked Running becomes Runnable again.
runProcess(m, c, pid) ==
    SwitchTo(m, c, pid, OldState(m), ResumeInt(c, pid))

\* A slot that nobody has holds no saved context: a switch to it crashes.  Such a
\* slot can be Runnable, by an unblockProc that was too late.
HasContext(m, pid) == m.table[getProcess(pid)].isInitialized

\* dispatcher, entered by the current process with memory m and contexts c.
\* When nothing is Runnable it restores the interrupt bit and returns.
dispatcher(m, c) ==
    LET x == NextToRun(m)
    IN  /\ UNCHANGED pidCounter
        /\ IF x = NULL
           THEN /\ Store(m)
                /\ ctx' = [c EXCEPT ![Current].int = FALSE]
                /\ intOn' = (intOn \/ c[Current].int)
                /\ UNCHANGED runningProcessID
           ELSE IF /\ x \in Decisive(m) /\ m.table[x].state = "Runnable"
                   /\ HasContext(m, m.table[x].PID)
           THEN runProcess(m, c, m.table[x].PID)
           ELSE /\ machine' = IF x \in Decisive(m) THEN "crashed" ELSE "hung"
                /\ UNCHANGED <<processTable, runQueues, runningProcessID,
                               intOn, ctx>>

Dispatch ==
    /\ At("dispatch")
    /\ dispatcher(Mem, [ctx EXCEPT ![Current].pc = ctx[Current].ret])

-----------------------------------------------------------------------------
\* The first free slot is k steps beyond pidCounter.
FirstFree(k) ==
    LET free == FreeSteps(processTable, pidCounter)
    IN  k \in free /\ \A j \in free : k <= j

\* The process pid, Runnable and queued; the creating process goes on in c.
newProcess(pid, priority, startFunc, c) ==
    LET slot == getProcess(pid)
        p == [Blank EXCEPT !.isInitialized = TRUE, !.PID = pid,
                           !.priority = priority, !.state = "Runnable",
                           !.startFunc = startFunc]
    IN  /\ Store(addToQueue([Mem EXCEPT !.table[slot] = p], slot))
        /\ pidCounter' = pid + 1
        /\ ctx' = [c EXCEPT ![slot] = Start(EntryPoint(startFunc))]
        /\ UNCHANGED <<runningProcessID, intOn>>

\* A full table leaves interrupts off and has moved pidCounter by MAXPROC.
tableFull(c) ==
    /\ FreeSteps(processTable, pidCounter) = {}
    /\ pidCounter' = pidCounter + MAXPROC
    /\ intOn' = FALSE
    /\ ctx' = c
    /\ UNCHANGED <<processTable, runQueues, runningProcessID, machine>>

\* createProcess, with interrupts off; fork1 checks its arguments afterwards.
createProcess(priority, startFunc, okPc, failPc, ret) ==
    LET caller(pc) == [ctx EXCEPT ![Current].pc = pc, ![Current].ret = ret]
    IN  \/ tableFull(caller(failPc))
        \/ \E k \in 0 .. MAXPROC - 1 :
            /\ FirstFree(k)
            /\ newProcess(pidCounter + k, priority, startFunc, caller(okPc))

ValidArgs(a) == a.priority \in 1 .. 7 /\ a.startFunc # "NULL"

Fork1(a) ==
    /\ At("user")
    /\ "fork1" \in Ops /\ pidCounter <= MaxPid
    /\ createProcess(a.priority, a.startFunc,
                     IF ValidArgs(a) THEN "fork_pid" ELSE "user", "user",
                     "user")

\* init_main's two calls of fork1.
InitForksSentinel ==
    /\ At("init_sentinel")
    /\ createProcess(7, "sentinel", "fork_pid", "init_testcase",
                     "init_testcase")

InitForksTestcase ==
    /\ At("init_testcase")
    /\ createProcess(3, "testcase_main", "fork_pid", "join", "join")

\* createProcess returns pidCounter-1, read after interrupts are back on.  Slip
\* first: the PID is used as a slot.
ForkPid_NoModulo ==
    /\ At("fork_pid")
    /\ Call("fork_parent", pidCounter - 1, ctx[Current].ret)
    /\ UNCHANGED <<processTable, runQueues, runningProcessID, pidCounter,
                   intOn, machine>>

ForkPid ==
    /\ At("fork_pid")
    /\ Call("fork_parent", getProcess(pidCounter - 1), ctx[Current].ret)
    /\ UNCHANGED <<processTable, runQueues, runningProcessID, pidCounter,
                   intOn, machine>>

ForkParent ==
    /\ At("fork_parent")
    /\ processTable' = [processTable EXCEPT
                            ![ctx[Current].arg].parent = Current]
    /\ Goto("fork_link")
    /\ UNCHANGED <<runQueues, runningProcessID, pidCounter, intOn, machine>>

\* The child goes to the head of the parent's list; the parent marks itself
\* Runnable and calls the dispatcher.
ForkLink ==
    LET child == ctx[Current].arg
        first == processTable[Current].firstChild
        Linked(x) ==
            [processTable[x] EXCEPT
                !.firstChild = IF x = Current THEN child ELSE @,
                !.state = IF x = Current THEN "Runnable" ELSE @,
                !.prevSibling = IF x = first THEN child ELSE @,
                !.nextSibling = IF x = child /\ first # NULL
                                THEN first ELSE @]
    IN  /\ At("fork_link")
        /\ processTable' = [x \in Slots |-> Linked(x)]
        /\ Goto("dispatch")
        /\ UNCHANGED <<runQueues, runningProcessID, pidCounter, intOn, machine>>

-----------------------------------------------------------------------------
\* init_main loops on join; every other caller is a user program.
AfterJoin(x) ==
    IF processTable[x].startFunc = "init_main" THEN "init_loop" ELSE "user"

CallJoin ==
    /\ At("user")
    /\ "join" \in Ops
    /\ Call("join", NULL, "join")
    /\ UNCHANGED <<processTable, runQueues, runningProcessID, pidCounter,
                   intOn, machine>>

\* Unlink a Terminated child from its siblings and blank its slot, whether or
\* not it is still in a run queue or a zap list.  Slip first: the head moves on
\* even when the child is in the middle of the list.
Reap_AlwaysMovesHead(child) ==
    LET c == processTable[child]
        Unlinked(x) ==
            [processTable[x] EXCEPT
                !.nextSibling = IF x = c.prevSibling THEN c.nextSibling ELSE @,
                !.firstChild = IF x = Current THEN c.nextSibling ELSE @,
                !.prevSibling = IF x = c.nextSibling THEN c.prevSibling ELSE @]
    IN  processTable' = [x \in Slots |-> IF x = child THEN Blank
                                                      ELSE Unlinked(x)]

Reap(child) ==
    LET c == processTable[child]
        Unlinked(x) ==
            [processTable[x] EXCEPT
                !.nextSibling = IF x = c.prevSibling THEN c.nextSibling ELSE @,
                !.firstChild = IF x = Current /\ c.prevSibling = NULL
                               THEN c.nextSibling ELSE @,
                !.prevSibling = IF x = c.nextSibling THEN c.prevSibling ELSE @]
    IN  processTable' = [x \in Slots |-> IF x = child THEN Blank
                                                      ELSE Unlinked(x)]

\* The children at which join's scan stops.
JoinStops == {x \in Slots : processTable[x].state \in {"Terminated", ""}}

\* Slip: only the youngest child is looked at.
FirstDeadChild_YoungestOnly ==
    IF processTable[Current].firstChild \in JoinStops
    THEN processTable[Current].firstChild ELSE NULL

FirstDeadChild ==
    Walk(SiblingLinks(Mem), processTable[Current].firstChild, JoinStops)

\* join: the scan for a Terminated child, then either the reaping or the
\* decision to block.  It calls itself again after blockMe.
Join ==
    LET found == FirstDeadChild
    IN  /\ At("join")
        /\ IF processTable[Current].firstChild = NULL
           THEN /\ Goto(IF AfterJoin(Current) = "init_loop"
                        THEN "dead" ELSE "user")
                /\ UNCHANGED <<processTable, machine>>
           ELSE IF found = NULL
           THEN /\ ctx' = [ctx EXCEPT ![Current].pc = "block_state",
                                      ![Current].block = JoinBlocked,
                                      ![Current].ret = "join"]
                /\ UNCHANGED <<processTable, machine>>
           ELSE IF found \in JoinStops /\ processTable[found].state = "Terminated"
           THEN /\ Reap(found)
                /\ Goto(AfterJoin(Current))
                /\ UNCHANGED machine
           ELSE /\ machine' = IF found \in JoinStops THEN "crashed" ELSE "hung"
                /\ UNCHANGED <<processTable, ctx>>
        /\ UNCHANGED <<runQueues, runningProcessID, pidCounter, intOn>>

\* init_main after a join: mark itself Runnable, dispatch, join again.
InitLoop ==
    /\ At("init_loop")
    /\ processTable' = [processTable EXCEPT ![getProcess(1)].state = "Runnable"]
    /\ Call("dispatch", NULL, "join")
    /\ UNCHANGED <<runQueues, runningProcessID, pidCounter, intOn, machine>>

-----------------------------------------------------------------------------
\* blockMe with a status above 10 that is neither ZAP_STATUS nor
\* JOIN_BLOCK_STATUS.
BlockMe ==
    /\ At("user")
    /\ "blockMe" \in Ops
    /\ ctx' = [ctx EXCEPT ![Current].pc = "block_state",
                          ![Current].block = "Blocked",
                          ![Current].ret = "user"]
    /\ UNCHANGED <<processTable, runQueues, runningProcessID, pidCounter,
                   intOn, machine>>

\* A status of at most 10 stops the machine.
BlockMeError == At("user") /\ "blockMe" \in Ops /\ End("halted")

BlockState ==
    /\ At("block_state")
    /\ Store(SetState(Mem, Current, ctx[Current].block))
    /\ Goto("block_remove")
    /\ UNCHANGED <<runningProcessID, pidCounter, intOn>>

BlockRemove ==
    /\ At("block_remove")
    /\ Store(removeNode(Mem, Current))
    /\ Goto("dispatch")
    /\ UNCHANGED <<runningProcessID, pidCounter, intOn>>

\* unblockProc looks at nothing: whatever the process is doing, it becomes Runnable
\* and is queued.  With WokenStates = States programs wake anybody.
UnblockProc(x) ==
    /\ At("user")
    /\ "unblockProc" \in Ops
    /\ processTable[x].state \in WokenStates
    /\ Call("unblock_state", x, "user")
    /\ UNCHANGED <<processTable, runQueues, runningProcessID, pidCounter,
                   intOn, machine>>

UnblockState ==
    /\ At("unblock_state")
    /\ Store(SetState(Mem, ctx[Current].arg, "Runnable"))
    /\ Goto("unblock_add")
    /\ UNCHANGED <<runningProcessID, pidCounter, intOn>>

\* Slip: the process is marked Runnable but not queued.
UnblockAdd_Forgets ==
    /\ At("unblock_add")
    /\ Goto("dispatch")
    /\ UNCHANGED <<processTable, runQueues, runningProcessID, pidCounter,
                   intOn, machine>>

UnblockAdd ==
    /\ At("unblock_add")
    /\ Store(addToQueue(Mem, ctx[Current].arg))
    /\ Goto("dispatch")
    /\ UNCHANGED <<runningProcessID, pidCounter, intOn>>

-----------------------------------------------------------------------------
\* quit refuses to run while the caller has children.
QuitError ==
    /\ At("user")
    /\ "quit" \in Ops
    /\ processTable[Current].firstChild # NULL
    /\ End("halted")

\* Slip: quit does not look for children.
Quit_KeepsChildren ==
    /\ At("user")
    /\ "quit" \in Ops
    /\ Store(SetState(Mem, Current, "Terminated"))
    /\ Goto("quit_remove")
    /\ UNCHANGED <<runningProcessID, pidCounter, intOn>>

Quit ==
    /\ At("user")
    /\ "quit" \in Ops
    /\ processTable[Current].firstChild = NULL
    /\ Store(SetState(Mem, Current, "Terminated"))
    /\ Goto("quit_remove")
    /\ UNCHANGED <<runningProcessID, pidCounter, intOn>>

\* Off its run queue; then parentID is read, so an orphan crashes.  A parent
\* that is gone leaves a blank slot, and parentID 0.
QuitRemove ==
    /\ At("quit_remove")
    /\ IF processTable[Current].parent = NULL
       THEN End("crashed")
       ELSE /\ Store(removeNode(Mem, Current))
            /\ ctx' = [ctx EXCEPT
                    ![Current].pc = "quit_wake",
                    ![Current].arg = processTable[Current].zapHead,
                    ![Current].parent =
                        getProcess(processTable[processTable[Current].parent].PID)]
            /\ UNCHANGED <<runningProcessID, pidCounter, intOn>>

\* The loop over the zap list: a zapper that is not Terminated is marked
\* Runnable and queued.  At the end comes unblockProc(parentID), whatever the
\* parent is doing.  Slip first: the zappers are woken dead or alive.
QuitWake_Revives ==
    LET z == ctx[Current].arg
    IN  /\ At("quit_wake")
        /\ UNCHANGED <<processTable, runQueues, runningProcessID, pidCounter,
                       intOn>>
        /\ IF z = NULL
           THEN /\ Call("unblock_state", ctx[Current].parent, "dead")
                /\ UNCHANGED machine
           ELSE IF processTable[z].state = ""
           THEN /\ machine' = "crashed"
                /\ UNCHANGED ctx
           ELSE Goto("wake_state") /\ UNCHANGED machine

QuitWake ==
    LET z == ctx[Current].arg
    IN  /\ At("quit_wake")
        /\ UNCHANGED <<processTable, runQueues, runningProcessID, pidCounter,
                       intOn>>
        /\ IF z = NULL
           THEN /\ Call("unblock_state", ctx[Current].parent, "dead")
                /\ UNCHANGED machine
           ELSE IF processTable[z].state = ""
           THEN /\ machine' = "crashed"
                /\ UNCHANGED ctx
           ELSE /\ IF processTable[z].state = "Terminated"
                   THEN Call("quit_wake", processTable[z].nextZapNode, "dead")
                   ELSE Goto("wake_state")
                /\ UNCHANGED machine

WakeState ==
    /\ At("wake_state")
    /\ Store(SetState(Mem, ctx[Current].arg, "Runnable"))
    /\ Goto("wake_add")
    /\ UNCHANGED <<runningProcessID, pidCounter, intOn>>

WakeAdd ==
    LET z == ctx[Current].arg
    IN  /\ At("wake_add")
        /\ Store(addToQueue(Mem, z))
        /\ Call("quit_wake", processTable[z].nextZapNode, "dead")
        /\ UNCHANGED <<runningProcessID, pidCounter, intOn>>

-----------------------------------------------------------------------------
\* zap's checks, in the order of the code; each of them stops the machine.
ZapRefused(pid) ==
    \/ pid <= 1
    \/ pid = runningProcessID
    \/ ~processTable[getProcess(pid)].isInitialized
    \/ processTable[getProcess(pid)].PID # pid
    \/ processTable[getProcess(pid)].state = "Terminated"

ZapError(pid) ==
    /\ At("user")
    /\ "zap" \in Ops
    /\ ZapRefused(pid)
    /\ End("halted")

\* With interrupts off until it returns: the caller becomes the head of the
\* target's zap list, and blocks.  An empty list leaves the caller's own
\* nextZapNode as it was.
Zap(pid) ==
    LET target == getProcess(pid)
        head   == processTable[target].zapHead
    IN  /\ At("user")
        /\ "zap" \in Ops
        /\ ~ZapRefused(pid)
        /\ processTable' =
            [processTable EXCEPT
                ![target].zapHead = Current,
                ![Current].nextZapNode = IF head = NULL THEN @ ELSE head]
        /\ ctx' = [ctx EXCEPT ![Current].pc = "block_state",
                              ![Current].block = ZapBlocked,
                              ![Current].ret = "user",
                              ![Current].int = intOn]
        /\ intOn' = FALSE
        /\ UNCHANGED <<runQueues, runningProcessID, pidCounter, machine>>

-----------------------------------------------------------------------------
\* The clock interrupt, when the running process has used up its slice and
\* has a successor in its queue.  The handler's return turns interrupts on.
ClockInterrupt ==
    LET m == rotate(Mem, Current)
        c == [ctx EXCEPT ![Current].int = TRUE]
    IN  /\ machine = "on" /\ runningProcessID # -1
        /\ TimeSlicing /\ intOn
        /\ processTable[Current].nextQueueNode # NULL
        /\ IF m.fault # "none" THEN End(m.fault) ELSE dispatcher(m, c)

\* The sentinel runs and no I/O is pending (phase2_check_io() is 0).
Sentinel == At("sentinel") /\ End("deadlock")

\* testcase_main_local halts the machine when testcase_main returns; a start
\* function that returns is followed by quit (see Quit).
MainReturns ==
    /\ At("user")
    /\ "return" \in Ops
    /\ processTable[Current].startFunc = "testcase_main"
    /\ End("halted")

\* A dead process that somebody has made Runnable gets the CPU again: quit, which
\* phase1.h declares to be noreturn, returns into code that is not there.
QuitReturns ==
    /\ At("dead")
    /\ processTable[Current].startFunc # "init_main"
    /\ End("crashed")

\* trampoline calls a null start function.
NullFunc == At("null_func") /\ End("crashed")

\* dumpProcesses prints parent->PID of every process but init.
DumpProcesses ==
    /\ At("user")
    /\ "dumpProcesses" \in Ops
    /\ \E x \in Slots : /\ processTable[x].isInitialized
                        /\ processTable[x].PID # 1
                        /\ processTable[x].parent = NULL
    /\ End("crashed")

-----------------------------------------------------------------------------
\* phase1_init has run: init is process 1, at priority 6.
Init ==
    /\ processTable = [x \in Slots |->
            IF x = getProcess(1)
            THEN [Blank EXCEPT !.isInitialized = TRUE, !.PID = 1,
                               !.priority = 6, !.state = "Runnable",
                               !.startFunc = "init_main"]
            ELSE Blank]
    /\ runQueues = [i \in Priorities |-> IF i = 6 THEN getProcess(1) ELSE NULL]
    /\ runningProcessID = -1
    /\ pidCounter = 2
    /\ intOn = FALSE
    /\ ctx = [x \in Slots |-> Start("init_sentinel")]
    /\ machine = "on"

\* startProcesses: the first dispatch, with no process to switch from.
StartProcesses ==
    /\ machine = "on" /\ runningProcessID = -1
    /\ \E x \in Slots :
        /\ x = NextToRun(Mem) /\ processTable[x].state = "Runnable"
        /\ processTable' = [processTable EXCEPT ![x].state = "Running"]
        /\ runningProcessID' = processTable[x].PID
        /\ intOn' = ctx[x].int
        /\ ctx' = [ctx EXCEPT ![x].int = FALSE]
    /\ UNCHANGED <<runQueues, pidCounter, machine>>

KernelCall ==
    \/ \E a \in ForkArgs : Fork1(a)
    \/ CallJoin \/ BlockMe \/ BlockMeError \/ Quit \/ QuitError
    \/ \E x \in Slots : UnblockProc(x)
    \/ \E pid \in 1 .. pidCounter : Zap(pid) \/ ZapError(pid)
    \/ DumpProcesses \/ MainReturns

KernelStep ==
    \/ InitForksSentinel \/ InitForksTestcase \/ InitLoop
    \/ ForkPid \/ ForkParent \/ ForkLink \/ Join
    \/ BlockState \/ BlockRemove \/ UnblockState \/ UnblockAdd
    \/ QuitRemove \/ QuitWake \/ WakeState \/ WakeAdd \/ Dispatch
    \/ Sentinel \/ NullFunc \/ QuitReturns

\* The simulation has ended.
Ended == machine # "on" /\ UNCHANGED vars

Next == StartProcesses \/ KernelCall \/ KernelStep \/ ClockInterrupt \/ Ended

Spec == Init /\ [][Next]_vars

-----------------------------------------------------------------------------
\* Every variable holds what its C declaration and the code's own values allow.
TypeOK ==
    /\ processTable \in [Slots -> Process]
    /\ runQueues \in [Priorities -> Link]
    /\ runningProcessID \in Nat \cup {-1}
    /\ pidCounter \in Nat
    /\ intOn \in BOOLEAN
    /\ ctx \in [Slots -> Context]
    /\ machine \in {"on", "halted", "deadlock", "crashed", "hung"}

=============================================================================
