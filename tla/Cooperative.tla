------------------------------ MODULE Cooperative ------------------------------
(***************************************************************************)
(* The first kernel, phase1a/phase1.c: fork1, join, quit and TEMP_switchTo. *)
(* There is no dispatcher, no blocking and no interrupt handler: a process *)
(* keeps the CPU until it names the one that shall run, and join returns   *)
(* -2 when no child has died.  So a kernel call is one step, but for join, *)
(* whose walk along the children is one step for each.                     *)
(*                                                                         *)
(* A C pointer to a process is its slot, or NULL.  User programs make any  *)
(* legal call: a PID they pass is one that fork1 has returned, or init's,  *)
(* of a process that has not quit.                                         *)
(***************************************************************************)
EXTENDS Integers

CONSTANTS
    MAXPROC,      \* the size of processTable
    ForkArgs,     \* the priorities that programs give to fork1
    MaxPid        \* bound: no fork1 call once pidCounter exceeds it

ASSUME CooperativeAssumption ==
    /\ MAXPROC \in Nat /\ MAXPROC > 3
    /\ ForkArgs \subseteq Int
    /\ MaxPid \in Nat

VARIABLES
    processTable,      \* slot -> struct Process
    runningProcessID,
    pidCounter,
    resume,            \* slot -> where the process goes on when it has the CPU
    curChild,          \* join's local variable, NULL outside join
    machine            \* "on", or how the simulation ended

vars == <<processTable, runningProcessID, pidCounter, resume, curChild, machine>>

NULL == -1
Slots == 0 .. MAXPROC - 1
Link == Slots \cup {NULL}

\* The slot that join blanks has a null state string: "".  "REMOVED" is
\* overwritten at once.
States == {"", "Runnable", "Running", "Terminated"}
PCs == {"startup", "init_sentinel", "init_testcase", "init_switch", "init_halt",
        "sentinel", "user", "join"}

\* struct Process without name, stack, status and the fields nobody reads.
Process ==
    [isInitialized : BOOLEAN, PID : Nat, priority : Int, state : States,
     parent : Link, firstChild : Link, nextSibling : Link, prevSibling : Link]

Blank ==
    [isInitialized |-> FALSE, PID |-> 0, priority |-> 0, state |-> "",
     parent |-> NULL, firstChild |-> NULL, nextSibling |-> NULL,
     prevSibling |-> NULL]

Created(pid, priority) ==
    [isInitialized |-> TRUE, PID |-> pid, priority |-> priority,
     state |-> "Runnable", parent |-> NULL, firstChild |-> NULL,
     nextSibling |-> NULL, prevSibling |-> NULL]

-----------------------------------------------------------------------------
getProcess(pid) == pid % MAXPROC
Current == getProcess(runningProcessID)

At(pc) == machine = "on" /\ resume[Current] = pc
Goto(pc) == resume' = [resume EXCEPT ![Current] = pc]

End(how) ==
    /\ machine' = how
    /\ UNCHANGED <<processTable, runningProcessID, pidCounter, resume, curChild>>

\* findOpenProcessTableSlot tries the slots from pidCounter on, and each try
\* moves pidCounter: the first free slot is that of the PID it returns.
Open(pid) == ~processTable[getProcess(pid)].isInitialized
FirstOpen(pid) ==
    /\ pid \in pidCounter .. pidCounter + MAXPROC - 1
    /\ Open(pid)
    /\ \A q \in pidCounter .. pid - 1 : ~Open(q)
TableFull == \A pid \in pidCounter .. pidCounter + MAXPROC - 1 : ~Open(pid)

-----------------------------------------------------------------------------
\* The child goes to the head of its parent's list.
Adopted(table, parent, child) ==
    LET first == table[parent].firstChild
    IN  [x \in Slots |-> [table[x] EXCEPT
            !.parent = IF x = child THEN parent ELSE @,
            !.prevSibling = IF x = first THEN child ELSE @,
            !.nextSibling = IF x = child /\ first # NULL THEN first ELSE @,
            !.firstChild = IF x = parent THEN child ELSE @]]

ValidPriority(priority) == priority \in 1 .. 7

\* fork1: createProcess, then the check of its arguments, and only then the
\* child's place in the tree.  A refused child keeps its slot.
Create(pid, priority, entry, back) ==
    LET slot  == getProcess(pid)
        table == [processTable EXCEPT ![slot] = Created(pid, priority)]
    IN  /\ FirstOpen(pid)
        /\ pidCounter' = pid + 1
        /\ processTable' = IF ValidPriority(priority)
                           THEN Adopted(table, Current, slot) ELSE table
        /\ resume' = [resume EXCEPT ![Current] = back, ![slot] = entry]
        /\ UNCHANGED <<runningProcessID, curChild, machine>>

\* A full table: nothing is made, but every slot was tried.
CreateFails(back) ==
    /\ TableFull
    /\ pidCounter' = pidCounter + MAXPROC
    /\ Goto(back)
    /\ UNCHANGED <<processTable, runningProcessID, curChild, machine>>

createProcess(priority, entry, back) ==
    \/ \E k \in 0 .. MAXPROC - 1 : Create(pidCounter + k, priority, entry, back)
    \/ CreateFails(back)

Fork1(priority) ==
    /\ At("user")
    /\ pidCounter <= MaxPid
    /\ createProcess(priority, "user", "user")

-----------------------------------------------------------------------------
\* Slip: the old process stays Running.
SwitchFrom_KeepsOld(oldState, pid) ==
    /\ processTable' = [processTable EXCEPT ![getProcess(pid)].state = "Running"]
    /\ runningProcessID' = pid
    /\ UNCHANGED <<pidCounter, curChild, machine>>

\* USLOSS_ContextSwitch to the process pid, the old one being left in oldState.
SwitchFrom(oldState, pid) ==
    /\ processTable' = [processTable EXCEPT ![Current].state = oldState,
                                            ![getProcess(pid)].state = "Running"]
    /\ runningProcessID' = pid
    /\ UNCHANGED <<pidCounter, curChild, machine>>

\* The PIDs that a program can name: init's and those that fork1 has returned, of
\* the processes that wait for the CPU.
Named(x) == \/ processTable[x].parent # NULL
            \/ x = getProcess(1)
CanRun == {processTable[x].PID : x \in {y \in Slots :
                processTable[y].state = "Runnable" /\ Named(y)}}

TEMP_switchTo(pid) ==
    /\ At("user") /\ pid \in CanRun
    /\ SwitchFrom("Runnable", pid)
    /\ UNCHANGED resume

\* Slip: a process may leave children behind.
Quit_Orphans(pid) ==
    /\ At("user") /\ pid \in CanRun
    /\ SwitchFrom("Terminated", pid)
    /\ UNCHANGED resume

\* A process with children left, dead or alive, stops the machine.
Quit(pid) ==
    /\ At("user") /\ pid \in CanRun
    /\ processTable[Current].firstChild = NULL
    /\ SwitchFrom("Terminated", pid)
    /\ UNCHANGED resume

QuitError ==
    /\ At("user")
    /\ processTable[Current].firstChild # NULL
    /\ End("halted")

-----------------------------------------------------------------------------
\* join: the walk begins at the youngest child, if there is one.
CallJoin ==
    /\ At("user")
    /\ curChild' = processTable[Current].firstChild
    /\ Goto(IF curChild' = NULL THEN "user" ELSE "join")
    /\ UNCHANGED <<processTable, runningProcessID, pidCounter, machine>>

\* This one has not quit: the next, if there is one, or back with -2.
JoinNext ==
    /\ At("join")
    /\ processTable[curChild].state # "Terminated"
    /\ curChild' = processTable[curChild].nextSibling
    /\ Goto(IF curChild' = NULL THEN "user" ELSE "join")
    /\ UNCHANGED <<processTable, runningProcessID, pidCounter, machine>>

\* Slip: the younger sibling, if any, is not told.
Unlinked_KeepsYounger(table, parent, child) ==
    LET c == table[child]
    IN  [x \in Slots |-> [table[x] EXCEPT
            !.firstChild = IF x = parent /\ c.prevSibling = NULL
                           THEN c.nextSibling ELSE @,
            !.prevSibling = IF x = c.nextSibling THEN c.prevSibling ELSE @]]

\* A dead child leaves the list, and its slot is blank.
Unlinked(table, parent, child) ==
    LET c == table[child]
    IN  [x \in Slots |-> [table[x] EXCEPT
            !.nextSibling = IF x = c.prevSibling THEN c.nextSibling ELSE @,
            !.firstChild = IF x = parent /\ c.prevSibling = NULL
                           THEN c.nextSibling ELSE @,
            !.prevSibling = IF x = c.nextSibling THEN c.prevSibling ELSE @]]

JoinReaps ==
    /\ At("join")
    /\ processTable[curChild].state = "Terminated"
    /\ processTable' = [Unlinked(processTable, Current, curChild) EXCEPT
                            ![getProcess(processTable[curChild].PID)] = Blank]
    /\ curChild' = NULL
    /\ Goto("user")
    /\ UNCHANGED <<runningProcessID, pidCounter, machine>>

-----------------------------------------------------------------------------
\* dumpProcesses prints the PID of everybody's parent but init's, and a process
\* that fork1 has refused has none.
Fatherless == {x \in Slots : /\ processTable[x].isInitialized
                             /\ processTable[x].PID # 1
                             /\ processTable[x].parent = NULL}
DumpCrashes == At("user") /\ Fatherless # {} /\ End("crashed")

\* fork1 or quit called in user mode.
UserModeError == At("user") /\ End("halted")

\* testcase_main returns, and the machine halts.
MainReturns == At("user") /\ runningProcessID = 3 /\ End("halted")

\* phase2_check_io sees no I/O: the sentinel reports a deadlock.
Sentinel == At("sentinel") /\ End("deadlock")

-----------------------------------------------------------------------------
\* startProcesses: init gets the CPU, and begins in init_main.
StartProcesses ==
    /\ At("startup")
    /\ processTable' = [processTable EXCEPT ![getProcess(1)].state = "Running"]
    /\ Goto("init_sentinel")
    /\ UNCHANGED <<runningProcessID, pidCounter, curChild, machine>>

InitForksSentinel ==
    At("init_sentinel") /\ createProcess(7, "sentinel", "init_testcase")

InitForksTestcase ==
    At("init_testcase") /\ createProcess(3, "user", "init_switch")

\* The PID of testcase_main is known to be 3.
InitSwitches ==
    /\ At("init_switch")
    /\ SwitchFrom("Runnable", 3)
    /\ Goto("init_halt")

\* Somebody has switched back to init.
InitHalts == At("init_halt") /\ End("halted")

-----------------------------------------------------------------------------
\* phase1_init has created init.
Init ==
    /\ processTable = [x \in Slots |-> IF x = getProcess(1) THEN Created(1, 6)
                                                            ELSE Blank]
    /\ runningProcessID = 1
    /\ pidCounter = 2
    /\ resume = [x \in Slots |-> "startup"]
    /\ curChild = NULL
    /\ machine = "on"

KernelStep ==
    \/ StartProcesses \/ InitForksSentinel \/ InitForksTestcase \/ InitSwitches
    \/ InitHalts \/ Sentinel \/ JoinNext \/ JoinReaps

UserStep ==
    \/ \E priority \in ForkArgs : Fork1(priority)
    \/ \E pid \in CanRun : TEMP_switchTo(pid) \/ Quit(pid)
    \/ QuitError \/ CallJoin \/ DumpCrashes \/ UserModeError \/ MainReturns

Ended == machine # "on" /\ UNCHANGED vars

Next == KernelStep \/ UserStep \/ Ended

Spec == Init /\ [][Next]_vars

-----------------------------------------------------------------------------
\* Everything has its type, and a slot is in use, with a state, or blank.
TypeOK ==
    /\ processTable \in [Slots -> Process]
    /\ \A x \in Slots : IF processTable[x].isInitialized
                        THEN processTable[x].state # ""
                        ELSE processTable[x] = Blank
    /\ runningProcessID \in Nat \ {0}
    /\ pidCounter \in Nat \ {0}
    /\ resume \in [Slots -> PCs]
    /\ curChild \in Link
    /\ machine \in {"on", "halted", "deadlock", "crashed"}

Used == {x \in Slots : processTable[x].isInitialized}

\* getProcess(pid) finds the process pid: every process is in the slot of its PID,
\* however often the PIDs have gone round the table, and the running process is
\* the one, and the only one, that is marked so.
RunningFound ==
    /\ \A x \in Used : getProcess(processTable[x].PID) = x
    /\ processTable[Current].PID = runningProcessID
    /\ \A x \in Slots : processTable[x].state = "Running" =>
            x = Current /\ resume[x] # "startup"

\* The links of slot x agree with those of the slots they point at.
Linked(table, x) ==
    LET p == table[x]
    IN  /\ p.firstChild # NULL =>
              /\ table[p.firstChild].parent = x
              /\ table[p.firstChild].prevSibling = NULL
        /\ p.nextSibling # NULL =>
              /\ table[p.nextSibling].parent = p.parent
              /\ table[p.nextSibling].prevSibling = x
              /\ table[p.nextSibling].PID < p.PID
        /\ p.prevSibling # NULL => table[p.prevSibling].nextSibling = x
        /\ p.parent # NULL =>
              /\ table[p.parent].firstChild # NULL
              /\ p.prevSibling = NULL => table[p.parent].firstChild = x
        /\ p.parent = NULL => p.nextSibling = NULL /\ p.prevSibling = NULL

\* The links that fork1 and join rewrite, in both directions, are those of lists
\* of the children of one parent each, youngest first, whose head the parent
\* knows: every process with a parent is in such a list, and no other; a child's
\* parent has not quit; and where join walks, it is among its own children.
ChildLists ==
    /\ \A x \in Slots : Linked(processTable, x)
    /\ \A x \in Slots : processTable[x].parent # NULL =>
            processTable[processTable[x].parent].state # "Terminated"
    /\ curChild # NULL => processTable[curChild].parent = Current

-----------------------------------------------------------------------------
\* The tree, by PID.  A process that fork1 has refused is not in it.
PidsWhere(dead) ==
    {processTable[x].PID : x \in {y \in Used :
        Named(y) /\ (processTable[y].state = "Terminated") = dead}}

Tree == INSTANCE ProcessTree WITH
    Pids <- 1 .. MaxPid + MAXPROC,
    alive <- PidsWhere(FALSE),
    zombies <- PidsWhere(TRUE),
    parentOf <- [pid \in PidsWhere(FALSE) \cup PidsWhere(TRUE) |->
                    IF pid = 1 THEN 0
                    ELSE processTable[processTable[getProcess(pid)].parent].PID]

\* fork1, quit and join implement the process tree.
ImplementsProcessTree == Tree!Spec
=============================================================================
