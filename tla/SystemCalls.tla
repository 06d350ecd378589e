------------------------------ MODULE SystemCalls ------------------------------
(***************************************************************************)
(* The system calls of phase3/phase3.c, made by user processes through the *)
(* stubs of phase3_usermode.c: Spawn, Wait, Terminate, the semaphores of   *)
(* Semaphores, and the questions for the PID and the time.  A handler runs *)
(* in kernel mode with interrupts off, so it is one step up to where it    *)
(* waits or ends; between two calls a clock interrupt may take the CPU.    *)
(*                                                                         *)
(* The process kernel is the prebuilt libphase1.a, modelled by what this   *)
(* file uses of it: fork1, join, quit, getpid and its scheduling (the best *)
(* priority first, and within it the one that is ready longest).  Before   *)
(* the first call there are init (1), sentinel (2), testcase_main (3),     *)
(* which joins, and its child start3 (4), which makes the calls.           *)
(***************************************************************************)
EXTENDS Semaphores

CONSTANTS
    MAXPROC,
    Functions,      \* what Spawn can be asked to run
    Priorities,     \* priorities of user processes, 1 the best
    Refusals,       \* what fork1 may answer to the arguments of a Spawn
    MaxCount,       \* a bound: no Spawn once phase 3 has counted that far
    TimeSlicing     \* do clock interrupts take the CPU away?

Sentinel == 2
TestcaseMain == 3
Start3 == 4
NoOne == 0
NotStarted == "not started"
NoFunction == "no function"

\* Users are the PIDs that processes get (a bound: no Spawn beyond them).
ASSUME SystemCallAssumption ==
    /\ MAXPROC \in Nat /\ MAXPROC > Start3
    /\ Users \subseteq Nat /\ Start3 \in Users
    /\ \A u \in Users : u >= Start3
    /\ Priorities \subseteq Nat
    /\ Refusals \subseteq {-1, -2}
    /\ MaxCount \in Nat
    /\ TimeSlicing \in BOOLEAN

VARIABLES
    procs,                \* the kernel's: PID -> process
    ready,                \* those ready to run, the longest first
    current,              \* the PID that runs
    nextPid,              \* the kernel's next PID
    machine,              \* "on", "halted", "deadlock", or "error"
    shadowProcessTable,   \* slot -> startFunc
    pidCounter,           \* phase 3's next PID
    doing,                \* PID -> in tramp, in user code, or in a call that joins
    s1,                   \* PID -> the status that it shall quit with
    asked,                \* PID -> the function that Spawn was called with
    runs                  \* PID -> the function that tramp has called

kernelVars == <<procs, ready, current, nextPid, machine>>
phase3Vars == <<shadowProcessTable, pidCounter, doing, s1, asked, runs>>
callVars == <<kernelVars, phase3Vars, semVars>>

States == {"none", "ready", "joining", "waiting", "dead"}
None == [state |-> "none", parent |-> NoOne, priority |-> 0, status |-> 0]

Alive == {p \in Users : procs[p].state # "none"}
Children(u) == {c \in Alive : procs[c].parent = u}
Dead(u) == {c \in Children(u) : procs[c].state = "dead"}

-----------------------------------------------------------------------------
\* Scheduling, with the table as it will be and a queue of those ready.  The first
\* when the current process does not go on; the second when it does, unless
\* somebody better is ready.
Best(table, queue) ==
    CHOOSE i \in DOMAIN queue : \A j \in DOMAIN queue :
        \/ table[queue[i]].priority < table[queue[j]].priority
        \/ table[queue[i]].priority = table[queue[j]].priority /\ i <= j

\* Nobody ready: sentinel runs, and finds that nobody ever will be.
Dispatch(table, queue) ==
    IF queue = <<>>
    THEN /\ current' = Sentinel /\ ready' = <<>>
         /\ machine' = "deadlock"
    ELSE LET i == Best(table, queue)
         IN  /\ current' = queue[i]
             /\ ready' = SubSeq(queue, 1, i - 1)
                           \o SubSeq(queue, i + 1, Len(queue))
             /\ UNCHANGED machine

Preempt(table, queue) ==
    IF \E i \in DOMAIN queue :
            table[queue[i]].priority < table[current].priority
    THEN Dispatch(table, Append(queue, current))
    ELSE ready' = queue /\ UNCHANGED <<current, machine>>

SetState(u, state) == procs' = [procs EXCEPT ![u].state = state]

\* The slots of a process table in use, and the PID that fork1 gives next: the first
\* one on whose slot is free.
Taken == {1, Sentinel, TestcaseMain} \cup {p % MAXPROC : p \in Alive}
Open == {n \in nextPid .. nextPid + MAXPROC - 1 : n % MAXPROC \notin Taken}
NewPid == CHOOSE n \in Open : \A m \in Open : n <= m

\* quit: the parent hears of it if it joins.  testcase_main then ends, and with it
\* the simulation.  A process with children may not quit.
Quit(u, status) ==
    LET parent == procs[u].parent
        joins  == parent \in Users /\ procs[parent].state = "joining"
        ended  == [procs EXCEPT ![u].state = "dead", ![u].status = status]
    IN  IF Children(u) # {} THEN machine' = "error"
                                 /\ UNCHANGED <<procs, ready, current>>
        ELSE IF parent = TestcaseMain
        THEN /\ procs' = ended
             /\ machine' = "halted" /\ UNCHANGED <<ready, current>>
        ELSE /\ procs' = IF joins THEN [ended EXCEPT ![parent].state = "ready"]
                                  ELSE ended
             /\ Dispatch(procs', IF joins THEN Append(ready, parent) ELSE ready)

-----------------------------------------------------------------------------
\* The process that makes a call: the running one, in user code.
\* What a handler leaves in the caller's USLOSS_Sysargs, which its stub returns, is
\* given beside each; programs that act on it are in TestRun3.
Calling == machine = "on" /\ current \in Users /\ doing[current] = "user"
Answer(arg1, arg2, arg4) == [arg1 |-> arg1, arg2 |-> arg2, arg4 |-> arg4]

\* phase 3's own process table, indexed by the PID that it expects fork1 to give.
createShadowProcess(func) ==
    /\ shadowProcessTable' =
           [shadowProcessTable EXCEPT ![pidCounter % MAXPROC] = func]
    /\ pidCounter' = pidCounter + 1

\* fork1 refuses a stack that is too small (-2), and a priority or a name that is not
\* allowed (-1): the caller's, passed on unchecked.  The function it is given is
\* tramp, so that of the caller is never refused.
Refused(refusal) == refusal # 0 \/ Open = {}

\* The entry is made first, since fork1 may switch to the new process at once, and
\* it is made and counted even if fork1 then makes no process.
kernSpawn(func, priority, refusal) ==
    /\ createShadowProcess(func)
    /\ IF Refused(refusal)
       THEN UNCHANGED <<kernelVars, doing, asked, runs>>
       ELSE /\ NewPid \in Users
            /\ procs' = [procs EXCEPT ![NewPid] =
                    [state |-> "ready", parent |-> current,
                     priority |-> priority, status |-> 0]]
            /\ nextPid' = NewPid + 1
            /\ Preempt(procs', Append(ready, NewPid))
            /\ doing' = [doing EXCEPT ![NewPid] = "tramp"]
            /\ asked' = [asked EXCEPT ![NewPid] = func]
            /\ runs' = [runs EXCEPT ![NewPid] = NotStarted]
    /\ UNCHANGED s1

\* arg4, which Spawn returns, is still the priority that came in it.
SpawnAnswer(priority, refusal) ==
    Answer(IF refusal # 0 THEN refusal ELSE IF Open = {} THEN -1 ELSE NewPid,
           0, priority)

Spawn(func, priority, refusal) ==
    /\ Calling /\ pidCounter < MaxCount
    /\ kernSpawn(func, priority, refusal) /\ UNCHANGED semVars

\* Slip: the process created last, not the one that runs.
getProcess_Last(pid) == shadowProcessTable[(pidCounter - 1) % MAXPROC]

getProcess(pid) == shadowProcessTable[pid % MAXPROC]

\* Where every process begins: it runs the function kept for its PID.
tramp ==
    /\ machine = "on" /\ doing[current] = "tramp"
    /\ runs' = [runs EXCEPT ![current] = getProcess(current)]
    /\ doing' = [doing EXCEPT ![current] = "user"]
    /\ UNCHANGED <<kernelVars, shadowProcessTable, pidCounter, s1, asked,
                   semVars>>

-----------------------------------------------------------------------------
\* Wait and Terminate both join.
Begin(call) ==
    /\ Calling
    /\ doing' = [doing EXCEPT ![current] = call]
    /\ UNCHANGED <<kernelVars, shadowProcessTable, pidCounter, asked, runs,
                   semVars>>

Wait == Begin("wait") /\ UNCHANGED s1
Terminate(status) ==
    Begin("terminate") /\ s1' = [s1 EXCEPT ![current] = status]

\* The dead child that join takes: the youngest.
Reaped(u) == CHOOSE c \in Dead(u) : \A d \in Dead(u) : c >= d

\* join in vain: it waits until a child quits.
JoinWaits ==
    /\ Children(current) # {} /\ Dead(current) = {}
    /\ SetState(current, "joining")
    /\ Dispatch(procs', ready)
    /\ UNCHANGED <<nextPid, phase3Vars>>

kernWait ==
    /\ machine = "on" /\ doing[current] = "wait"
    /\ \/ JoinWaits
       \/ /\ Dead(current) # {} \/ Children(current) = {}
          /\ procs' = IF Dead(current) = {} THEN procs
                      ELSE [procs EXCEPT ![Reaped(current)] = None]
          /\ doing' = [doing EXCEPT ![current] = "user"]
          /\ UNCHANGED <<ready, current, nextPid, machine, shadowProcessTable,
                         pidCounter, s1, asked, runs>>
    /\ UNCHANGED semVars

WaitAnswer ==
    IF Dead(current) = {} THEN Answer(0, 0, -2)
    ELSE Answer(Reaped(current), procs[Reaped(current)].status, 0)

\* What kernTerminate keeps of a child it has joined: nothing, for the status to
\* quit with is in a variable of its own.
\* Slip: the child's status goes where the own one is.
AfterJoin_Overwrites(child) ==
    s1' = [s1 EXCEPT ![current] = procs[child].status]

AfterJoin(child) == UNCHANGED s1

\* Every child is joined before the process quits.
kernTerminate ==
    /\ machine = "on" /\ doing[current] = "terminate"
    /\ \/ JoinWaits
       \/ /\ Dead(current) # {}
          /\ procs' = [procs EXCEPT ![Reaped(current)] = None]
          /\ AfterJoin(Reaped(current))
          /\ UNCHANGED <<ready, current, nextPid, machine, shadowProcessTable,
                         pidCounter, doing, asked, runs>>
       \/ /\ Children(current) = {}
          /\ Quit(current, s1[current])
          /\ UNCHANGED <<nextPid, phase3Vars>>
    /\ UNCHANGED semVars

-----------------------------------------------------------------------------
\* What a P or V has done at the mailbox, done to the processes: the caller waits,
\* or somebody who waited is ready.
Rescheduled ==
    LET waits(u) == Waits(u, receivers') \/ Waits(u, senders')
        woken == {w \in Users : procs[w].state = "waiting" /\ ~waits(w)}
    IN  /\ IF waits(current)
           THEN SetState(current, "waiting") /\ Dispatch(procs', ready)
           ELSE IF woken = {} THEN UNCHANGED <<procs, ready, current, machine>>
           ELSE LET w == CHOOSE w \in woken : TRUE
                IN  SetState(w, "ready") /\ Preempt(procs', Append(ready, w))
        /\ UNCHANGED nextPid

SemCreate(value) ==
    Calling /\ kernSemCreate(value) /\ UNCHANGED <<kernelVars, phase3Vars>>

SemCreateAnswer(value) ==
    IF SemCreateFails(value) THEN Answer(0, 0, -1) ELSE Answer(semCounter, 0, 0)

SemP(s) ==
    /\ Calling /\ s \in handles
    /\ kernSemP(current, s)
    /\ Rescheduled /\ UNCHANGED phase3Vars

SemV(s) ==
    /\ Calling /\ s \in handles /\ semaphoreTable[s].value < MaxValue
    /\ kernSemV(current, s)
    /\ Rescheduled /\ UNCHANGED phase3Vars

\* A failure only if it is the mailbox's.
SemPAnswer(s) ==
    Answer(s, 0, IF NoMbox(s) /\ MustWait(semaphoreTable[s].value - 1)
                 THEN -1 ELSE 0)
SemVAnswer(s) ==
    Answer(s, 0, IF NoMbox(s) /\ SomebodyWaits(semaphoreTable[s].value + 1)
                 THEN -1 ELSE 0)

\* No handler is installed for SemFree, and that stops the machine.
SemFree ==
    /\ Calling
    /\ machine' = "halted"
    /\ UNCHANGED <<procs, ready, current, nextPid, phase3Vars, semVars>>

\* The calls that only answer: with the PID, with a time.
Question == Calling /\ UNCHANGED callVars
GetPID == Question
GetTimeofDay == Question
CPUTime == Question
GetPIDAnswer == Answer(current, 0, 0)

\* A clock interrupt in user mode: the CPU goes to the next of the same priority.
TimeSlice ==
    /\ TimeSlicing /\ machine = "on" /\ doing[current] \in {"tramp", "user"}
    /\ Dispatch(procs, Append(ready, current))
    /\ UNCHANGED <<procs, nextPid, phase3Vars, semVars>>

-----------------------------------------------------------------------------
\* start3 is about to begin; its trampoline, in the testcases, needs no entry.
Init ==
    /\ SemInit
    /\ procs = [p \in Users |-> IF p = Start3
                    THEN [state |-> "ready", parent |-> TestcaseMain,
                          priority |-> 3, status |-> 0]
                    ELSE None]
    /\ ready = <<>>
    /\ current = Start3
    /\ nextPid = Start3 + 1
    /\ machine = "on"
    /\ shadowProcessTable = [i \in 0 .. MAXPROC - 1 |-> NoFunction]
    /\ pidCounter = 5
    /\ doing = [p \in Users |-> "user"]
    /\ s1 = [p \in Users |-> 0]
    /\ asked = [p \in Users |-> "start3"]
    /\ runs = [p \in Users |-> IF p = Start3 THEN "start3" ELSE NotStarted]

\* User programs make any calls; each ends with its PID as status.
Next ==
    \/ \E func \in Functions, priority \in Priorities, refusal \in {0} \cup Refusals :
            Spawn(func, priority, refusal)
    \/ tramp
    \/ Wait \/ kernWait
    \/ Terminate(current) \/ kernTerminate
    \/ (\E value \in Values : SemCreate(value))
    \/ (\E s \in handles : SemP(s) \/ SemV(s))
    \/ SemFree
    \/ GetPID \/ GetTimeofDay \/ CPUTime
    \/ TimeSlice

Spec == Init /\ [][Next]_callVars

-----------------------------------------------------------------------------
\* A process runs the function that it was spawned with: phase 3 looks it up by PID
\* in a table which it filled by counting along with the kernel.
OwnFunction ==
    \A p \in Alive : runs[p] \in {NotStarted, asked[p]}

\* It does as long as the two have counted alike: as every Spawn has made a process,
\* whatever its arguments, and no PID has come round.
OwnFunctionInStep == pidCounter = nextPid => OwnFunction

\* A process ends with its own status, whatever children it has joined on the way,
\* and only when it has none.
EndsAsAsked ==
    /\ machine # "error"
    /\ \A p \in Alive : procs[p].state = "dead" => procs[p].status = p
=============================================================================
