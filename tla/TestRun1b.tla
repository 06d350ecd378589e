------------------------------ MODULE TestRun1b ------------------------------
(***************************************************************************)
(* A testcase of phase 1b run by the process kernel: at each call of a     *)
(* user program the testcase says which one it is, and the lines that it   *)
(* prints are compared with those recorded for it.                         *)
(***************************************************************************)
EXTENDS Kernel, Testcases1b

VARIABLES
    chosen,     \* the name of the testcase that runs
    place,      \* slot -> function, next item of it, and is it being done?
    returned,   \* slot -> what its last kernel call returned
    pids,       \* the program's variables
    printed,    \* the lines printed
    dumped      \* the process tables among them, each a set of rows

runnerVars == <<chosen, place, returned, pids, printed, dumped>>

testcase == Testcases[chosen]
Body(x) == testcase.program[place[x].fun]
Finished(x) == place[x].next > Len(Body(x))
item == Body(Current)[place[Current].next]

\* The current process is in user code, at an item with this operation.
Turn(op) == /\ At("user") /\ ~place[Current].busy
            /\ ~Finished(Current) /\ item.op = op
Step(f) == [f EXCEPT ![Current].next = @ + 1, ![Current].busy = FALSE]
Calls == place' = [place EXCEPT ![Current].busy = TRUE]
Returns(v) == returned' = [returned EXCEPT ![Current] = v]
Keep == UNCHANGED <<returned, pids, printed, dumped, chosen>>

PrintLine(n) == printed' = Append(printed, <<place[Current].fun, n>>)

\* The process that an item names: a global or local variable, or a number.
Target(i) == IF i.var = "" THEN i.pid ELSE pids[i.var]

-----------------------------------------------------------------------------
\* Items that the kernel takes no part in: what the program prints, and the loop
\* that looks at isZapped().
Value(i) ==
    CASE i.op = "getpid"   -> runningProcessID
      [] i.op = "show"     -> pids[i.var]
      [] i.op = "isZapped" -> IF processTable[Current].zapHead = NULL
                              THEN 0 ELSE 1
      [] OTHER             -> 0

Talk ==
    /\ \E op \in {"say", "getpid", "show", "isZapped"} : Turn(op)
    /\ PrintLine(Value(item))
    /\ place' = Step(place)
    /\ UNCHANGED <<vars, chosen, returned, pids, dumped>>

SeesZap ==
    /\ Turn("awaitZap")
    /\ processTable[Current].zapHead # NULL
    /\ place' = Step(place)
    /\ UNCHANGED vars /\ Keep

\* dumpProcesses, whose rows are compared by PID, parent, priority and state.
Row(x) ==
    LET p == processTable[x]
    IN  <<p.PID, IF p.PID = 1 THEN 0 ELSE processTable[p.parent].PID,
          p.priority, p.state>>
Dumps ==
    /\ Turn("dumpProcesses")
    /\ printed' = Append(printed, Table)
    /\ dumped' = Append(dumped, {Row(x) : x \in {y \in Slots :
                                       processTable[y].isInitialized}})
    /\ place' = Step(place)
    /\ UNCHANGED <<vars, chosen, returned, pids>>

-----------------------------------------------------------------------------
\* Kernel calls.  A new process starts at the top of its function; when there is
\* no slot for it, fork1 returns -1 at once.
Forks ==
    LET full == FreeSteps(processTable, pidCounter) = {}
    IN  /\ Turn("fork1")
        /\ Fork1([priority |-> item.priority, startFunc |-> "user"])
        /\ place' = [x \in Slots |->
                IF x = Current THEN [place[x] EXCEPT !.busy = TRUE]
                ELSE IF ~full /\ x = getProcess(pidCounter' - 1)
                THEN [fun |-> item.fun, next |-> 1, busy |-> FALSE]
                ELSE place[x]]
        /\ IF full THEN Returns(-1) ELSE UNCHANGED returned
        /\ UNCHANGED <<chosen, pids, printed, dumped>>

\* A stack below USLOSS_MIN_STACK: fork1 has done nothing and returns -2.
ForksTooSmall ==
    /\ Turn("smallFork")
    /\ Returns(-2) /\ Calls
    /\ UNCHANGED <<vars, chosen, pids, printed, dumped>>

Joins == Turn("join") /\ CallJoin /\ Calls /\ Keep
Blocks == Turn("blockMe") /\ BlockMe /\ Calls /\ Keep
Unblocks ==
    /\ Turn("unblockProc") /\ UnblockProc(getProcess(Target(item)))
    /\ Calls /\ Keep
Zaps ==
    /\ Turn("zap") /\ (Zap(Target(item)) \/ ZapError(Target(item)))
    /\ Calls /\ Keep

\* A call made in user mode, which every kernel function refuses.
CallsInUserMode ==
    /\ Turn("userMode") /\ End("halted")
    /\ UNCHANGED place /\ Keep

\* The end of a function.
Ends ==
    /\ At("user") /\ ~place[Current].busy /\ Finished(Current)
    /\ IF place[Current].fun = "testcase_main" THEN MainReturns
                                               ELSE Quit \/ QuitError
    /\ UNCHANGED place /\ Keep

\* Back from a call: its value is kept and printed.
GoesOn ==
    /\ At("user") /\ place[Current].busy
    /\ pids' = IF item.into = "" THEN pids
               ELSE [pids EXCEPT ![item.into] = returned[Current]]
    /\ IF \/ item.prints = "value"
          \/ item.prints = "failure" /\ returned[Current] < 0
       THEN PrintLine(returned[Current]) ELSE UNCHANGED printed
    /\ place' = Step(place)
    /\ UNCHANGED <<vars, chosen, returned, dumped>>

-----------------------------------------------------------------------------
\* The kernel at work.  createProcess's pidCounter-1 is what fork1 will return;
\* join returns -2 without children, and else the PID it reaps.
KernelWorks ==
    /\ StartProcesses \/ KernelStep
    /\ returned' = IF At("fork_pid")
                   THEN [returned EXCEPT ![Current] = pidCounter - 1]
                   ELSE IF At("join") /\ ctx'[Current].pc = "user"
                   THEN [returned EXCEPT ![Current] =
                            IF processTable[Current].firstChild = NULL THEN -2
                            ELSE processTable[FirstDeadChild].PID]
                   ELSE returned
    /\ UNCHANGED <<chosen, place, pids, printed, dumped>>

Variables(program) ==
    UNION {{program[f][i].into : i \in DOMAIN program[f]} : f \in DOMAIN program}

RunInit ==
    /\ Init
    /\ chosen \in DOMAIN Testcases
    /\ place = [x \in Slots |->
                    [fun |-> "testcase_main", next |-> 1, busy |-> FALSE]]
    /\ returned = [x \in Slots |-> 0]
    /\ pids = [v \in Variables(testcase.program) |-> 0]
    /\ printed = <<>>
    /\ dumped = <<>>

Runs ==
    \/ Talk \/ SeesZap \/ Dumps \/ Forks \/ ForksTooSmall \/ Joins \/ Blocks
    \/ Unblocks \/ Zaps \/ CallsInUserMode \/ Ends \/ GoesOn \/ KernelWorks

RunNext == Runs \/ (Ended /\ UNCHANGED runnerVars)

RunSpec == RunInit /\ [][RunNext]_<<vars, runnerVars>>

-----------------------------------------------------------------------------
\* Whatever the program has printed up to now, line by line, is what its .out
\* file records: the order in which processes run, the PIDs that fork1 and join
\* return, and the states in the process table.  Where processes race, each
\* function's lines are those recorded for it, and each table's PIDs, parents
\* and priorities.  When the machine stops, by a halt or in deadlock, it does so
\* as recorded, and with the last line printed.
LinesOf(f, lines) == SelectSeq(lines, LAMBDA l : l[1] = f)
Family(rows) == {<<r[1], r[2], r[3]>> : r \in rows}
LinesAsRecorded ==
    IF testcase.races
    THEN /\ \A f \in DOMAIN testcase.program \cup {Table[1]} :
                IsPrefix(LinesOf(f, printed), LinesOf(f, testcase.output))
         /\ \A k \in DOMAIN dumped :
                Family(dumped[k]) = Family(testcase.tables[k])
    ELSE IsPrefix(printed, testcase.output) /\ IsPrefix(dumped, testcase.tables)

RunsAsRecorded ==
    /\ LinesAsRecorded
    /\ machine # "on" => /\ machine = testcase.ends
                         /\ Len(printed) = Len(testcase.output)
=============================================================================
