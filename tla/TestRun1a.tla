------------------------------ MODULE TestRun1a ------------------------------
(***************************************************************************)
(* A testcase of phase 1a run by its kernel: at each call of a user        *)
(* program the testcase says which one it is, and the lines that it prints *)
(* are compared with those recorded for it.                                *)
(***************************************************************************)
EXTENDS Cooperative, Testcases1a

VARIABLES
    chosen,     \* the name of the testcase that runs
    place,      \* slot -> function, and next item of it
    joining,    \* is the process that runs inside join?
    joined,     \* what join will return
    pids,       \* the program's variables
    printed,    \* the lines printed
    dumped      \* the process tables among them, each a set of rows

runnerVars == <<chosen, place, joining, joined, pids, printed, dumped>>

testcase == Testcases[chosen]
Body(x) == testcase.program[place[x].fun]
Finished(x) == place[x].next > Len(Body(x))
item == Body(Current)[place[Current].next]

\* The current process is in user code, at an item with this operation.
Turn(op) == At("user") /\ ~joining /\ ~Finished(Current) /\ item.op = op
Step(f) == [f EXCEPT ![Current].next = @ + 1]

PrintLine(n) == printed' = Append(printed, <<place[Current].fun, n>>)

\* A call has returned v: it is kept and printed as the item says.
Returned(v) ==
    /\ pids' = IF item.into = "" THEN pids ELSE [pids EXCEPT ![item.into] = v]
    /\ IF item.prints = "value" \/ (item.prints = "failure" /\ v < 0)
       THEN PrintLine(v) ELSE UNCHANGED printed

-----------------------------------------------------------------------------
Talk ==
    /\ \E op \in {"say", "getpid", "show"} : Turn(op)
    /\ PrintLine(CASE item.op = "getpid" -> runningProcessID
                   [] item.op = "show"   -> pids[item.var]
                   [] OTHER              -> 0)
    /\ place' = Step(place)
    /\ UNCHANGED <<vars, chosen, joining, joined, pids, dumped>>

LearnsPid ==
    /\ Turn("myPid")
    /\ pids' = [pids EXCEPT ![item.into] = runningProcessID]
    /\ place' = Step(place)
    /\ UNCHANGED <<vars, chosen, joining, joined, printed, dumped>>

\* dumpProcesses, whose rows are compared by PID, parent, priority and state.
Row(x) ==
    LET p == processTable[x]
    IN  <<p.PID, IF p.PID = 1 THEN 0 ELSE processTable[p.parent].PID,
          p.priority, p.state>>
Dumps ==
    /\ Turn("dumpProcesses") /\ Fatherless = {}
    /\ printed' = Append(printed, Table)
    /\ dumped' = Append(dumped, {Row(x) : x \in Used})
    /\ place' = Step(place)
    /\ UNCHANGED <<vars, chosen, joining, joined, pids>>

-----------------------------------------------------------------------------
\* A new process is at the top of its function, and runs when it is switched to.
Forks ==
    LET made == IF TableFull \/ ~ValidPriority(item.priority) THEN -1
                                                              ELSE pidCounter' - 1
    IN  /\ Turn("fork1")
        /\ Fork1(item.priority)
        /\ Returned(made)
        /\ place' = [x \in Slots |->
                IF made # -1 /\ x = getProcess(made)
                THEN [fun |-> item.fun, next |-> 1] ELSE Step(place)[x]]
        /\ UNCHANGED <<chosen, joining, joined, dumped>>

\* A stack below USLOSS_MIN_STACK: fork1 has done nothing and returns -2.
ForksTooSmall ==
    /\ Turn("smallFork")
    /\ Returned(-2)
    /\ place' = Step(place)
    /\ UNCHANGED <<vars, chosen, joining, joined, dumped>>

Switches ==
    /\ Turn("switchTo") \/ (Turn("switchIfMade") /\ pids[item.var] >= 0)
    /\ TEMP_switchTo(pids[item.var])
    /\ place' = Step(place)
    /\ UNCHANGED <<chosen, joining, joined, pids, printed, dumped>>

SwitchesNot ==
    /\ Turn("switchIfMade") /\ pids[item.var] < 0
    /\ place' = Step(place)
    /\ UNCHANGED <<vars, chosen, joining, joined, pids, printed, dumped>>

Quits ==
    /\ Turn("quit")
    /\ Quit(pids[item.var]) \/ QuitError
    /\ UNCHANGED runnerVars

CallsInUserMode == Turn("userMode") /\ UserModeError /\ UNCHANGED runnerVars

MainEnds ==
    /\ At("user") /\ ~joining /\ Finished(Current)
    /\ MainReturns
    /\ UNCHANGED runnerVars

Joins ==
    /\ Turn("join")
    /\ CallJoin
    /\ joining' = TRUE
    /\ joined' = -2
    /\ UNCHANGED <<chosen, place, pids, printed, dumped>>

JoinEnds ==
    /\ At("user") /\ joining
    /\ joining' = FALSE
    /\ Returned(joined)
    /\ place' = Step(place)
    /\ UNCHANGED <<vars, chosen, joined, dumped>>

\* The kernel at work; join returns the PID it reaps.
KernelWorks ==
    /\ KernelStep
    /\ joined' = IF At("join") /\ processTable[curChild].state = "Terminated"
                 THEN processTable[curChild].PID ELSE joined
    /\ UNCHANGED <<chosen, place, joining, pids, printed, dumped>>

-----------------------------------------------------------------------------
Variables(program) ==
    UNION {{program[f][i].into : i \in DOMAIN program[f]} : f \in DOMAIN program}

RunInit ==
    /\ Init
    /\ chosen \in DOMAIN Testcases
    /\ place = [x \in Slots |-> [fun |-> "testcase_main", next |-> 1]]
    /\ joining = FALSE
    /\ joined = -2
    /\ pids = [v \in Variables(testcase.program) |-> 0]
    /\ printed = <<>>
    /\ dumped = <<>>

RunNext ==
    \/ Talk \/ LearnsPid \/ Dumps \/ Forks \/ ForksTooSmall \/ Switches
    \/ SwitchesNot \/ Quits \/ CallsInUserMode \/ MainEnds \/ Joins \/ JoinEnds
    \/ KernelWorks \/ (Ended /\ UNCHANGED runnerVars)

RunSpec == RunInit /\ [][RunNext]_<<vars, runnerVars>>

-----------------------------------------------------------------------------
\* Whatever the program has printed up to now, line by line, is what its .out
\* file records, with the PIDs that fork1 and join return and the states in the
\* process table; and when the machine stops, it does so as recorded, and with
\* the last line printed.
RunsAsRecorded ==
    /\ IsPrefix(printed, testcase.output)
    /\ IsPrefix(dumped, testcase.tables)
    /\ machine # "on" => /\ machine = testcase.ends
                         /\ Len(printed) = Len(testcase.output)
=============================================================================
