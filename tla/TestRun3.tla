------------------------------ MODULE TestRun3 ------------------------------
(***************************************************************************)
(* A testcase of phase 3 run over its system calls: at each call the       *)
(* testcase says which one it is, each process goes on with what its stub  *)
(* returns, and the lines printed are compared with those recorded.        *)
(***************************************************************************)
EXTENDS SystemCalls, Testcases3

VARIABLES
    chosen,     \* the name of the testcase that runs
    place,      \* PID -> function, next item of it, and is it being done?
    returned,   \* PID -> USLOSS_Sysargs of its last call
    pids,       \* the program's variables
    printed     \* the lines printed

runVars == <<chosen, place, returned, pids, printed>>

testcase == Testcases[chosen]
item == testcase.program[place[current].fun][place[current].next]

Turn(op) == Calling /\ ~place[current].busy /\ item.op = op
Step(f) == [f EXCEPT ![current].next = @ + 1, ![current].busy = FALSE]
Calls == place' = [place EXCEPT ![current].busy = TRUE]
Returns(answer) == returned' = [returned EXCEPT ![current] = answer]

PrintLines(ns) ==
    printed' = printed \o [i \in DOMAIN ns |-> <<place[current].fun, ns[i]>>]

-----------------------------------------------------------------------------
Talk ==
    /\ Turn("say") \/ Turn("show")
    /\ PrintLines(<<IF item.op = "show" THEN pids[item.var] ELSE 0>>)
    /\ place' = Step(place)
    /\ UNCHANGED <<callVars, chosen, returned, pids>>

Makes(call, answer) ==
    call /\ Returns(answer) /\ Calls /\ UNCHANGED <<chosen, pids, printed>>

Spawns == Turn("Spawn") /\ Makes(Spawn(item.fun, item.priority, 0),
                                 SpawnAnswer(item.priority, 0))
Creates == Turn("SemCreate") /\ Makes(SemCreate(item.pid),
                                      SemCreateAnswer(item.pid))
Ps == Turn("SemP") /\ LET s == pids[item.var] IN Makes(SemP(s), SemPAnswer(s))
Vs == Turn("SemV") /\ LET s == pids[item.var] IN Makes(SemV(s), SemVAnswer(s))
Asks == \/ Turn("GetPID") /\ Makes(GetPID, GetPIDAnswer)
        \/ Turn("GetTimeofDay") /\ Makes(GetTimeofDay, returned[current])
        \/ Turn("CPUTime") /\ Makes(CPUTime, returned[current])
Joins == \/ Turn("Wait") /\ Makes(Wait, returned[current])
         \/ Turn("Terminate") /\ Makes(Terminate(item.pid), returned[current])

\* A process at the top of its function.
Starts ==
    /\ tramp
    /\ place' = [place EXCEPT ![current] =
                    [fun |-> runs'[current], next |-> 1, busy |-> FALSE]]
    /\ UNCHANGED <<chosen, returned, pids, printed>>

KernelJoins ==
    /\ \/ kernWait /\ IF doing'[current] = "user" THEN Returns(WaitAnswer)
                                                 ELSE UNCHANGED returned
       \/ kernTerminate /\ UNCHANGED returned
    /\ UNCHANGED <<chosen, place, pids, printed>>

\* Back from a call: what its stub returns is kept and printed.
GoesOn ==
    /\ Calling /\ place[current].busy
    /\ LET answer == returned[current]
       IN  /\ pids' = IF item.into = "" THEN pids
                      ELSE [pids EXCEPT ![item.into] = answer.arg1]
           /\ PrintLines(CASE item.prints = "value" -> <<answer.arg1>>
                           [] item.prints = "status" -> <<answer.arg2>>
                           [] item.prints = "pair" -> <<answer.arg1, answer.arg2>>
                           [] item.prints = "result" -> <<answer.arg4>>
                           [] item.prints = "semaphore" ->
                                  <<answer.arg4, answer.arg1>>
                           [] OTHER -> <<>>)
    /\ place' = Step(place)
    /\ UNCHANGED <<callVars, chosen, returned>>

Variables(program) ==
    UNION {{program[x][i].into : i \in DOMAIN program[x]} : x \in DOMAIN program}

RunInit ==
    /\ Init
    /\ chosen \in DOMAIN Testcases
    /\ place = [p \in Users |-> [fun |-> "start3", next |-> 1, busy |-> FALSE]]
    /\ returned = [p \in Users |-> Answer(0, 0, 0)]
    /\ pids = [v \in Variables(testcase.program) |-> 0]
    /\ printed = <<>>

RunNext ==
    \/ Talk \/ Spawns \/ Creates \/ Ps \/ Vs \/ Asks \/ Joins \/ Starts
    \/ KernelJoins \/ GoesOn
    \/ machine # "on" /\ UNCHANGED <<callVars, runVars>>

RunSpec == RunInit /\ [][RunNext]_<<callVars, runVars>>

-----------------------------------------------------------------------------
\* What the program has printed up to now is what its .out file records, with the
\* PIDs, statuses and semaphores in it; in a race, as far as one process's lines
\* go.  The machine stops where that file ends.
LinesOf(x, lines) == SelectSeq(lines, LAMBDA l : l[1] = x)
RunsAsRecorded ==
    /\ IF testcase.races
       THEN \A x \in DOMAIN testcase.program :
                IsPrefix(LinesOf(x, printed), LinesOf(x, testcase.output))
       ELSE IsPrefix(printed, testcase.output)
    /\ machine # "on" => /\ machine = testcase.ends
                         /\ Len(printed) = Len(testcase.output)
=============================================================================
