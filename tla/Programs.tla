------------------------------- MODULE Programs -------------------------------
(***************************************************************************)
(* The notation in which the testcases of the process kernels are written: *)
(* a program is a record of functions, a function the sequence of what it  *)
(* does, and an output the sequence of lines printed, each a pair of the   *)
(* function that prints it and the number in it (0 if there is none).      *)
(***************************************************************************)
EXTENDS Integers, Sequences, SequencesExt

\* One thing a function does.  fun and priority are fork1's arguments, into the
\* variable that keeps the PID; var and pid name a process; prints says whether
\* the value that the call returns is printed: always, never, or on failure.
Item == [op |-> "say", fun |-> "", priority |-> 1, into |-> "", var |-> "",
         pid |-> 0, prints |-> "no"]

Say == Item                                    \* a line without a number
Pid == [Item EXCEPT !.op = "getpid"]           \* a line with getpid()
Show(v) == [Item EXCEPT !.op = "show", !.var = v]
Zapped == [Item EXCEPT !.op = "isZapped"]      \* a line with isZapped()
Dump == [Item EXCEPT !.op = "dumpProcesses"]

Fork(f, p) == [Item EXCEPT !.op = "fork1", !.fun = f, !.priority = p,
                           !.prints = "value"]
SmallFork == [Item EXCEPT !.op = "smallFork", !.prints = "value"]
JoinOne == [Item EXCEPT !.op = "join", !.prints = "value"]
ZapVar(v) == [Item EXCEPT !.op = "zap", !.var = v]
ZapPid(n) == [Item EXCEPT !.op = "zap", !.pid = n]
Block == [Item EXCEPT !.op = "blockMe"]
Unblock(v) == [Item EXCEPT !.op = "unblockProc", !.var = v]
UserMode == [Item EXCEPT !.op = "userMode"]
AwaitZap == [Item EXCEPT !.op = "awaitZap"]    \* while (isZapped() == 0) {}

\* Phase 1a: a process is switched to, or, by the second, only if fork1 has made
\* it; and quit names the process that shall run.
Switch(v) == [Item EXCEPT !.op = "switchTo", !.var = v]
SwitchIfMade(v) == [Item EXCEPT !.op = "switchIfMade", !.var = v]
QuitTo(v) == [Item EXCEPT !.op = "quit", !.var = v]
MyPid(v) == [Item EXCEPT !.op = "myPid", !.into = v]   \* v = getpid()

Into(v, call) == [call EXCEPT !.into = v]
Quiet(call) == [call EXCEPT !.prints = "no"]
IfFails(call) == [call EXCEPT !.prints = "failure"]

\* for (i = 0; i < n; i++) { body }
Times(n, body) == FlattenSeq([i \in 1 .. n |-> body])

\* Lines of output: by testcase_main, by XXp1 ... XXp4, and a process table,
\* whose rows are recorded beside.
M(n) == <<"testcase_main", n>>
P1(n) == <<"XXp1", n>>
P2(n) == <<"XXp2", n>>
P3(n) == <<"XXp3", n>>
P4(n) == <<"XXp4", n>>
Table == <<"dumpProcesses", 0>>

-----------------------------------------------------------------------------
\* The rows of init and sentinel, the same in every table; and of others.
Rows(others) ==
    others \cup {<<1, 0, 6, "Runnable">>, <<2, 1, 7, "Runnable">>}
Run(program, output, ends) ==
    [program |-> program, output |-> output, tables |-> <<>>, ends |-> ends,
     races |-> FALSE]
Dumping(tables, run) == [run EXCEPT !.tables = tables]

\* A program whose text says that two processes of one priority race: which one
\* is first the record of its .out file does not bind.
Racing(run) == [run EXCEPT !.races = TRUE]

\* test03 of both kernels has rounds of 42 children in a table of 50: the slots 1
\* to 3 are passed over when they come round.
Child03(j, i) == LET n == 42 * (j - 1) + i IN n + 3 * ((n - 1) \div 47) + 3
=============================================================================
