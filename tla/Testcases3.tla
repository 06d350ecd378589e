----------------------------- MODULE Testcases3 -----------------------------
(***************************************************************************)
(* The testcases of phase3/testcases: what each user program does, and     *)
(* what its .out file says it prints.  Of a line of output the name that   *)
(* it begins with and its numbers are kept, a line with two numbers as     *)
(* two; lines that say nothing the program text does not say are left out, *)
(* and times, which need not match.  A function that is spawned under      *)
(* several names is given once for each.                                   *)
(*                                                                         *)
(* Left out: test27, which searches for primes with arguments and a        *)
(* semaphore for each; test.c, which is test07 again.                      *)
(***************************************************************************)
EXTENDS Programs

\* System calls.  prints names what of the answer is printed: arg1 ("value"), arg2
\* ("status"), both ("pair"), arg4 ("result"), or arg4 and arg1 ("semaphore").
Call(op, prints) == [Item EXCEPT !.op = op, !.prints = prints]
CallSpawn(f, p) == [Call("Spawn", "value") EXCEPT !.fun = f, !.priority = p]
CallWait == Call("Wait", "pair")
CallTerminate(n) == [Call("Terminate", "no") EXCEPT !.pid = n]
CallSemCreate(n, v) ==
    [Call("SemCreate", "no") EXCEPT !.pid = n, !.into = v]
CallP(v) == [Call("SemP", "no") EXCEPT !.var = v]
CallV(v) == [Call("SemV", "no") EXCEPT !.var = v]
CallGetPID == Call("GetPID", "value")
CallTime == Call("GetTimeofDay", "no")
CallCPUTime == Call("CPUTime", "no")
Prints(what, call) == [call EXCEPT !.prints = what]

\* Lines of output, by start3, and by a child, "Child" and what follows it.
S(n) == <<"start3", n>>
C1(n) == <<"Child1", n>>
C2(n) == <<"Child2", n>>
C1a == <<"Child1a", 0>>
C1b == <<"Child1b", 0>>
C1c == <<"Child1c", 0>>
C2a == <<"Child2a", 0>>
C2b == <<"Child2b", 0>>
C2c == <<"Child2c", 0>>
C3 == <<"Child3", 0>>

-----------------------------------------------------------------------------
test00 == Run(
    [start3 |-> <<Say, CallSpawn("Child1", 5), CallWait, Say, CallTerminate(0)>>,
     Child1 |-> <<Say, Say, CallTerminate(9)>>],
    <<S(0), S(5), C1(0), C1(0), S(5), S(9), S(0)>>,
    "halted")

test01 == Run(
    [start3 |-> <<Say, CallSpawn("Child1", 2), Say, CallTerminate(0)>>,
     Child1 |-> <<Say, Say, CallTerminate(9)>>],
    <<S(0), C1(0), C1(0), S(5), S(0)>>,
    "halted")

test02 == Run([start3 |-> <<Say, CallTerminate(0)>>], <<S(0)>>, "halted")

test03 == Run(
    [start3 |-> <<Say, CallSpawn("Child1", 2), Say, CallTerminate(0)>>,
     Child1 |-> <<Say, Quiet(CallSpawn("Child2", 1)), Say, CallTerminate(9)>>,
     Child2 |-> <<Say, Say, CallTerminate(7)>>],
    <<S(0), C1(0), C2(0), C2(0), C1(0), S(5), S(0)>>,
    "halted")

test04 == Run(
    [start3 |-> <<Say>> \o Times(2, <<Prints("semaphore", CallSemCreate(0, ""))>>)
                        \o <<CallTerminate(0)>>],
    <<S(0), S(0), S(0), S(0), S(1)>>,
    "halted")

\* Two semaphores more than there can be.
test05 == Run(
    [start3 |-> <<Say>> \o Times(202, <<Prints("semaphore", CallSemCreate(0, ""))>>)
                        \o <<CallTerminate(0)>>],
    <<S(0)>> \o FlattenSeq([i \in 1 .. 200 |-> <<S(0), S(i - 1)>>])
             \o <<S(-1), S(0), S(-1), S(0)>>,
    "halted")

test06 == Run(
    [start3 |-> <<Say, CallSemCreate(0, "sem"), CallSpawn("Child1", 2),
                  CallSpawn("Child2", 2), Quiet(CallWait), Quiet(CallWait), Say,
                  CallTerminate(0)>>,
     Child1 |-> <<Say, CallP("sem"), Say, CallTerminate(9)>>,
     Child2 |-> <<Say, CallV("sem"), Say, CallTerminate(9)>>],
    <<S(0), C1(0), S(5), C2(0), C2(0), C1(0), S(6), S(0)>>,
    "halted")

WaitsInLine07 == <<Say, CallP("sem"), Say, CallTerminate(9)>>
test07 == Run(
    [start3 |-> <<Say, CallSemCreate(0, "sem"),
                  Into("pid1", Quiet(CallSpawn("Child1a", 2))),
                  Into("pid2", Quiet(CallSpawn("Child1b", 2))),
                  Into("pid3", Quiet(CallSpawn("Child1c", 2))),
                  Show("pid1"), Show("pid2"), Show("pid3"),
                  CallSpawn("Child2", 2), Say, CallTerminate(0)>>,
     Child1a |-> WaitsInLine07,
     Child1b |-> WaitsInLine07,
     Child1c |-> WaitsInLine07,
     Child2 |-> <<CallGetPID, CallV("sem"), CallV("sem"), CallV("sem"), Say,
                  CallTerminate(9)>>],
    <<S(0), C1a, C1b, C1c, S(5), S(6), S(7), C2(8), C2(0), C1a, C1b, C1c, S(8),
      S(0)>>,
    "halted")

-----------------------------------------------------------------------------
\* Three children of better priority than start3, one after the other, that ask
\* something three times.
ThreeAsk(questions) ==
    LET child == <<Say>> \o Times(3, questions) \o <<Say, CallTerminate(9)>>
    IN  Run([start3 |-> <<Say, Quiet(CallSpawn("Child1a", 1)), Say,
                          Quiet(CallSpawn("Child1b", 1)), Say,
                          Quiet(CallSpawn("Child1c", 1)), Say>>
                          \o Times(3, <<Quiet(CallWait)>>)
                          \o <<Say, CallTerminate(0)>>,
             Child1a |-> child, Child1b |-> child, Child1c |-> child],
            <<S(0), C1a, C1a, S(0), C1b, C1b, S(0), C1c, C1c, S(0), S(0)>>,
            "halted")
test10 == ThreeAsk(<<CallTime>>)
test11 == ThreeAsk(<<CallCPUTime>>)
test12 == ThreeAsk(<<CallTime, CallCPUTime>>)

AsksPid13 == <<Say, CallGetPID, Say, CallTerminate(9)>>
test13 == Run(
    [start3 |-> <<Say, Quiet(CallSpawn("Child1a", 1)), Say,
                  Quiet(CallSpawn("Child1b", 1)), Say,
                  Quiet(CallSpawn("Child1c", 1)), Say>>
                  \o Times(3, <<Quiet(CallWait)>>) \o <<Say, CallTerminate(0)>>,
     Child1a |-> AsksPid13, Child1b |-> AsksPid13, Child1c |-> AsksPid13],
    <<S(0), C1a, <<"Child1a", 5>>, C1a, S(0), C1b, <<"Child1b", 6>>, C1b, S(0),
      C1c, <<"Child1c", 7>>, C1c, S(0), S(0)>>,
    "halted")

\* The status is asserted, not printed.
test14 == Run(
    [start3 |-> <<Say, CallSpawn("Child1", 4), Prints("status", CallWait), Say,
                  CallTerminate(0)>>,
     Child1 |-> <<Say, CallTerminate(32)>>],
    <<S(0), S(5), C1(0), S(32), S(0)>>,
    "halted")

test15 == Run(
    [start3 |-> <<Quiet(CallSpawn("Child1", 4)), Prints("status", CallWait), Say,
                  CallTerminate(0)>>,
     Child1 |-> <<Say, CallTerminate(32)>>],
    <<C1(0), S(32), S(0)>>,
    "halted")

test17 == Run(
    [start3 |-> <<Say, CallSpawn("Child1", 4), CallWait, Say, CallTerminate(0)>>,
     Child1 |-> <<Say, CallSpawn("Child2", 5), CallWait,
                  CallSpawn("Child3", 5), CallWait, Say, CallTerminate(9)>>,
     Child2 |-> <<Say, CallTerminate(9)>>,
     Child3 |-> <<Say, CallTerminate(10)>>],
    <<S(0), S(5), C1(0), C1(6), C2(0), C1(6), C1(9), C1(7), C3, C1(7), C1(10),
      C1(0), S(5), S(9), S(0)>>,
    "halted")

\* Terminate with children that have not run yet.
test18 == Run(
    [start3 |-> <<Say, CallSpawn("Child1", 4), CallWait, Say, CallTerminate(0)>>,
     Child1 |-> <<CallGetPID, CallSpawn("Child2", 2), CallWait,
                  CallSpawn("Child3", 5), CallWait, Say, CallTerminate(9)>>,
     Child2 |-> <<CallGetPID, CallSpawn("Child2a", 5), CallSpawn("Child2b", 5),
                  CallSpawn("Child2c", 5), CallTerminate(10)>>,
     Child2a |-> <<Say, CallTerminate(11)>>,
     Child2b |-> <<Say, CallTerminate(11)>>,
     Child2c |-> <<Say, CallTerminate(11)>>,
     Child3 |-> <<Say, CallTerminate(11)>>],
    <<S(0), S(5), C1(5), C2(6), C2(7), C2(8), C2(9), C1(6), C2a, C2b, C2c, C1(6),
      C1(10), C1(10), C3, C1(10), C1(11), C1(0), S(5), S(9), S(0)>>,
    "halted")

test19 == Run(
    [start3 |-> <<Say, CallTime, CallTime, Say, CallTime, Say, CallTerminate(0)>>],
    <<S(0), S(0), S(0)>>,
    "halted")

\* The text says which lines may come in either order.
test20 == Racing(Run(
    [start3 |-> <<Say, Prints("result", CallSemCreate(3, "sem")), CallP("sem"), Say,
                  CallSpawn("Child1", 2), CallSpawn("Child2", 3), CallV("sem"), Say,
                  Prints("status", CallWait), Prints("status", CallWait), Say,
                  CallTerminate(0)>>,
     Child1 |-> <<Say>> \o Times(5, <<CallP("sem"), Say>>)
                        \o <<Say, CallTerminate(9)>>,
     Child2 |-> <<Say>> \o Times(5, <<CallV("sem"), Say>>)
                        \o <<Say, CallTerminate(10)>>],
    <<S(0), S(0), S(0), C1(0), C1(0), C1(0), S(5), S(6), C1(0), C2(0), S(0), C1(0),
      C2(0), C1(0), C1(0), C2(0), C2(0), C2(0), C2(0), C2(0), S(10), S(9), S(0)>>,
    "halted"))

-----------------------------------------------------------------------------
\* 21 to 24: Child1 waits for Child2, and Child2 has children; it waits for them in
\* test21, and leaves them to Terminate in the others.
Family2(child2, grandchildren, lines) == Run(
    [start3 |-> <<Say, CallSpawn("Child1", 4), CallWait, Say, CallTerminate(0)>>,
     Child1 |-> <<CallGetPID, CallSpawn("Child2", 2), CallWait, Say,
                  CallTerminate(9)>>,
     Child2 |-> <<CallGetPID>> \o child2 \o <<CallTerminate(10)>>]
        @@ grandchildren,
    <<S(0), S(5), C1(5), C2(6)>> \o lines
        \o <<C1(6), C1(10), C1(0), S(5), S(9), S(0)>>,
    "halted")

test21 == Family2(
    <<CallSpawn("Child2a", 5), CallSpawn("Child2b", 5), CallSpawn("Child2c", 5),
      CallWait, CallWait, CallWait>>,
    [Child2a |-> <<Say, CallTerminate(11)>>,
     Child2b |-> <<Say, CallTerminate(11)>>,
     Child2c |-> <<Say, CallTerminate(11)>>],
    <<C2(7), C2(8), C2(9), C1(6), C2a, C2(7), C2(11), C2b, C2(8), C2(11),
      C2c, C2(9), C2(11)>>)

test22 == Family2(
    <<CallSpawn("Child2a", 5), Say>>,
    [Child2a |-> <<Say, CallTerminate(11)>>],
    <<C2(7), C2(0), C1(6), C2a>>)

test23 == Family2(
    <<CallSpawn("Child2a", 5), CallSpawn("Child2b", 5), Say>>,
    [Child2a |-> <<Say, CallTerminate(11)>>,
     Child2b |-> <<Say, CallTerminate(11)>>],
    <<C2(7), C2(8), C2(0), C1(6), C2a, C2b>>)

test24 == Family2(
    <<CallSpawn("Child2a", 5), CallSpawn("Child2b", 5), CallSpawn("Child2c", 5)>>,
    [Child2a |-> <<Say, CallTerminate(11)>>,
     Child2b |-> <<Say, CallTerminate(12)>>,
     Child2c |-> <<Say, CallTerminate(13)>>],
    <<C2(7), C2(8), C2(9), C1(6), C2a, C2b, C2c>>)

\* MAXPROC - 10 children at once.
test25 == Run(
    [start3 |-> <<Say, CallSpawn("Child1", 4), CallWait, Say, CallTerminate(0)>>,
     Child1 |-> <<CallGetPID, CallSpawn("Child2", 2), Quiet(CallWait),
                  CallSpawn("Child2b", 2), CallWait, Say, CallTerminate(9)>>,
     Child2 |-> <<CallGetPID>> \o Times(40, <<CallSpawn("Child2a", 3)>>)
                               \o <<Say, CallTerminate(10)>>,
     Child2a |-> <<CallGetPID, CallTerminate(11)>>,
     Child2b |-> <<CallGetPID, CallSpawn("Child2c", 1), Quiet(CallWait),
                   CallTerminate(50)>>,
     Child2c |-> <<Say, CallTerminate(11)>>],
    <<S(0), S(5), C1(5), C2(6)>> \o [i \in 1 .. 40 |-> C2(6 + i)] \o <<C2(0)>>
        \o [i \in 1 .. 40 |-> <<"Child2a", 6 + i>>]
        \o <<C1(6), <<"Child2b", 47>>, C2c, <<"Child2b", 48>>, C1(47), C1(47),
             C1(50), C1(0), S(5), S(9), S(0)>>,
    "halted")

\* 250,000 V's and P's there, 50 here; two children race.
Counts26(v, status) ==
    <<CallSemCreate(0, v), Show(v)>> \o Times(50, <<CallV(v)>>) \o <<Say>>
        \o Times(50, <<CallP(v)>>) \o <<Say, CallP(v), Say, CallTerminate(status)>>
test26 == Racing(Run(
    [start3 |-> <<Say, CallSpawn("Child1", 4), CallSpawn("Child2", 4),
                  CallSpawn("LP_Child", 5), CallWait, CallWait, CallWait, Say,
                  CallTerminate(0)>>,
     Child1 |-> Counts26("sem1", 1),
     Child2 |-> Counts26("sem2", 2),
     LP_Child |-> <<Say, CallV("sem1"), CallV("sem2"), CallTerminate(9)>>],
    <<S(0), S(5), S(6), S(7), C1(0), C2(1), C1(0), C2(0), C1(0), C2(0),
      <<"LP_Child", 0>>, C1(0), S(5), S(1), C2(0), S(6), S(2), S(7), S(9), S(0)>>,
    "halted"))

Testcases ==
    [test00 |-> test00, test01 |-> test01, test02 |-> test02, test03 |-> test03,
     test04 |-> test04, test05 |-> test05, test06 |-> test06, test07 |-> test07,
     test10 |-> test10, test11 |-> test11, test12 |-> test12, test13 |-> test13,
     test14 |-> test14, test15 |-> test15, test17 |-> test17, test18 |-> test18,
     test19 |-> test19, test20 |-> test20, test21 |-> test21, test22 |-> test22,
     test23 |-> test23, test24 |-> test24, test25 |-> test25, test26 |-> test26]
=============================================================================
