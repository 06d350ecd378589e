----------------------------- MODULE Testcases1b -----------------------------
(***************************************************************************)
(* The testcases of phase1b/testcases: what each program does, and what    *)
(* its .out file says it prints.  Of a line of output the function that    *)
(* prints it and its PID are kept, of a process table the rows, without    *)
(* names and numbers behind the states; lines that say nothing the program *)
(* text does not say are left out.  Reaching its end a function quits (all *)
(* quit or return there), and testcase_main halts the machine.             *)
(*                                                                         *)
(* Left out: test18, a race against the clock; test22, whose priorities    *)
(* index outside runQueues.                                                *)
(***************************************************************************)
EXTENDS RunQueues, Programs

-----------------------------------------------------------------------------
test00 == Run(
    [testcase_main |-> <<Say, Fork("XXp1", 2), JoinOne>>,
     XXp1 |-> <<Say>>],
    <<M(0), P1(0), M(4), M(4)>>,
    "halted")

test01 == Run(
    [testcase_main |-> <<Say, Fork("XXp1", 2), Fork("XXp2", 5), JoinOne,
                         JoinOne>>,
     XXp1 |-> <<Say>>,
     XXp2 |-> <<Say>>],
    <<M(0), P1(0), M(4), M(5), M(4), P2(0), M(5)>>,
    "halted")

test02 == Run(
    [testcase_main |-> <<Say, Fork("XXp1", 2), JoinOne>>,
     XXp1 |-> <<Say, Fork("XXp2", 1), Fork("XXp2", 1), JoinOne, JoinOne>>,
     XXp2 |-> <<Say>>],
    <<M(0), P1(0), P2(0), P1(5), P2(0), P1(6), P1(6), P1(5), M(4), M(4)>>,
    "halted")

\* 42 children in each of three rounds.
test03 == Dumping(
    [j \in 1 .. 3 |-> Rows({<<3, 1, 3, "Running">>} \cup
                {<<Child03(j, i), 3, 2, "Terminated">> : i \in 1 .. 42})],
    Run([testcase_main |->
            <<Say>> \o Times(3, Times(42, <<Fork("XXp1", 2)>>) \o <<Dump>>
                               \o Times(42, <<JoinOne>>) \o <<Quiet(JoinOne)>>),
         XXp1 |-> <<Pid>>],
        <<M(0)>> \o FlattenSeq([j \in 1 .. 3 |->
            FlattenSeq([i \in 1 .. 42 |->
                            <<P1(Child03(j, i)), M(Child03(j, i))>>])
                \o <<Table>> \o [i \in 1 .. 42 |-> M(Child03(j, 43 - i))]]),
        "halted"))

\* The fourth child of each round prints the table.
test04 == Dumping(
    [j \in 1 .. 2 |-> LET p == 5 * j - 1 IN
        Rows({<<3, 1, 3, "Runnable">>, <<p + 3, 3, 2, "Running">>} \cup
             {<<p + i, 3, 2, "Terminated">> : i \in 0 .. 2})],
    Run([testcase_main |->
            <<Say>> \o Times(2, Times(3, <<Fork("XXp1", 2)>>)
                    \o <<Fork("XXp1_3", 2), Fork("XXp1", 2)>>
                    \o Times(5, <<JoinOne>>) \o <<Quiet(JoinOne)>>),
         XXp1 |-> <<Pid>>,
         XXp1_3 |-> <<Pid, Dump>>],
        <<M(0)>> \o FlattenSeq([j \in 1 .. 2 |-> LET p == 5 * j - 1 IN
            <<P1(p), M(p), P1(p + 1), M(p + 1), P1(p + 2), M(p + 2),
              <<"XXp1_3", p + 3>>, Table, M(p + 3), P1(p + 4), M(p + 4),
              M(p + 4), M(p + 3), M(p + 2), M(p + 1), M(p)>>]),
        "halted"))

test05 == Run(
    [testcase_main |-> <<Say, Fork("XXp1", 2), JoinOne>>,
     XXp1 |-> <<Say, Fork("XXp2", 1), JoinOne>>,
     XXp2 |-> <<Say>>],
    <<M(0), P1(0), P2(0), P1(5), P1(5), M(4), M(4)>>,
    "halted")

\* There are two records, since either XXp2 may run first; this is the first.
test06 == Run(
    [testcase_main |-> <<Say, Fork("XXp1", 2), JoinOne>>,
     XXp1 |-> <<Say, Fork("XXp2", 5), Fork("XXp2", 5), JoinOne, JoinOne>>,
     XXp2 |-> <<Say>>],
    <<M(0), P1(0), P1(5), P1(6), M(4), P2(0), P1(5), P2(0), P1(6), M(4)>>,
    "halted")

\* XXp1 returns while it has a child.
test07 == Dumping(
    <<Rows({<<3, 1, 3, "Runnable">>, <<4, 3, 2, "Running">>,
            <<5, 4, 1, "Terminated">>})>>,
    Run([testcase_main |-> <<Say, Quiet(Fork("XXp1", 2)), Say>>,
         XXp1 |-> <<Fork("XXp2", 1), Dump>>,
         XXp2 |-> <<Say>>],
        <<M(0), P2(0), P1(5), Table>>,
        "halted"))

test08 == Run(
    [testcase_main |-> <<Say, UserMode, Fork("XXp1", 2), JoinOne>>,
     XXp1 |-> <<Say>>],
    <<M(0)>>,
    "halted")

test09 == Run(
    [testcase_main |-> <<Say, Fork("XXp1", 2), JoinOne>>,
     XXp1 |-> <<Say, UserMode>>],
    <<M(0), P1(0)>>,
    "halted")

-----------------------------------------------------------------------------
test10 == Dumping(
    <<Rows({<<3, 1, 3, "Running">>, <<4, 3, 2, ZapBlocked>>,
            <<5, 4, 5, "Runnable">>, <<6, 4, 5, "Runnable">>})>>,
    Run([testcase_main |-> <<Say, Fork("XXp1", 2), Dump, JoinOne>>,
         XXp1 |-> <<Pid, Into("kid1", Fork("XXp2", 5)),
                    Into("kid2", Fork("XXp2", 5)),
                    ZapVar("kid1"), Say, ZapVar("kid2"), Say, JoinOne,
                    JoinOne>>,
         XXp2 |-> <<Pid>>],
        <<M(0), P1(4), P1(5), P1(6), M(4), Table, P2(5), P1(0), P2(6), P1(0),
          P1(6), P1(5), M(4)>>,
        "halted"))

test11 == Run(
    [testcase_main |-> <<Say, Into("kid", Quiet(Fork("XXp1", 5))),
                         ZapVar("kid"), Say, JoinOne>>,
     XXp1 |-> <<Say, AwaitZap, Say>>],
    <<M(0), P1(0), P1(0), M(0), M(4)>>,
    "halted")

\* zap(2) is meant for testcase_main, and goes to the sentinel.
test12 == Run(
    [testcase_main |-> <<Say, Fork("XXp1", 2), Quiet(JoinOne), Say>>,
     XXp1 |-> <<Say, ZapPid(2), Say>>],
    <<M(0), P1(0), M(4)>>,
    "deadlock")

test13 == Racing(Dumping(
    <<Rows({<<3, 1, 3, "Runnable">>, <<4, 3, 1, JoinBlocked>>,
            <<5, 4, 3, "Running">>, <<6, 3, 2, ZapBlocked>>}),
      Rows({<<3, 1, 3, "Runnable">>, <<4, 3, 1, "Running">>,
            <<6, 3, 2, "Runnable">>}),
      Rows({<<3, 1, 3, "Runnable">>, <<4, 3, 1, "Terminated">>,
            <<6, 3, 2, "Running">>})>>,
    Run([testcase_main |-> <<Say, Fork("XXp1", 1), Fork("XXp2", 2), JoinOne,
                             JoinOne>>,
         XXp1 |-> <<Say, Into("pid_e", Fork("XXp3", 3)), JoinOne, Dump>>,
         XXp2 |-> <<Say, ZapVar("pid_e"), Say, Dump>>,
         XXp3 |-> <<Say, Dump>>],
        <<M(0), P1(0), P1(5), M(4), P2(0), P3(0), Table, P1(5), Table, P2(0),
          Table, M(6), M(6), M(4)>>,
        "halted")))

test14 == Racing(Dumping(
    <<Rows({<<3, 1, 3, "Runnable">>, <<4, 3, 1, JoinBlocked>>,
            <<5, 4, 3, "Running">>, <<6, 3, 2, ZapBlocked>>})>>,
    Run([testcase_main |-> <<Say, Into("pid_z", Fork("XXp1", 1)),
                             Fork("XXp2", 2), JoinOne, JoinOne>>,
         XXp1 |-> <<Say, Fork("XXp3", 3), JoinOne>>,
         XXp2 |-> <<Say, ZapVar("pid_z"), Say>>,
         XXp3 |-> <<Say, Dump>>],
        <<M(0), P1(0), P1(5), M(4), P2(0), P3(0), Table, P1(5), P2(0), M(6),
          M(6), M(4)>>,
        "halted")))

test15 == Racing(Dumping(
    <<Rows({<<3, 1, 3, "Runnable">>, <<4, 3, 1, ZapBlocked>>,
            <<5, 4, 3, "Running">>, <<6, 3, 2, ZapBlocked>>})>>,
    Run([testcase_main |-> <<Say, Fork("XXp1", 1), Fork("XXp2", 2), JoinOne,
                             JoinOne>>,
         XXp1 |-> <<Say, Into("pid_z", Fork("XXp3", 3)), ZapVar("pid_z"), Say,
                    JoinOne>>,
         XXp2 |-> <<Say, ZapVar("pid_z"), Say>>,
         XXp3 |-> <<Say, Dump>>],
        <<M(0), P1(0), P1(5), M(4), P2(0), P3(0), Table, P1(0), P1(5), P2(0),
          M(6), M(6), M(4)>>,
        "halted")))

test16 == Racing(Dumping(
    <<Rows({<<3, 1, 3, "Runnable">>, <<4, 3, 1, ZapBlocked>>,
            <<5, 4, 3, "Running">>, <<6, 3, 2, ZapBlocked>>})>>,
    Run([testcase_main |-> <<Say, Into("pid1", Fork("XXp1", 1)),
                             Fork("XXp2", 2), JoinOne, JoinOne>>,
         XXp1 |-> <<Say, Into("pid_z", Fork("XXp3", 3)), ZapVar("pid_z"), Say,
                    JoinOne>>,
         XXp2 |-> <<Say, ZapVar("pid1"), Say>>,
         XXp3 |-> <<Say, Dump>>],
        <<M(0), P1(0), P1(5), M(4), P2(0), P3(0), Table, P1(0), P1(5), P2(0),
          M(6), M(6), M(4)>>,
        "halted")))

test17 == Run(
    [testcase_main |->
        <<Say, Into("pid0", Quiet(Fork("XXp1", 3))),
          Into("pid1", Quiet(Fork("XXp1", 3))),
          Into("pid2", Quiet(Fork("XXp1", 3))),
          Show("pid0"), Show("pid1"), Show("pid2"), JoinOne, JoinOne, JoinOne>>,
     XXp1 |-> <<Pid, Say>>],
    <<M(0), M(4), M(5), M(6), P1(4), P1(0), P1(5), P1(0), P1(6), P1(0), M(6),
      M(5), M(4)>>,
    "halted")

test19 == Run(
    [testcase_main |-> <<Say, Fork("XXp2", 2), JoinOne>>,
     XXp2 |-> Times(4, <<SmallFork>>)],
    <<M(0), P2(-2), P2(-2), P2(-2), P2(-2), M(4), M(4)>>,
    "halted")

\* 52 forks in a table of 50, and as many joins.
test20 == Dumping(
    <<Rows({<<3, 1, 3, "Running">>} \cup
           {<<p, 3, 2, "Terminated">> : p \in 4 .. 50}),
      Rows({<<3, 1, 3, "Running">>})>>,
    Run([testcase_main |->
            <<Say>> \o Times(52, <<IfFails(Fork("XXp1", 2))>>) \o <<Dump>>
                    \o Times(52, <<IfFails(JoinOne)>>) \o <<Dump>>,
         XXp1 |-> <<>>],
        <<M(0)>> \o Times(5, <<M(-1)>>) \o <<Table>> \o Times(5, <<M(-2)>>)
                 \o <<Table>>,
        "halted"))

test21 == Run(
    [testcase_main |-> <<Say, Into("pid1", Fork("XXp1", 5)), JoinOne>>,
     XXp1 |-> <<Say, ZapVar("pid1"), Say>>],
    <<M(0), M(4), P1(0)>>,
    "halted")

-----------------------------------------------------------------------------
test23 == Dumping(
    <<Rows({<<3, 1, 3, JoinBlocked>>, <<4, 3, 5, "Running">>} \cup
           {<<p, 4, 2, "Blocked">> : p \in 5 .. 7})>>,
    Run([testcase_main |-> <<Say, Quiet(Fork("XXp1", 5)), JoinOne>>,
         XXp1 |->
            <<Into("pid0", Quiet(Fork("XXp2", 2))),
              Into("pid1", Quiet(Fork("XXp2", 2))),
              Into("pid2", Quiet(Fork("XXp2", 2))), Dump,
              Unblock("pid0"), Unblock("pid1"), Unblock("pid2"),
              Show("pid0"), Show("pid1"), Show("pid2")>>
                \o Times(3, <<Quiet(JoinOne)>>),
         XXp2 |-> <<Pid, Block, Pid>>],
        <<M(0), P2(5), P2(6), P2(7), Table, P2(5), P2(6), P2(7), P1(5), P1(6),
          P1(7), M(4)>>,
        "halted"))

\* XXp1 quits without having joined.
test24 == Dumping(
    <<Rows({<<3, 1, 3, JoinBlocked>>, <<4, 3, 5, "Running">>,
            <<8, 4, 4, ZapBlocked>>} \cup
           {<<p, 4, 3, "Blocked">> : p \in 5 .. 7})>>,
    Run([testcase_main |-> <<Say, Quiet(Fork("XXp1", 5)), JoinOne>>,
         XXp1 |->
            <<Into("pid0", Quiet(Fork("XXp2", 3))),
              Into("pid1", Quiet(Fork("XXp2", 3))),
              Into("pid2", Quiet(Fork("XXp2", 3))),
              Quiet(Fork("XXp3", 4)), Dump,
              Unblock("pid0"), Unblock("pid1"), Unblock("pid2"),
              Show("pid0"), Show("pid1"), Show("pid2")>>,
         XXp2 |-> <<Pid, Block, Pid, Zapped>>,
         XXp3 |-> <<Pid, ZapVar("pid0"), Say>>],
        <<M(0), P2(5), P2(6), P2(7), P3(8), Table, P2(5), P2(1), P3(0), P2(6),
          P2(0), P2(7), P2(0), P1(5), P1(6), P1(7)>>,
        "halted"))

test25 == Run(
    [testcase_main |-> <<Say, Quiet(Fork("XXp1", 3)), JoinOne>>,
     XXp1 |->
        <<Into("pid0", Quiet(Fork("XXp2", 1))),
          Into("pid1", Quiet(Fork("XXp2", 1))),
          Into("pid2", Quiet(Fork("XXp2", 1))),
          Quiet(Fork("XXp3", 2)), Quiet(Fork("XXp4", 2)),
          Unblock("pid0"), Unblock("pid1"), Unblock("pid2"),
          Show("pid0"), Show("pid1"), Show("pid2")>>,
     XXp2 |-> <<Pid, Block, Pid, Zapped>>,
     XXp3 |-> <<Pid, ZapVar("pid0"), Say>>,
     XXp4 |-> <<Pid, ZapVar("pid2"), Say>>],
    <<M(0), P2(5), P2(6), P2(7), P3(8), P4(9), P2(5), P2(1), P3(0), P2(6),
      P2(0), P2(7), P2(1), P4(0), P1(5), P1(6), P1(7)>>,
    "halted")

test26 == Run(
    [testcase_main |-> <<Say, Fork("XXp1", 2), Fork("XXp2", 2), JoinOne,
                         JoinOne,
                         JoinOne>>,
     XXp1 |-> <<Say, JoinOne>>,
     XXp2 |-> <<Say>>],
    <<M(0), P1(0), P1(-2), M(4), P2(0), M(5), M(5), M(4), M(-2)>>,
    "halted")

\* test27, and test.c, the same program; the record is that of test.c, out.txt,
\* for in that of test27 a race goes the other way.
Program27 ==
    [testcase_main |-> <<Say, Fork("XXp1", 3), Fork("XXp2", 3),
                         Into("pid3", Fork("XXp3", 3)), JoinOne, JoinOne,
                         JoinOne>>,
     XXp1 |-> <<Say, Fork("XXp4", 1), JoinOne>>,
     XXp2 |-> <<Say, ZapVar("pid3"), Say>>,
     XXp3 |-> <<Say, Fork("XXp4", 1), Fork("XXp4", 2), JoinOne, JoinOne>>,
     XXp4 |-> <<Say>>]
test == Run(Program27,
    <<M(0), M(4), M(5), M(6), P1(0), P4(0), P1(7), P1(7), P2(0), P3(0), P4(0),
      P3(8), P4(0), P3(9), P3(9), P3(8), M(6), M(4), P2(0), M(5)>>,
    "halted")

\* XXp2 zaps before pid3 is set.
test28 == Run(
    [testcase_main |-> <<Say, Fork("XXp1", 1), Fork("XXp2", 2),
                         Into("pid3", Fork("XXp3", 3)), JoinOne, JoinOne,
                         JoinOne>>,
     XXp1 |-> <<Say>>,
     XXp2 |-> <<Say, ZapVar("pid3"), Say>>,
     XXp3 |-> <<Say, Fork("XXp4", 4), JoinOne>>,
     XXp4 |-> <<Say>>],
    <<M(0), P1(0), M(4), P2(0)>>,
    "halted")

test29 == Run(
    [testcase_main |-> <<Say, Into("pid1", Fork("XXp1", 1)), Fork("XXp2", 2),
                         JoinOne, JoinOne>>,
     XXp1 |-> <<Say, Fork("XXp3", 2), Zapped, JoinOne, Zapped>>,
     XXp2 |-> <<Say, ZapVar("pid1"), Say>>,
     XXp3 |-> <<Say>>],
    <<M(0), P1(0), P1(5), P1(0), P3(0), P1(5), P1(0), M(4), P2(0)>>,
    "halted")

\* XXp1 zaps before pid1 is set.
test30 == Run(
    [testcase_main |-> <<Say, Into("pid1", Fork("XXp1", 2)), JoinOne>>,
     XXp1 |-> <<Say, ZapVar("pid1"), Say>>],
    <<M(0), P1(0)>>,
    "halted")

\* zap(getpid())
test31 == Run(
    [testcase_main |-> <<Say, Fork("XXp1", 2), ZapPid(3), JoinOne>>,
     XXp1 |-> <<Say>>],
    <<M(0), P1(0), M(4)>>,
    "halted")

test32 == Run(
    [testcase_main |-> <<Say, Fork("XXp1", 2), JoinOne>>,
     XXp1 |-> <<Pid, ZapPid(1024), Say>>],
    <<M(0), P1(4)>>,
    "halted")

\* Slot 4 is in use, but not by process 204.
test33 == Run(
    [testcase_main |-> <<Say, Fork("XXp1", 3), Fork("XXp1", 3), JoinOne,
                         JoinOne>>,
     XXp1 |-> <<Say, ZapPid(204), Say>>],
    <<M(0), M(4), M(5), P1(0)>>,
    "halted")

test34 == Run(
    [testcase_main |-> <<Say, Fork("XXp1", 2), JoinOne>>,
     XXp1 |-> <<Say, Into("toZapPid", Fork("XXp2", 5)), Fork("XXp3", 4),
                JoinOne,
                JoinOne>>,
     XXp2 |-> <<Say>>,
     XXp3 |-> <<Say, ZapVar("toZapPid"), Say>>],
    <<M(0), P1(0), P1(5), P1(6), M(4), P3(0), P2(0), P1(5), P3(0), P1(6),
      M(4)>>,
    "halted")

test35 == Run(
    [testcase_main |-> <<Say, Fork("XXp1", 2), JoinOne>>,
     XXp1 |-> <<Say, Say, Into("toZapPid", Fork("XXp2", 1)),
                Into("pid1", Fork("XXp3", 5)), ZapVar("pid1"), Say, JoinOne,
                JoinOne>>,
     XXp2 |-> <<Say>>,
     XXp3 |-> <<Say, ZapVar("toZapPid"), Say>>],
    <<M(0), P1(0), P1(0), P2(0), P1(5), P1(6), M(4), P3(0)>>,
    "halted")

test36 == Run(
    [testcase_main |-> <<Say, Fork("XXp1", 2), JoinOne>>,
     XXp1 |-> <<Say, ZapPid(1), Say>>],
    <<M(0), P1(0)>>,
    "halted")

Testcases ==
    [test00 |-> test00, test01 |-> test01, test02 |-> test02, test03 |-> test03,
     test04 |-> test04, test05 |-> test05, test06 |-> test06, test07 |-> test07,
     test08 |-> test08, test09 |-> test09, test10 |-> test10, test11 |-> test11,
     test12 |-> test12, test13 |-> test13, test14 |-> test14, test15 |-> test15,
     test16 |-> test16, test17 |-> test17, test19 |-> test19, test20 |-> test20,
     test21 |-> test21, test23 |-> test23, test24 |-> test24, test25 |-> test25,
     test26 |-> test26, test |-> test, test28 |-> test28, test29 |-> test29,
     test30 |-> test30, test31 |-> test31, test32 |-> test32, test33 |-> test33,
     test34 |-> test34, test35 |-> test35, test36 |-> test36]
=============================================================================
