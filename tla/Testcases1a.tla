----------------------------- MODULE Testcases1a -----------------------------
(***************************************************************************)
(* The testcases of phase1a/testcases: what each program does, and what    *)
(* its .out file says it prints.  These are testcases of the later kernel, *)
(* with a call of TEMP_switchTo wherever its dispatcher would take another *)
(* process, and with the process to run next in each call of quit.  Lines  *)
(* that say nothing the program text does not say are left out, and so are *)
(* the tests of exit statuses, for a wrong one halts the machine as the    *)
(* end of the program does.                                                *)
(***************************************************************************)
EXTENDS Programs

test00 == Run(
    [testcase_main |-> <<MyPid("tm"), Say, Into("pid1", Quiet(Fork("XXp1", 2))),
                         Switch("pid1"), Show("pid1"), JoinOne>>,
     XXp1 |-> <<Say, QuitTo("tm")>>],
    <<M(0), P1(0), M(4), M(4)>>,
    "halted")

test01 == Run(
    [testcase_main |-> <<MyPid("tm"), Say, Into("pid1", Quiet(Fork("XXp1", 2))),
                         Switch("pid1"), Show("pid1"),
                         Into("pid2", Fork("XXp2", 5)), JoinOne, Switch("pid2"),
                         JoinOne>>,
     XXp1 |-> <<Say, QuitTo("tm")>>,
     XXp2 |-> <<Say, QuitTo("tm")>>],
    <<M(0), P1(0), M(4), M(5), M(4), P2(0), M(5)>>,
    "halted")

test02 == Run(
    [testcase_main |-> <<MyPid("tm"), Say, Into("pid1", Quiet(Fork("XXp1", 2))),
                         Switch("pid1"), Show("pid1"), JoinOne>>,
     XXp1 |-> <<MyPid("xxp1"), Say>> \o
              Times(2, <<Into("kid", Quiet(Fork("XXp2", 1))), Switch("kid"),
                         Show("kid")>>)
              \o <<JoinOne, JoinOne, QuitTo("tm")>>,
     XXp2 |-> <<Say, QuitTo("xxp1")>>],
    <<M(0), P1(0), P2(0), P1(5), P2(0), P1(6), P1(6), P1(5), M(4), M(4)>>,
    "halted")

test03 == Dumping(
    [j \in 1 .. 3 |-> Rows({<<3, 1, 3, "Running">>} \cup
                {<<Child03(j, i), 3, 2, "Terminated">> : i \in 1 .. 42})],
    Run([testcase_main |->
            <<MyPid("tm"), Say>>
            \o Times(3, Times(42, <<Into("kid", Quiet(Fork("XXp1", 2))),
                                    Switch("kid"), Show("kid")>>)
                        \o <<Dump>> \o Times(42, <<JoinOne>>)
                        \o <<Quiet(JoinOne)>>),
         XXp1 |-> <<Pid, QuitTo("tm")>>],
        <<M(0)>> \o FlattenSeq([j \in 1 .. 3 |->
            FlattenSeq([i \in 1 .. 42 |->
                            <<P1(Child03(j, i)), M(Child03(j, i))>>])
                \o <<Table>> \o [i \in 1 .. 42 |-> M(Child03(j, 43 - i))]]),
        "halted"))

test05 == Run(
    [testcase_main |-> <<MyPid("tm"), Say, Into("pid1", Quiet(Fork("XXp1", 2))),
                         Switch("pid1"), Show("pid1"), JoinOne>>,
     XXp1 |-> <<MyPid("xxp1"), Say, Into("kid", Quiet(Fork("XXp2", 1))),
                Switch("kid"), Show("kid"), JoinOne, QuitTo("tm")>>,
     XXp2 |-> <<Say, QuitTo("xxp1")>>],
    <<M(0), P1(0), P2(0), P1(5), P1(5), M(4), M(4)>>,
    "halted")

test06 == Run(
    [testcase_main |-> <<MyPid("tm"), Say, Into("pid1", Quiet(Fork("XXp1", 2))),
                         Switch("pid1"), Show("pid1"), Switch("first"),
                         JoinOne>>,
     XXp1 |-> <<MyPid("xxp1"), Say, Into("first", Fork("XXp2", 5)),
                Into("second", Fork("XXp2", 5)), Switch("tm"), JoinOne,
                Switch("second"), JoinOne, QuitTo("tm")>>,
     XXp2 |-> <<Say, QuitTo("xxp1")>>],
    <<M(0), P1(0), P1(5), P1(6), M(4), P2(0), P1(5), P2(0), P1(6), M(4)>>,
    "halted")

\* XXp1 quits while it has a child.
test07 == Dumping(
    <<Rows({<<3, 1, 3, "Runnable">>, <<4, 3, 2, "Running">>,
            <<5, 4, 1, "Terminated">>})>>,
    Run([testcase_main |-> <<MyPid("tm"), Say,
                             Into("xxp1", Quiet(Fork("XXp1", 2))),
                             Switch("xxp1"), Say>>,
         XXp1 |-> <<Into("kid", Quiet(Fork("XXp2", 1))), Switch("kid"),
                    Show("kid"), Dump, QuitTo("tm")>>,
         XXp2 |-> <<Say, QuitTo("xxp1")>>],
        <<M(0), P2(0), P1(5), Table>>,
        "halted"))

test08 == Run(
    [testcase_main |-> <<Say, UserMode, Fork("XXp1", 2), JoinOne>>,
     XXp1 |-> <<Say>>],
    <<M(0)>>,
    "halted")

test09 == Run(
    [testcase_main |-> <<MyPid("tm"), Say, Into("pid1", Quiet(Fork("XXp1", 2))),
                         Switch("pid1"), Show("pid1"), JoinOne>>,
     XXp1 |-> <<Say, UserMode, QuitTo("tm")>>],
    <<M(0), P1(0)>>,
    "halted")

\* The call of dumpProcesses at the end is not in the record.
test17 == Run(
    [testcase_main |->
        <<MyPid("tm"), Say, Into("pid0", Quiet(Fork("XXp1", 3))),
          Into("pid1", Quiet(Fork("XXp1", 3))),
          Into("pid2", Quiet(Fork("XXp1", 3))),
          Show("pid0"), Show("pid1"), Show("pid2"),
          Switch("pid0"), Switch("pid1"), Switch("pid2"), JoinOne, JoinOne,
          JoinOne>>,
     XXp1 |-> <<Pid, Say, QuitTo("tm")>>],
    <<M(0), M(4), M(5), M(6), P1(4), P1(0), P1(5), P1(0), P1(6), P1(0), M(6),
      M(5), M(4)>>,
    "halted")

test19 == Run(
    [testcase_main |-> <<MyPid("tm"), Say, Into("pid1", Quiet(Fork("XXp2", 2))),
                         Switch("pid1"), Show("pid1"), JoinOne>>,
     XXp2 |-> Times(4, <<SmallFork>>) \o <<QuitTo("tm")>>],
    <<M(0), P2(-2), P2(-2), P2(-2), P2(-2), M(4), M(4)>>,
    "halted")

\* 52 forks in a table of 50, and as many joins.
test20 == Dumping(
    <<Rows({<<3, 1, 3, "Running">>} \cup
           {<<p, 3, 2, "Terminated">> : p \in 4 .. 50}),
      Rows({<<3, 1, 3, "Running">>})>>,
    Run([testcase_main |->
            <<MyPid("tm"), Say>>
            \o Times(52, <<Into("kid", IfFails(Fork("XXp1", 2))),
                           SwitchIfMade("kid")>>)
            \o <<Dump>> \o Times(52, <<IfFails(JoinOne)>>) \o <<Dump>>,
         XXp1 |-> <<QuitTo("tm")>>],
        <<M(0)>> \o Times(5, <<M(-1)>>) \o <<Table>> \o Times(5, <<M(-2)>>)
                 \o <<Table>>,
        "halted"))

\* Priorities that fork1 refuses.
test22 == Run(
    [testcase_main |-> <<MyPid("tm"), Say, IfFails(Fork("XXp1", 9)),
                         IfFails(Fork("XXp1", -10))>>,
     XXp1 |-> <<Say, QuitTo("tm")>>],
    <<M(0), M(-1), M(-1)>>,
    "halted")

test26 == Run(
    [testcase_main |-> <<MyPid("tm"), Say, Into("pid1", Quiet(Fork("XXp1", 2))),
                         Switch("pid1"), Show("pid1"),
                         Into("pid2", Quiet(Fork("XXp2", 2))), Switch("pid2"),
                         Show("pid2"), JoinOne, JoinOne, JoinOne>>,
     XXp1 |-> <<Say, JoinOne, QuitTo("tm")>>,
     XXp2 |-> <<Say, QuitTo("tm")>>],
    <<M(0), P1(0), P1(-2), M(4), P2(0), M(5), M(5), M(4), M(-2)>>,
    "halted")

Testcases ==
    [test00 |-> test00, test01 |-> test01, test02 |-> test02, test03 |-> test03,
     test05 |-> test05, test06 |-> test06, test07 |-> test07, test08 |-> test08,
     test09 |-> test09, test17 |-> test17, test19 |-> test19, test20 |-> test20,
     test22 |-> test22, test26 |-> test26]
=============================================================================
