------------------------------- MODULE TestRuns -------------------------------
(***************************************************************************)
(* The recorded testcases of phases 1a, 1b and 3: one of them is chosen,   *)
(* and run by the kernel, or the system calls, that it was written for.    *)
(***************************************************************************)
EXTENDS TestRun1b

VARIABLES
    phase,                              \* "1a", "1b" or "3"
    resume, curChild, joining, joined,  \* of phase 1a only
    \* of phase 3 only
    procs, ready, current, nextPid, shadowProcessTable, doing, s1, asked, runs,
    semaphoreTable, semCounter, nextMbox, receivers, senders, handles

common == <<pidCounter, machine, chosen, place, pids, printed>>
kernels == <<processTable, runningProcessID, dumped>>
only1a == <<resume, curChild, joining, joined>>
only1b == <<runQueues, intOn, ctx>>
only3 == <<procs, ready, current, nextPid, shadowProcessTable, doing, s1, asked,
           runs, semaphoreTable, semCounter, nextMbox, receivers, senders, handles>>

Phase1a == INSTANCE TestRun1a

\* phase3.h and phase2.h of phase 3 have 200 semaphores and 100 mailboxes.
Phase3 == INSTANCE TestRun3 WITH
    Users <- 4 .. MAXPROC - 1,
    Functions <- {}, Priorities <- {}, Refusals <- {}, Values <- {},
    MaxCount <- 100, MAXSEMS <- 200, MAXMBOX <- 100, MaxValue <- 100

Without1a == resume = NULL /\ curChild = NULL /\ joining = NULL /\ joined = NULL
Without1b == runQueues = NULL /\ intOn = NULL /\ ctx = NULL
Without3 ==
    /\ procs = NULL /\ ready = NULL /\ current = NULL /\ nextPid = NULL
    /\ shadowProcessTable = NULL /\ doing = NULL /\ s1 = NULL /\ asked = NULL
    /\ runs = NULL /\ semaphoreTable = NULL /\ semCounter = NULL
    /\ nextMbox = NULL /\ receivers = NULL /\ senders = NULL /\ handles = NULL

TestsInit ==
    \/ /\ phase = "1a" /\ Phase1a!RunInit
       /\ returned = NULL /\ Without1b /\ Without3
    \/ phase = "1b" /\ RunInit /\ Without1a /\ Without3
    \/ /\ phase = "3" /\ Phase3!RunInit
       /\ processTable = NULL /\ runningProcessID = NULL /\ dumped = NULL
       /\ Without1a /\ Without1b

TestsNext ==
    /\ UNCHANGED phase
    /\ \/ phase = "1a" /\ Phase1a!RunNext /\ UNCHANGED <<returned, only1b, only3>>
       \/ phase = "1b" /\ RunNext /\ UNCHANGED <<only1a, only3>>
       \/ phase = "3" /\ Phase3!RunNext /\ UNCHANGED <<kernels, only1a, only1b>>

TestsSpec == TestsInit /\ [][TestsNext]_<<common, kernels, returned, only1a, only1b,
                                          only3, phase>>

\* The testcases of phase 1a run on its kernel as their .out files record.
Phase1aAsRecorded == phase = "1a" => Phase1a!RunsAsRecorded

\* The testcases of phase 1b run on its kernel as their .out files record.
Phase1bAsRecorded == phase = "1b" => RunsAsRecorded

\* The testcases of phase 3 run over its system calls as their .out files record.
Phase3AsRecorded == phase = "3" => Phase3!RunsAsRecorded
=============================================================================
