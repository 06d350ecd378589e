------------------------------- MODULE MCKernel -------------------------------
(***************************************************************************)
(* Small instances of the process kernel.  Slots 1, 2 and 3 go to init     *)
(* (priority 6), the sentinel (7) and testcase_main (3).                   *)
(***************************************************************************)
EXTENDS KernelProperties

\* Children above and below testcase_main.
TwoLevels == [priority : {2, 4}, startFunc : {"user"}]
\* Children in testcase_main's own queue, or above it.
SameLevel == [priority : {2, 3}, startFunc : {"user"}]
LowLevel == [priority : {4}, startFunc : {"user"}]
\* The same with the arguments fork1 rejects after it has made the process.
BadArgs == {[priority |-> 0, startFunc |-> "user"],
            [priority |-> 4, startFunc |-> "NULL"]}
TwoLevelsOrBad == TwoLevels \cup BadArgs
\* And without those that have no queue of their own: a process that is rejected
\* for its priority can only be run by way of a stale link, but then forks.
TwoLevelsOrNull == {a \in TwoLevelsOrBad : a.priority # 0}
=============================================================================
