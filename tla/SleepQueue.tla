------------------------------ MODULE SleepQueue ------------------------------
(***************************************************************************)
(* The clock driver of phase4a/phase4.c: Sleep puts the caller into a      *)
(* queue sorted by the time it is to wake up and blocks it in a send to a  *)
(* mailbox of its own; a daemon counts the clock's interrupts and receives *)
(* from the mailboxes of those whose time has come.                        *)
(*                                                                         *)
(* System calls run with interrupts off, and the daemon has priority 1,    *)
(* above the processes that sleep: a call of Sleep is one step, up to      *)
(* where it blocks, and no process runs before the daemon waits again.     *)
(* The mailboxes (the prebuilt libphase2.a) have no slots: a send and a    *)
(* receive wait for each other.  Times are counted in ticks of 100 ms.     *)
(***************************************************************************)
EXTENDS Integers, FiniteSets

CONSTANTS
    MAXPROC,          \* entries of shadowProcessTable
    TicksPerSecond,   \* 10 in the code
    Seconds,          \* the arguments of Sleep
    MaxSleeps,        \* bound: the calls of one process
    MaxPid,           \* bound: the PIDs given out
    MaxTicks          \* bound: the interrupts

SleepAssumption ==
    /\ MAXPROC \in Nat \ {0}
    /\ TicksPerSecond \in Nat \ {0}
    /\ Seconds \subseteq Nat
    /\ MaxSleeps \in Nat /\ MaxPid \in Nat /\ MaxTicks \in Nat

VARIABLES
    GLOBAL_CLOCK_TICKS,
    shadowProcessTable,   \* slot -> struct Process
    priorityQueueHead,    \* the slot of the first entry, or NULL
    sleeper,              \* slot -> the process that has the slot now
    cpu,                  \* who runs: the users, the daemon, or a call of
                          \* Sleep that walks a ring of entries for ever
    receivesFrom          \* the PID from whose mailbox the daemon receives

clockVars == <<GLOBAL_CLOCK_TICKS, shadowProcessTable, priorityQueueHead,
               sleeper, cpu, receivesFrom>>

NULL == 0
Slots == 1 .. MAXPROC - 1         \* slot 0 belongs to a process of the system
Pids == {pid \in 1 .. MaxPid : pid % MAXPROC # 0}

\* mboxID is left out: an entry's mailbox is made with it, for its PID.
Process == [PID : Pids \cup {NULL}, endSleep : Nat, next : Slots \cup {NULL}]

\* What a process knows of its last call: when it was made and until when it
\* should last.
Sleeper == [PID : Pids, asleep : BOOLEAN, since : Nat, until : Nat,
            calls : 0 .. MaxSleeps]

Init ==
    /\ GLOBAL_CLOCK_TICKS = 0
    /\ shadowProcessTable = [s \in Slots |-> [PID |-> NULL, endSleep |-> 0, next |-> NULL]]
    /\ priorityQueueHead = NULL
    /\ sleeper = [s \in Slots |-> [PID |-> s, asleep |-> FALSE, since |-> 0,
                                   until |-> 0, calls |-> 0]]
    /\ cpu = "users"
    /\ receivesFrom = NULL

-----------------------------------------------------------------------------
\* A new entry for a PID.
createShadowProcess(pid, end) == [PID |-> pid, endSleep |-> end, next |-> NULL]

\* Slip: a new entry keeps the link of the old one.
getProcess_KeepsNext(s, end) ==
    [shadowProcessTable EXCEPT ![s] =
        [PID |-> sleeper[s].PID, endSleep |-> end, next |-> @.next]]

\* The table once the process of slot s has its entry, a new one if the slot's
\* entry was made for another PID.
getProcess(s, end) ==
    [shadowProcessTable EXCEPT ![s] =
        IF @.PID # sleeper[s].PID THEN createShadowProcess(sleeper[s].PID, end)
        ELSE [@ EXCEPT !.endSleep = end]]

\* Slip: the walk always goes to the end.
GoesOn_ToTheEnd(table, current, priority) == table[current].next # NULL

\* Does the walk go on from this entry?
GoesOn(table, current, priority) ==
    LET next == table[current].next
    IN  next # NULL /\ table[next].endSleep <= priority

\* Where the walk from the head comes to in as many steps as there are entries:
\* to its end, unless the entries form a ring.
Walk(table, priority) ==
    LET at[n \in 0 .. Cardinality(Slots)] ==
            IF n = 0 THEN priorityQueueHead
            ELSE IF GoesOn(table, at[n-1], priority) THEN table[at[n-1]].next
            ELSE at[n-1]
    IN  at[Cardinality(Slots)]

\* The queue with the entry of slot s in it.  In an empty queue the entry keeps
\* the link it has.
addToPriorityQueue(table, s) ==
    LET head     == priorityQueueHead
        priority == table[s].endSleep
        current  == Walk(table, priority)
    IN  IF head = NULL THEN [head |-> s, table |-> table]
        ELSE IF priority <= table[head].endSleep
        THEN [head |-> s, table |-> [table EXCEPT ![s].next = head]]
        ELSE [head |-> head, table |-> [table EXCEPT ![s].next = table[current].next,
                                                     ![current].next = s]]

\* Does the walk to the place of slot s never end?
InRing(table, s) ==
    LET priority == table[s].endSleep
    IN  /\ priorityQueueHead # NULL
        /\ priority > table[priorityQueueHead].endSleep
        /\ GoesOn(table, Walk(table, priority), priority)

ourSleep(s, seconds) ==
    LET startTime == GLOBAL_CLOCK_TICKS
        endTime   == seconds * TicksPerSecond + startTime
        table     == getProcess(s, endTime)
        queue     == addToPriorityQueue(table, s)
        ring      == InRing(table, s)
        met       == receivesFrom = sleeper[s].PID   \* the daemon is there already
    IN  /\ cpu = "users"
        /\ ~sleeper[s].asleep
        /\ sleeper[s].calls < MaxSleeps
        /\ endTime < MaxTicks
        /\ shadowProcessTable' = IF ring THEN table ELSE queue.table
        /\ priorityQueueHead' = IF ring THEN priorityQueueHead ELSE queue.head
        \* MboxSend waits for the daemon's MboxRecv, or ends it
        /\ receivesFrom' = IF met THEN NULL ELSE receivesFrom
        /\ cpu' = IF ring THEN "ring" ELSE IF met THEN "daemon" ELSE "users"
        /\ sleeper' = [sleeper EXCEPT ![s].asleep = ~met, ![s].since = startTime,
                                      ![s].until = endTime, ![s].calls = @ + 1]
        /\ UNCHANGED GLOBAL_CLOCK_TICKS

\* The process of slot s ends, and another one gets the slot.
Replace(s) ==
    /\ cpu = "users"
    /\ ~sleeper[s].asleep
    /\ sleeper[s].PID + MAXPROC \in Pids
    /\ sleeper' = [sleeper EXCEPT ![s].PID = @ + MAXPROC, ![s].calls = 0]
    /\ UNCHANGED <<GLOBAL_CLOCK_TICKS, shadowProcessTable, priorityQueueHead,
                   cpu, receivesFrom>>

-----------------------------------------------------------------------------
\* The daemon.  waitDevice returns, ...
daemonProcessMain ==
    /\ cpu = "users"
    /\ receivesFrom = NULL
    /\ GLOBAL_CLOCK_TICKS < MaxTicks
    /\ GLOBAL_CLOCK_TICKS' = GLOBAL_CLOCK_TICKS + 1
    /\ cpu' = "daemon"
    /\ UNCHANGED <<shadowProcessTable, priorityQueueHead, sleeper, receivesFrom>>

\* Slip: a tick too early.
Due_ATickEarly ==
    /\ priorityQueueHead # NULL
    /\ GLOBAL_CLOCK_TICKS + 1 >= shadowProcessTable[priorityQueueHead].endSleep

Due == /\ priorityQueueHead # NULL
       /\ GLOBAL_CLOCK_TICKS >= shadowProcessTable[priorityQueueHead].endSleep

\* ... the first entry is taken off while it is due, and its process let go if
\* it waits at its mailbox; otherwise the daemon waits there ...
removeFromPriorityQueue ==
    LET p     == priorityQueueHead
        pid   == shadowProcessTable[p].PID
        there == sleeper[p].PID = pid /\ sleeper[p].asleep
    IN  /\ cpu = "daemon"
        /\ Due
        /\ priorityQueueHead' = shadowProcessTable[p].next
        /\ sleeper' = [sleeper EXCEPT ![p].asleep = @ /\ ~there]
        /\ receivesFrom' = IF there THEN NULL ELSE pid
        /\ cpu' = IF there THEN "daemon" ELSE "users"
        /\ UNCHANGED <<GLOBAL_CLOCK_TICKS, shadowProcessTable>>

\* ... and the next interrupt is waited for.
waitDevice ==
    /\ cpu = "daemon"
    /\ ~Due
    /\ cpu' = "users"
    /\ UNCHANGED <<GLOBAL_CLOCK_TICKS, shadowProcessTable, priorityQueueHead,
                   sleeper, receivesFrom>>

Next ==
    \/ \E s \in Slots, seconds \in Seconds : ourSleep(s, seconds)
    \/ \E s \in Slots : Replace(s)
    \/ daemonProcessMain
    \/ removeFromPriorityQueue
    \/ waitDevice

\* The clock does not stop, and the daemon, of the best priority, gets the CPU.
Progress == daemonProcessMain \/ removeFromPriorityQueue \/ waitDevice

Spec == Init /\ [][Next]_clockVars /\ WF_clockVars(Progress)

-----------------------------------------------------------------------------
\* Nobody comes back from Sleep before its time is over (the test of the head
\* in removeFromPriorityQueue, and a mailbox at which nobody waits but the
\* process that sleeps).
NotTooEarly ==
    \A s \in Slots : sleeper[s].asleep \/ GLOBAL_CLOCK_TICKS >= sleeper[s].until

\* Whenever the daemon is done with a tick, everybody whose time is over is up,
\* although it looks only at the head; a call in this tick waits for the next
\* (addToPriorityQueue keeps the queue sorted and loses nobody).
NotTooLate ==
    \A s \in Slots :
        cpu # "daemon" /\ sleeper[s].asleep =>
            \/ GLOBAL_CLOCK_TICKS < sleeper[s].until
            \/ GLOBAL_CLOCK_TICKS = sleeper[s].since

\* A sleeper wakes up at its tick, neither before nor after.
OnTime == NotTooEarly /\ NotTooLate

\* Every Sleep ends: the daemon is never left waiting at the mailbox of a
\* process that does not sleep, and no walk is endless.
SleepsEnd == \A s \in Slots : sleeper[s].asleep ~> ~sleeper[s].asleep
=============================================================================
