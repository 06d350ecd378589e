------------------------------- MODULE Drivers -------------------------------
(***************************************************************************)
(* The drivers of phase4a/phase4.c, after phase4_start_service_processes   *)
(* has made their mailboxes and daemons.  They have no variable in common, *)
(* and nothing one does can be told from what another does: each behaviour *)
(* uses one of them, and what holds in all of these holds of the three     *)
(* together.                                                               *)
(***************************************************************************)
EXTENDS Integers

CONSTANTS
    MAXPROC, TicksPerSecond, Seconds, MaxSleeps, MaxPid, MaxTicks,
    Procs, Units, MAXLINE, MaxLines, Sizes, Lengths, MaxTyped, MaxCalls,
    NumTracks, NumSectors, Tracks, Counts, Shared,
    InUse       \* the drivers that are looked at

VARIABLES
    GLOBAL_CLOCK_TICKS, shadowProcessTable, priorityQueueHead, sleeper, cpu, receivesFrom,
    READ_BUFFER_SIZE, lock, ready, lines, readers, buffer, terminal, user,
    diskLock, complete, waiting, status, isComplete, disk, caller, aborted, seekFailed,
    driver      \* the one that is used

Clock == INSTANCE SleepQueue
Term  == INSTANCE Terminal
Dsk   == INSTANCE Disk

ASSUME DriversAssumption ==
    /\ Clock!SleepAssumption
    /\ Term!TerminalAssumption
    /\ Dsk!DiskAssumption
    /\ InUse \subseteq {"clock", "terminal", "disk"}

clockVars == <<GLOBAL_CLOCK_TICKS, shadowProcessTable, priorityQueueHead, sleeper,
               cpu, receivesFrom>>
termVars == <<READ_BUFFER_SIZE, lock, ready, lines, readers, buffer, terminal, user>>
diskVars == <<diskLock, complete, waiting, status, isComplete, disk, caller,
              aborted, seekFailed>>
vars == <<clockVars, termVars, diskVars, driver>>

Init ==
    /\ Clock!Init
    /\ Term!Init
    /\ Dsk!Init
    /\ driver \in InUse

Next ==
    \/ /\ driver = "clock"
       /\ Clock!Next
       /\ UNCHANGED <<termVars, diskVars, driver>>
    \/ /\ driver = "terminal"
       /\ Term!Next
       /\ UNCHANGED <<clockVars, diskVars, driver>>
    \/ /\ driver = "disk"
       /\ Dsk!Next
       /\ UNCHANGED <<clockVars, termVars, driver>>

\* Hardware and daemons go on, and so do calls that can.
Progress ==
    \/ /\ driver = "clock"
       /\ Clock!Progress
       /\ UNCHANGED <<termVars, diskVars, driver>>
    \/ /\ driver = "terminal"
       /\ Term!Progress
       /\ UNCHANGED <<clockVars, diskVars, driver>>
    \/ /\ driver = "disk"
       /\ Dsk!Progress
       /\ UNCHANGED <<clockVars, termVars, driver>>

Spec == Init /\ [][Next]_vars
FairSpec == Spec /\ WF_vars(Progress)

-----------------------------------------------------------------------------
\* The properties of each driver, stated with it.

\* Nobody comes back from Sleep before its time is over.
NotTooEarly == Clock!NotTooEarly
\* Nor is anybody left asleep by the tick at which it is over.
OnTime == Clock!OnTime
\* Every Sleep ends.
SleepsEnd == Clock!SleepsEnd

\* What is typed is read in order, nothing twice, nothing missing unnoticed.
InputInOrder == Term!InputInOrder
\* No line is longer than MAXLINE, whatever READ_BUFFER_SIZE is.
LinesFit == Term!LinesFit
\* A text is shown to its end before another one begins.
TextsWhole == Term!TextsWhole
\* No character is sent to a busy terminal at which nothing has been typed.
NoCharLost == Term!NoCharLost
\* Every TermWrite ends.
WritesEnd == Term!WritesEnd

\* Each transfer of a call moves the next sector, on the right track.
SectorsInOrder == Dsk!SectorsInOrder
\* The head is on the track that was asked for, track 0 like any other.
HeadOnTrack == Dsk!HeadOnTrack
\* No request is lost, and no completion goes to somebody else.
RequestsTaken == Dsk!RequestsTaken
\* A lock whose owner is gone was left behind by a failed seek.
LockGivenBack == Dsk!LockGivenBack
\* The assertion of ourDiskRead holds.
AssertionHolds == Dsk!AssertionHolds
\* Every call returns, as long as no seek has failed.
CallsEnd == Dsk!CallsEnd
=============================================================================
