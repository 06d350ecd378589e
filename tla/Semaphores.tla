------------------------------ MODULE Semaphores ------------------------------
(***************************************************************************)
(* The semaphores of phase3/phase3.c: SemCreate, SemP and SemV, each with  *)
(* its stub in phase3_usermode.c.  A semaphore is a number and a zero-slot *)
(* mailbox: P waits in MboxRecv when the number falls below zero, and V    *)
(* calls MboxSend while it is not above.  A system call runs with          *)
(* interrupts off, so the number and the mailbox change in one step.       *)
(*                                                                         *)
(* The mailboxes are those of the prebuilt libphase2.a, modelled by what   *)
(* this file uses of them: a zero-slot mailbox passes the first of those   *)
(* who wait on one side on to the first who comes on the other.            *)
(***************************************************************************)
EXTENDS Integers, Sequences

CONSTANTS
    Users,      \* those who make system calls
    MAXSEMS,
    MAXMBOX,
    Values,     \* what SemCreate is called with
    MaxValue    \* bound: no V of a semaphore with this value

\* phase2_init makes a mailbox for each device: the clock, 4 terminals, 2 disks.
Devices == 7

ASSUME SemaphoreAssumption ==
    /\ MAXSEMS \in Nat
    /\ MAXMBOX \in Nat /\ MAXMBOX >= Devices
    /\ Values \subseteq Int
    /\ MaxValue \in Nat

VARIABLES
    semaphoreTable,   \* id -> struct Semaphore
    semCounter,
    nextMbox,         \* the next mailbox that MboxCreate makes
    receivers,        \* mailbox -> who waits in MboxRecv, the first come first
    senders,          \* mailbox -> who waits in MboxSend
    handles           \* the semaphores that SemCreate has returned

semVars == <<semaphoreTable, semCounter, nextMbox, receivers, senders, handles>>

Sems == 0 .. MAXSEMS - 1
Mboxes == Devices .. MAXMBOX - 1

\* struct Semaphore; an entry with mailbox 0 is free.
Semaphore == [mboxID : {-1, 0} \cup Mboxes, value : Int]

-----------------------------------------------------------------------------
\* MboxCreate(0, 0): -1 if there are MAXMBOX mailboxes.
MboxCreate == IF nextMbox < MAXMBOX THEN nextMbox ELSE -1

FreeSems == {i \in Sems : semaphoreTable[i].mboxID = 0}

\* semCreate takes the first free entry.
semCreate(id, val) ==
    LET i == CHOOSE i \in FreeSems : \A j \in FreeSems : i <= j
    IN  IF FreeSems = {} THEN UNCHANGED <<semaphoreTable, semCounter>>
        ELSE /\ semaphoreTable' =
                    [semaphoreTable EXCEPT ![i] = [mboxID |-> id, value |-> val]]
             /\ semCounter' = semCounter + 1

SemCreateFails(value) == FreeSems = {} \/ value < 0

\* The semaphore is made, and its mailbox too, before the value is looked at; and
\* whether there was a mailbox left is not looked at.  The semaphore returned is
\* the one counted last.
kernSemCreate(value) ==
    /\ nextMbox' = IF MboxCreate = -1 THEN nextMbox ELSE nextMbox + 1
    /\ semCreate(MboxCreate, value)
    /\ handles' = IF SemCreateFails(value) THEN handles
                  ELSE handles \cup {semCounter' - 1}
    /\ UNCHANGED <<receivers, senders>>

SetValue(s, value) ==
    semaphoreTable' = [semaphoreTable EXCEPT ![s].value = value]

NoMbox(s) == semaphoreTable[s].mboxID \notin Mboxes

\* MboxRecv and MboxSend, with no message: a partner, or a wait for one.
MboxRecv(b, u) ==
    IF senders[b] = <<>>
    THEN receivers' = [receivers EXCEPT ![b] = Append(@, u)] /\ UNCHANGED senders
    ELSE senders' = [senders EXCEPT ![b] = Tail(@)] /\ UNCHANGED receivers

MboxSend(b, u) ==
    IF receivers[b] = <<>>
    THEN senders' = [senders EXCEPT ![b] = Append(@, u)] /\ UNCHANGED receivers
    ELSE receivers' = [receivers EXCEPT ![b] = Tail(@)] /\ UNCHANGED senders

\* P: one off the value, and if that makes it negative a receive, whose failure
\* gives the one back.
\* Slip: the last permit is not given away.
MustWait_AtZero(value) == value <= 0

MustWait(value) == value < 0

kernSemP(u, s) ==
    LET value == semaphoreTable[s].value - 1
        b     == semaphoreTable[s].mboxID
    IN  /\ \/ /\ ~MustWait(value)
              /\ SetValue(s, value)
              /\ UNCHANGED <<receivers, senders>>
           \/ /\ MustWait(value) /\ NoMbox(s)
              /\ UNCHANGED <<semaphoreTable, receivers, senders>>
           \/ /\ MustWait(value) /\ ~NoMbox(s)
              /\ SetValue(s, value)
              /\ MboxRecv(b, u)
        /\ UNCHANGED <<semCounter, nextMbox, handles>>

\* V: one onto the value, and while that leaves it at zero or below a send.
\* Slip: the last one in line is not woken.
SomebodyWaits_BelowZero(value) == value < 0

SomebodyWaits(value) == value <= 0

kernSemV(u, s) ==
    LET value == semaphoreTable[s].value + 1
        b     == semaphoreTable[s].mboxID
    IN  /\ \/ /\ ~SomebodyWaits(value)
              /\ SetValue(s, value)
              /\ UNCHANGED <<receivers, senders>>
           \/ /\ SomebodyWaits(value) /\ NoMbox(s)
              /\ UNCHANGED <<semaphoreTable, receivers, senders>>
           \/ /\ SomebodyWaits(value) /\ ~NoMbox(s)
              /\ SetValue(s, value)
              /\ MboxSend(b, u)
        /\ UNCHANGED <<semCounter, nextMbox, handles>>

-----------------------------------------------------------------------------
\* Who stands in one of these lines of receivers and senders.
Waits(u, lines) == \E b \in Mboxes : \E i \in DOMAIN lines[b] : lines[b][i] = u

SemInit ==
    /\ semaphoreTable = [i \in Sems |-> [mboxID |-> 0, value |-> 0]]
    /\ semCounter = 0
    /\ nextMbox = Devices
    /\ receivers = [b \in Mboxes |-> <<>>]
    /\ senders = [b \in Mboxes |-> <<>>]
    /\ handles = {}

\* The calls of a user, for semaphores it was given by SemCreate.  That a user in
\* line makes no other call is left to SystemCalls.
SemNext ==
    \/ \E value \in Values : kernSemCreate(value)
    \/ \E u \in Users, s \in handles :
          \/ kernSemP(u, s)
          \/ semaphoreTable[s].value < MaxValue /\ kernSemV(u, s)

SemSpec == SemInit /\ [][SemNext]_semVars

-----------------------------------------------------------------------------
\* A semaphore's permits are what its value is above zero, and those who wait for
\* one are the receivers at its mailbox.
Counting == INSTANCE CountingSemaphore WITH
    Ids <- Sems,
    Numbers <- {value \in Values : value >= 0},
    permits <- [s \in handles |-> IF semaphoreTable[s].value < 0 THEN 0
                                  ELSE semaphoreTable[s].value],
    waiting <- [s \in handles |-> IF NoMbox(s) THEN <<>>
                                  ELSE receivers[semaphoreTable[s].mboxID]]

\* SemCreate, SemP and SemV implement counting semaphores: nobody passes without a
\* permit, nobody waits while there is one, and a V lets exactly one in line go,
\* the first.
ImplementsSemaphore == Counting!Spec

\* The value and the queue at the mailbox, changed in different functions, never
\* disagree: below zero the value counts those in line, and V never has to wait
\* for somebody to hand its permit to.
ValueCountsWaiters ==
    \A s \in handles : ~NoMbox(s) =>
        LET b == semaphoreTable[s].mboxID
        IN  /\ senders[b] = <<>>
            /\ Len(receivers[b]) = IF semaphoreTable[s].value < 0
                                   THEN -semaphoreTable[s].value ELSE 0
=============================================================================
