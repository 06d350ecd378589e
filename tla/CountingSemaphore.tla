-------------------------- MODULE CountingSemaphore --------------------------
(***************************************************************************)
(* What the semaphores of phase 3 promise those who use them: each has a   *)
(* number of permits; P takes one, or waits in line until a V hands it     *)
(* over; and nobody waits while there is a permit.                         *)
(***************************************************************************)
EXTENDS Integers, Sequences

CONSTANTS
    Ids,      \* the names of semaphores
    Users,    \* those who call P and V
    Numbers   \* how many permits a semaphore may start with

VARIABLES
    permits,  \* semaphore -> how many more may pass, for those made
    waiting   \* semaphore -> who waits, the first come first

Made == DOMAIN permits

Init == permits = [s \in {} |-> 0] /\ waiting = [s \in {} |-> <<>>]

SemCreate(s, n) ==
    /\ s \notin Made
    /\ permits' = [t \in Made \cup {s} |-> IF t = s THEN n ELSE permits[t]]
    /\ waiting' = [t \in Made \cup {s} |-> IF t = s THEN <<>> ELSE waiting[t]]

Pass(s) ==
    /\ s \in Made /\ permits[s] > 0
    /\ permits' = [permits EXCEPT ![s] = @ - 1]
    /\ UNCHANGED waiting

Queue(s, u) ==
    /\ s \in Made /\ permits[s] = 0
    /\ waiting' = [waiting EXCEPT ![s] = Append(@, u)]
    /\ UNCHANGED permits

Leave(s) ==
    /\ s \in Made /\ waiting[s] = <<>>
    /\ permits' = [permits EXCEPT ![s] = @ + 1]
    /\ UNCHANGED waiting

HandOver(s) ==
    /\ s \in Made /\ waiting[s] # <<>>
    /\ waiting' = [waiting EXCEPT ![s] = Tail(@)]
    /\ UNCHANGED permits

Next == \E s \in Ids :
            \/ \E n \in Numbers : SemCreate(s, n)
            \/ Pass(s) \/ (\E u \in Users : Queue(s, u))
            \/ Leave(s) \/ HandOver(s)

Spec == Init /\ [][Next]_<<permits, waiting>>
=============================================================================
