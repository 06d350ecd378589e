--------------------------- MODULE SystemCallProofs ---------------------------
(***************************************************************************)
(* Proofs about phase 3, for any number of users, semaphores and mailboxes *)
(* and with time slices or without: a process ends with the status it has  *)
(* asked for, and, as long as no slot is used twice and no Spawn has       *)
(* failed, runs its own function; semaphores implement counting            *)
(* semaphores.                                                             *)
(***************************************************************************)
EXTENDS SystemCalls, SequenceTheorems, WellFoundedInduction, TLAPS

Procs == [state : States, parent : Nat, priority : Nat, status : Nat]

\* The CPU is only ever given to a user process.
Scheduled ==
    /\ procs \in [Users -> Procs]
    /\ ready \in Seq(Users)
    /\ machine = "on" => current \in Users
    /\ doing \in [Users -> {"tramp", "user", "wait", "terminate"}]
    /\ s1 \in [Users -> Nat]

\* What a process in Terminate has in s1 when it quits at last.
Ending ==
    /\ \A p \in Users : doing[p] = "terminate" => s1[p] = p
    /\ EndsAsAsked

-----------------------------------------------------------------------------
\* A set of natural numbers that is not empty has a least element.
LEMMA Least ==
    ASSUME NEW T \in SUBSET Nat, T # {}
    PROVE  \E x \in T : \A y \in T : x <= y
<1> DEFINE R == {r \in Nat \X Nat : r[1] < r[2]}
<1>1. R = OpToRel(<, Nat)
  BY DEF OpToRel
<1>2. IsWellFoundedOn(R, Nat)
  BY <1>1, NatLessThanWellFounded
<1>3. PICK x \in T : \A y \in T : ~ (<<y, x>> \in R)
  BY <1>2, WFMin
<1>4. ASSUME NEW y \in T, ~(x <= y)
      PROVE  <<y, x>> \in R
  BY <1>4
<1> QED
  BY <1>3, <1>4

\* The dispatcher finds somebody in a queue that is not empty.
LEMMA BestIsIn ==
    ASSUME NEW table \in [Users -> Procs], NEW queue \in Seq(Users),
           queue # <<>>
    PROVE  Best(table, queue) \in 1 .. Len(queue)
<1> DEFINE Prio(i) == table[queue[i]].priority
           Levels == {Prio(i) : i \in 1 .. Len(queue)}
<1>1. DOMAIN queue = 1 .. Len(queue) /\ Len(queue) \in Nat \ {0}
  BY EmptySeq, LenProperties
<1>2. \A i \in 1 .. Len(queue) : Prio(i) \in Nat
  BY ElementOfSeq DEF Procs
<1>3. Levels # {} /\ Levels \in SUBSET Nat
  <2>1. Prio(1) \in Levels
    BY <1>1
  <2> QED
    BY <2>1, <1>2
<1>4. PICK l \in Levels : \A k \in Levels : l <= k
  BY <1>3, Least
<1> DEFINE Firsts == {i \in 1 .. Len(queue) : Prio(i) = l}
<1>5. PICK i \in Firsts : \A j \in Firsts : i <= j
  <2>1. Firsts # {} /\ Firsts \in SUBSET Nat
    BY <1>4, <1>1
  <2> HIDE DEF Firsts
  <2> QED
    BY <2>1, Least
<1>6. \A j \in 1 .. Len(queue) : Prio(i) < Prio(j) \/ (Prio(i) = Prio(j) /\ i <= j)
  <2> SUFFICES ASSUME NEW j \in 1 .. Len(queue)
               PROVE  Prio(i) < Prio(j) \/ (Prio(i) = Prio(j) /\ i <= j)
    OBVIOUS
  <2>1. Prio(i) = l /\ l <= Prio(j) /\ l \in Nat /\ Prio(j) \in Nat
    BY <1>2, <1>3, <1>4, <1>5
  <2>2. Prio(j) = l => i <= j
    BY <1>5
  <2> HIDE DEF Prio
  <2> QED
    BY <2>1, <2>2
<1>7. \E k \in DOMAIN queue : \A j \in DOMAIN queue :
        Prio(k) < Prio(j) \/ (Prio(k) = Prio(j) /\ k <= j)
  BY <1>1, <1>5, <1>6
<1> QED
  BY <1>1, <1>7, Zenon DEF Best

-----------------------------------------------------------------------------
\* What Dispatch and Preempt do with the CPU: if those in the queue are in S, so is
\* everybody who is ready or runs afterwards.
GoesTo(S) ==
    /\ ready' \in Seq(S)
    /\ machine' \in {"on", "deadlock"}
    /\ machine' = "on" => current' \in S

\* Dispatch gives the CPU to somebody in the queue, or to the sentinel.
LEMMA Dispatched ==
    ASSUME NEW S \in SUBSET Users,
           NEW table \in [Users -> Procs], NEW queue \in Seq(S),
           machine = "on", Dispatch(table, queue)
    PROVE  GoesTo(S)
<1>1. CASE queue = <<>>
  BY <1>1, EmptySeq DEF Dispatch, GoesTo
<1>2. CASE queue # <<>>
  <2> DEFINE i == Best(table, queue)
  <2>1. /\ current' = queue[i]
        /\ ready' = SubSeq(queue, 1, i - 1) \o SubSeq(queue, i + 1, Len(queue))
        /\ machine' = machine
    BY <1>2 DEF Dispatch
  <2>2. i \in 1 .. Len(queue) /\ Len(queue) \in Nat
    <3>1. queue \in Seq(Users)
      BY SeqMonotonic
    <3> QED
      BY <3>1, <1>2, BestIsIn, LenProperties
  <2> HIDE DEF i
  <2>3. queue[i] \in S
    BY <2>2, ElementOfSeq
  <2>4. SubSeq(queue, 1, i - 1) \in Seq(S)
    <3>1. \A k \in 1 .. i - 1 : queue[k] \in S
      BY <2>2, ElementOfSeq
    <3> QED
      BY <3>1, <2>2, SubSeqProperties
  <2>5. SubSeq(queue, i + 1, Len(queue)) \in Seq(S)
    <3>1. \A k \in i + 1 .. Len(queue) : queue[k] \in S
      BY <2>2, ElementOfSeq
    <3> QED
      BY <3>1, <2>2, SubSeqProperties
  <2>6. ready' \in Seq(S)
    BY <2>1, <2>4, <2>5, ConcatProperties
  <2> QED
    BY <2>1, <2>3, <2>6 DEF GoesTo
<1> QED
  BY <1>1, <1>2

\* Preempt does too, or leaves it where it is.
LEMMA Preempted ==
    ASSUME NEW S \in SUBSET Users,
           NEW table \in [Users -> Procs], NEW queue \in Seq(S),
           machine = "on", current \in S, Preempt(table, queue)
    PROVE  GoesTo(S)
<1>1. Append(queue, current) \in Seq(S)
  OBVIOUS
<1>2. CASE Dispatch(table, Append(queue, current))
  BY <1>1, <1>2, Dispatched
<1>3. CASE ready' = queue /\ UNCHANGED <<current, machine>>
  BY <1>3 DEF GoesTo
<1> QED
  BY <1>2, <1>3 DEF Preempt

-----------------------------------------------------------------------------
\* start3 has the CPU.
LEMMA ScheduledInit == Init => Scheduled
<1> SUFFICES ASSUME Init PROVE Scheduled
  OBVIOUS
<1> USE SystemCallAssumption DEF Init
<1>1. procs \in [Users -> Procs]
  BY DEF Procs, States, None, TestcaseMain, NoOne
<1>2. ready \in Seq(Users)
  BY EmptySeq
<1> QED
  BY <1>1, <1>2 DEF Scheduled

\* The steps that leave the scheduling to Dispatch and Preempt.
LEMMA SpawnSchedules ==
    ASSUME Scheduled, NEW func, NEW priority \in Priorities,
           NEW refusal, Spawn(func, priority, refusal)
    PROVE  Scheduled'
<1> USE SystemCallAssumption DEF Spawn, Calling, Scheduled
<1>1. CASE Refused(refusal)
  BY <1>1 DEF kernSpawn, kernelVars
<1>2. CASE ~Refused(refusal)
  <2> DEFINE new == [state |-> "ready", parent |-> current,
                     priority |-> priority, status |-> 0]
  <2>1. /\ NewPid \in Users
        /\ procs' = [procs EXCEPT ![NewPid] = new]
        /\ Preempt(procs', Append(ready, NewPid))
        /\ doing' = [doing EXCEPT ![NewPid] = "tramp"]
        /\ s1' = s1
    BY <1>2 DEF kernSpawn
  <2>2. new \in Procs
    BY DEF Procs, States
  <2>3. procs' \in [Users -> Procs]
    BY <2>1, <2>2
  <2>4. Append(ready, NewPid) \in Seq(Users)
    BY <2>1
  <2>5. GoesTo(Users)
    BY <2>1, <2>3, <2>4, Preempted
  <2> QED
    BY <2>1, <2>3, <2>5 DEF GoesTo
<1> QED
  BY <1>1, <1>2

\* A state that is set is a state.
LEMMA StateSet ==
    ASSUME procs \in [Users -> Procs], NEW u, NEW state \in States,
           SetState(u, state)
    PROVE  /\ procs' \in [Users -> Procs]
           /\ \A p \in Users : procs'[p].status = procs[p].status
           /\ \A p \in Users : procs'[p].parent = procs[p].parent
           /\ \A p \in Users : procs'[p].state \in {procs[p].state, state}
  BY DEF SetState, Procs

\* A join that waits gives the CPU away.
LEMMA JoinWaitsSchedules ==
    ASSUME Scheduled, machine = "on", JoinWaits
    PROVE  Scheduled'
<1>1. SetState(current, "joining") /\ Dispatch(procs', ready)
  BY DEF JoinWaits
<1>2. procs' \in [Users -> Procs]
  BY <1>1, StateSet DEF Scheduled, States
<1>3. GoesTo(Users)
  BY <1>1, <1>2, Dispatched DEF Scheduled
<1>4. UNCHANGED <<doing, s1>>
  BY DEF JoinWaits, phase3Vars
<1> QED
  BY <1>2, <1>3, <1>4 DEF Scheduled, GoesTo

\* quit gives it away, and may make a parent ready.
LEMMA QuitSchedules ==
    ASSUME Scheduled, machine = "on", UNCHANGED <<doing, s1>>,
           Quit(current, s1[current])
    PROVE  Scheduled'
<1> USE DEF Scheduled
<1> DEFINE parent == procs[current].parent
           joins == parent \in Users /\ procs[parent].state = "joining"
           ended == [procs EXCEPT ![current].state = "dead",
                                  ![current].status = s1[current]]
<1>1. ended \in [Users -> Procs]
  BY DEF Procs, States
<1>2. [ended EXCEPT ![parent].state = "ready"] \in [Users -> Procs]
  <2> HIDE DEF ended, parent
  <2> QED
    BY <1>1 DEF Procs, States
<1>3. CASE machine' = "error" /\ UNCHANGED <<procs, ready, current>>
  BY <1>3
<1>4. CASE procs' = ended /\ machine' = "halted" /\ UNCHANGED <<ready, current>>
  BY <1>1, <1>4
<1>5. CASE /\ procs' = IF joins THEN [ended EXCEPT ![parent].state = "ready"]
                                 ELSE ended
           /\ Dispatch(procs', IF joins THEN Append(ready, parent) ELSE ready)
  <2>1. procs' \in [Users -> Procs]
    BY <1>1, <1>2, <1>5
  <2>2. (IF joins THEN Append(ready, parent) ELSE ready) \in Seq(Users)
    OBVIOUS
  <2>3. GoesTo(Users)
    BY <1>5, <2>1, <2>2, Dispatched
  <2> QED
    BY <2>1, <2>3 DEF GoesTo
<1> QED
  BY <1>3, <1>4, <1>5, Zenon DEF Quit

\* A P that waits gives it away, a V may make somebody ready.
LEMMA SemaphoreSchedules ==
    ASSUME Scheduled, machine = "on", Rescheduled, UNCHANGED phase3Vars
    PROVE  Scheduled'
<1> USE DEF Scheduled
<1> DEFINE waits(u) == Waits(u, receivers') \/ Waits(u, senders')
           woken == {w \in Users : procs[w].state = "waiting" /\ ~waits(w)}
<1>1. UNCHANGED <<doing, s1>>
  BY DEF phase3Vars
<1>2. CASE SetState(current, "waiting") /\ Dispatch(procs', ready)
  <2>1. procs' \in [Users -> Procs]
    BY <1>2, StateSet DEF States
  <2>2. GoesTo(Users)
    BY <1>2, <2>1, Dispatched
  <2> QED
    BY <1>1, <2>1, <2>2 DEF GoesTo
<1>3. CASE UNCHANGED <<procs, ready, current, machine>>
  BY <1>1, <1>3
<1>4. ASSUME NEW w \in Users,
             SetState(w, "ready"), Preempt(procs', Append(ready, w))
      PROVE  Scheduled'
  <2>1. procs' \in [Users -> Procs]
    BY <1>4, StateSet DEF States
  <2>2. Append(ready, w) \in Seq(Users)
    OBVIOUS
  <2>3. GoesTo(Users)
    BY <1>4, <2>1, <2>2, Preempted
  <2> QED
    BY <1>1, <2>1, <2>3 DEF GoesTo
<1>5. CASE woken # {}
  <2>1. (CHOOSE w \in woken : TRUE) \in Users
    BY <1>5
  <2> QED
    BY <2>1, <1>2, <1>3, <1>4, Zenon DEF Rescheduled
<1>6. CASE woken = {}
  BY <1>2, <1>3, <1>6, Zenon DEF Rescheduled
<1> QED
  BY <1>5, <1>6

\* Every step keeps the scheduling sound.
LEMMA ScheduledNext == Scheduled /\ [Next]_callVars => Scheduled'
<1> SUFFICES ASSUME Scheduled, [Next]_callVars PROVE Scheduled'
  OBVIOUS
<1> USE SystemCallAssumption
<1>1. ASSUME NEW func \in Functions, NEW priority \in Priorities,
             NEW refusal \in {0} \cup Refusals, Spawn(func, priority, refusal)
      PROVE  Scheduled'
  BY <1>1, SpawnSchedules
<1>2. CASE tramp
  BY <1>2 DEF tramp, kernelVars, Scheduled
<1>3. CASE Wait
  BY <1>3 DEF Wait, Begin, kernelVars, Scheduled
<1>4. CASE Terminate(current)
  BY <1>4 DEF Terminate, Begin, Calling, kernelVars, Scheduled
<1>5. CASE kernWait
  <2>1. CASE JoinWaits
    BY <1>5, <2>1, JoinWaitsSchedules DEF kernWait
  <2>2. CASE ~JoinWaits
    <3>1. /\ procs' = IF Dead(current) = {} THEN procs
                      ELSE [procs EXCEPT ![Reaped(current)] = None]
          /\ doing' = [doing EXCEPT ![current] = "user"]
          /\ UNCHANGED <<ready, current, machine, s1>>
      BY <1>5, <2>2 DEF kernWait
    <3>2. None \in Procs
      BY DEF None, Procs, States, NoOne
    <3>3. procs' \in [Users -> Procs]
      BY <3>1, <3>2 DEF Scheduled
    <3> QED
      BY <3>1, <3>3 DEF Scheduled
  <2> QED
    BY <2>1, <2>2
<1>6. CASE kernTerminate
  <2>1. CASE JoinWaits
    BY <1>6, <2>1, JoinWaitsSchedules DEF kernTerminate
  <2>2. CASE /\ procs' = [procs EXCEPT ![Reaped(current)] = None]
             /\ AfterJoin(Reaped(current))
             /\ UNCHANGED <<ready, current, machine, doing>>
    <3>1. None \in Procs
      BY DEF None, Procs, States, NoOne
    <3> QED
      BY <2>2, <3>1 DEF AfterJoin, Scheduled
  <2>3. CASE Quit(current, s1[current]) /\ UNCHANGED phase3Vars
    BY <1>6, <2>3, QuitSchedules DEF kernTerminate, phase3Vars
  <2> QED
    BY <1>6, <2>1, <2>2, <2>3 DEF kernTerminate
<1>7. ASSUME NEW value \in Values, SemCreate(value)
      PROVE  Scheduled'
  BY <1>7 DEF SemCreate, kernelVars, phase3Vars, Scheduled
<1>8. ASSUME NEW s \in handles, SemP(s) \/ SemV(s)
      PROVE  Scheduled'
  BY <1>8, SemaphoreSchedules DEF SemP, SemV, Calling
<1>9. CASE SemFree
  BY <1>9 DEF SemFree, phase3Vars, Scheduled
<1>10. CASE UNCHANGED callVars
  BY <1>10 DEF callVars, kernelVars, phase3Vars, Scheduled
<1>11. CASE TimeSlice
  <2>1. Append(ready, current) \in Seq(Users) /\ machine = "on"
    BY <1>11 DEF TimeSlice, Scheduled
  <2>2. GoesTo(Users)
    BY <1>11, <2>1, Dispatched DEF TimeSlice, Scheduled
  <2> QED
    BY <1>11, <2>2 DEF TimeSlice, phase3Vars, GoesTo, Scheduled
<1> QED
  BY <1>1, <1>2, <1>3, <1>4, <1>5, <1>6, <1>7, <1>8, <1>9, <1>10, <1>11
  DEF Next, GetPID, GetTimeofDay, CPUTime, Question

-----------------------------------------------------------------------------
\* A step that lets nobody die and no status change.
LEMMA NobodyEnds ==
    ASSUME Ending, machine' # "error", UNCHANGED <<doing, s1>>,
           \A p \in Users : procs'[p].state = "dead" =>
                /\ procs[p].state = "dead"
                /\ procs'[p].status = procs[p].status
    PROVE  Ending'
  BY DEF Ending, EndsAsAsked, Alive

\* Nobody has ended.
LEMMA EndingInit == Init => Ending
  BY SystemCallAssumption DEF Init, Ending, EndsAsAsked, Alive, None

\* The new process has not ended.
LEMMA SpawnEndsNobody ==
    ASSUME Scheduled, Ending, NEW func, NEW priority \in Priorities,
           NEW refusal, Spawn(func, priority, refusal)
    PROVE  Ending'
<1> USE SystemCallAssumption DEF Spawn, Calling, Scheduled
<1>1. CASE Refused(refusal)
  BY <1>1 DEF kernSpawn, kernelVars, Ending, EndsAsAsked, Alive
<1>2. CASE ~Refused(refusal)
  <2> DEFINE new == [state |-> "ready", parent |-> current,
                     priority |-> priority, status |-> 0]
  <2>1. /\ NewPid \in Users
        /\ procs' = [procs EXCEPT ![NewPid] = new]
        /\ Preempt(procs', Append(ready, NewPid))
        /\ doing' = [doing EXCEPT ![NewPid] = "tramp"]
        /\ s1' = s1
    BY <1>2 DEF kernSpawn
  <2>2. procs' \in [Users -> Procs]
    BY <2>1, SpawnSchedules
  <2>3. Append(ready, NewPid) \in Seq(Users)
    BY <2>1
  <2>4. machine' # "error"
    BY <2>1, <2>2, <2>3, Preempted DEF GoesTo
  <2> QED
    BY <2>1, <2>4 DEF Ending, EndsAsAsked, Alive
<1> QED
  BY <1>1, <1>2

\* Nobody ends by waiting for children.
LEMMA JoinWaitsEndsNobody ==
    ASSUME Scheduled, Ending, machine = "on", JoinWaits
    PROVE  Ending'
<1>1. SetState(current, "joining") /\ Dispatch(procs', ready)
  BY DEF JoinWaits
<1>2. /\ procs' \in [Users -> Procs]
      /\ \A p \in Users : procs'[p].status = procs[p].status
      /\ \A p \in Users : procs'[p].state \in {procs[p].state, "joining"}
  BY <1>1, StateSet DEF Scheduled, States
<1>3. machine' # "error"
  BY <1>1, <1>2, Dispatched DEF GoesTo, Scheduled
<1> QED
  BY <1>2, <1>3, NobodyEnds DEF JoinWaits, phase3Vars

\* The process that quits is the one whose status is in s1, and it has no children.
LEMMA QuitEnds ==
    ASSUME Scheduled, Ending, machine = "on", UNCHANGED <<doing, s1>>,
           doing[current] = "terminate", Children(current) = {},
           Quit(current, s1[current])
    PROVE  Ending'
<1> USE DEF Scheduled
<1> DEFINE parent == procs[current].parent
           joins == parent \in Users /\ procs[parent].state = "joining"
           ended == [procs EXCEPT ![current].state = "dead",
                                  ![current].status = s1[current]]
           woken == [ended EXCEPT ![parent].state = "ready"]
<1>1. s1[current] = current /\ current \in Users
  BY DEF Ending
<1>2. /\ ended \in [Users -> Procs]
      /\ \A p \in Users : ended[p].state = "dead" => ended[p].status = p
  <2>1. ended \in [Users -> Procs]
    BY <1>1 DEF Procs, States
  <2>2. ended[current].status = current
    BY <1>1 DEF Procs
  <2>3. ASSUME NEW p \in Users \ {current}, ended[p].state = "dead"
        PROVE  ended[p].status = p
    <3>1. ended[p] = procs[p] /\ p \in Alive
      BY <2>3 DEF Alive
    <3> QED
      BY <2>3, <3>1 DEF Ending, EndsAsAsked
  <2> HIDE DEF ended
  <2> QED
    BY <2>1, <2>2, <2>3
<1>3. /\ woken \in [Users -> Procs]
      /\ \A p \in Users : woken[p].state = "dead" => woken[p].status = p
  <2> HIDE DEF ended, parent
  <2>1. woken \in [Users -> Procs]
    BY <1>2 DEF Procs, States
  <2>2. ASSUME NEW p \in Users, woken[p].state = "dead"
        PROVE  woken[p].status = p
    <3>1. ended[p].state = "dead" /\ woken[p].status = ended[p].status
      BY <2>2, <1>2 DEF Procs
    <3> QED
      BY <3>1, <1>2
  <2> QED
    BY <2>1, <2>2
<1>4. procs' \in {ended, woken}
  BY Zenon DEF Quit
<1>5. \A p \in Users : procs'[p].state = "dead" => procs'[p].status = p
  BY <1>2, <1>3, <1>4
<1>6. machine' # "error"
  <2>1. CASE machine' = "halted"
    BY <2>1
  <2>2. CASE Dispatch(procs', IF joins THEN Append(ready, parent) ELSE ready)
    <3>1. (IF joins THEN Append(ready, parent) ELSE ready) \in Seq(Users)
      OBVIOUS
    <3>2. procs' \in [Users -> Procs]
      BY <1>2, <1>3, <1>4
    <3> QED
      BY <2>2, <3>1, <3>2, Dispatched DEF GoesTo
  <2> QED
    BY <2>1, <2>2, Zenon DEF Quit
<1> QED
  BY <1>5, <1>6 DEF Ending, EndsAsAsked, Alive

\* Nobody ends by a P or a V.
LEMMA SemaphoreEndsNobody ==
    ASSUME Scheduled, Ending, machine = "on", Rescheduled, UNCHANGED phase3Vars
    PROVE  Ending'
<1> USE DEF Scheduled
<1> DEFINE waits(u) == Waits(u, receivers') \/ Waits(u, senders')
           woken == {w \in Users : procs[w].state = "waiting" /\ ~waits(w)}
<1>1. UNCHANGED <<doing, s1>>
  BY DEF phase3Vars
<1>2. CASE SetState(current, "waiting") /\ Dispatch(procs', ready)
  <2>1. /\ procs' \in [Users -> Procs]
        /\ \A p \in Users : procs'[p].status = procs[p].status
        /\ \A p \in Users : procs'[p].state \in {procs[p].state, "waiting"}
    BY <1>2, StateSet DEF States
  <2>2. machine' # "error"
    BY <1>2, <2>1, Dispatched DEF GoesTo
  <2> QED
    BY <1>1, <2>1, <2>2, NobodyEnds
<1>3. CASE UNCHANGED <<procs, ready, current, machine>>
  BY <1>1, <1>3, NobodyEnds
<1>4. ASSUME NEW w \in Users,
             SetState(w, "ready"), Preempt(procs', Append(ready, w))
      PROVE  Ending'
  <2>1. /\ procs' \in [Users -> Procs]
        /\ \A p \in Users : procs'[p].status = procs[p].status
        /\ \A p \in Users : procs'[p].state \in {procs[p].state, "ready"}
    BY <1>4, StateSet DEF States
  <2>2. Append(ready, w) \in Seq(Users)
    OBVIOUS
  <2>3. machine' # "error"
    BY <1>4, <2>1, <2>2, Preempted DEF GoesTo
  <2> QED
    BY <1>1, <2>1, <2>3, NobodyEnds
<1>5. CASE woken # {}
  <2>1. (CHOOSE w \in woken : TRUE) \in Users
    BY <1>5
  <2> QED
    BY <2>1, <1>2, <1>3, <1>4, Zenon DEF Rescheduled
<1>6. CASE woken = {}
  BY <1>2, <1>3, <1>6, Zenon DEF Rescheduled
<1> QED
  BY <1>5, <1>6

\* Every step keeps the statuses.
LEMMA EndingNext == Scheduled /\ Ending /\ [Next]_callVars => Ending'
<1> SUFFICES ASSUME Scheduled, Ending, [Next]_callVars PROVE Ending'
  OBVIOUS
<1> USE SystemCallAssumption
<1>0. machine # "error"
  BY DEF Ending, EndsAsAsked
<1>1. ASSUME NEW func \in Functions, NEW priority \in Priorities,
             NEW refusal \in {0} \cup Refusals, Spawn(func, priority, refusal)
      PROVE  Ending'
  BY <1>1, SpawnEndsNobody
<1>2. CASE tramp
  BY <1>2 DEF tramp, kernelVars, Scheduled, Ending, EndsAsAsked, Alive
<1>3. CASE Wait
  BY <1>3 DEF Wait, Begin, kernelVars, Scheduled, Ending, EndsAsAsked, Alive
<1>4. CASE Terminate(current)
  BY <1>4 DEF Terminate, Begin, Calling, kernelVars, Scheduled, Ending,
              EndsAsAsked, Alive
<1>5. CASE kernWait
  <2>1. CASE JoinWaits
    BY <1>5, <2>1, JoinWaitsEndsNobody DEF kernWait
  <2>2. CASE ~JoinWaits
    <3>1. /\ procs' = IF Dead(current) = {} THEN procs
                      ELSE [procs EXCEPT ![Reaped(current)] = None]
          /\ doing' = [doing EXCEPT ![current] = "user"]
          /\ UNCHANGED <<machine, s1>>
      BY <1>5, <2>2 DEF kernWait
    <3>2. None.state = "none"
      BY DEF None
    <3> QED
      BY <3>1, <3>2 DEF Scheduled, Ending, EndsAsAsked, Alive
  <2> QED
    BY <2>1, <2>2
<1>6. CASE kernTerminate
  <2>1. CASE JoinWaits
    BY <1>6, <2>1, JoinWaitsEndsNobody DEF kernTerminate
  <2>2. CASE /\ procs' = [procs EXCEPT ![Reaped(current)] = None]
             /\ AfterJoin(Reaped(current))
             /\ UNCHANGED <<machine, doing>>
    <3>1. None.state = "none"
      BY DEF None
    <3> QED
      BY <2>2, <3>1, <1>0, NobodyEnds DEF AfterJoin, Scheduled
  <2>3. CASE /\ Children(current) = {}
             /\ Quit(current, s1[current]) /\ UNCHANGED phase3Vars
    BY <1>6, <2>3, QuitEnds DEF kernTerminate, phase3Vars
  <2> QED
    BY <1>6, <2>1, <2>2, <2>3 DEF kernTerminate
<1>7. ASSUME NEW value \in Values, SemCreate(value)
      PROVE  Ending'
  BY <1>7, <1>0, NobodyEnds DEF SemCreate, kernelVars, phase3Vars
<1>8. ASSUME NEW s \in handles, SemP(s) \/ SemV(s)
      PROVE  Ending'
  BY <1>8, SemaphoreEndsNobody DEF SemP, SemV, Calling
<1>9. CASE SemFree
  BY <1>9, NobodyEnds DEF SemFree, phase3Vars
<1>10. CASE UNCHANGED callVars
  BY <1>10, <1>0, NobodyEnds DEF callVars, kernelVars, phase3Vars
<1>11. CASE TimeSlice
  <2>1. Append(ready, current) \in Seq(Users) /\ machine = "on"
    BY <1>11 DEF TimeSlice, Scheduled
  <2>2. machine' # "error"
    BY <1>11, <2>1, Dispatched DEF TimeSlice, Scheduled, GoesTo
  <2> QED
    BY <1>11, <2>2, NobodyEnds DEF TimeSlice, phase3Vars
<1> QED
  BY <1>1, <1>2, <1>3, <1>4, <1>5, <1>6, <1>7, <1>8, <1>9, <1>10, <1>11
  DEF Next, GetPID, GetTimeofDay, CPUTime, Question

\* A process ends with its own status, whatever children it has joined on the way,
\* and the kernel never finds that a process with children quits.
THEOREM StatusesKept == Spec => []EndsAsAsked
<1>1. Init => Scheduled /\ Ending
  BY ScheduledInit, EndingInit
<1>2. Scheduled /\ Ending /\ [Next]_callVars => (Scheduled /\ Ending)'
  BY ScheduledNext, EndingNext
<1>3. Ending => EndsAsAsked
  BY DEF Ending
<1> QED
  BY <1>1, <1>2, <1>3, PTL DEF Spec

-----------------------------------------------------------------------------
(***************************************************************************)
(* The two counters of PIDs.                                               *)
(***************************************************************************)

\* No slot is used twice, though the table may get full.
PidsFit == \A u \in Users : u <= MAXPROC

\* The processes that there have been.
Given == {p \in Users : p < nextPid}

\* While no slot is, PIDs are given in order, and phase 3's counter is never behind
\* the kernel's.  As long as it is not ahead either, the entry of a process that is
\* about to begin is the function it shall run.
InStep ==
    /\ nextPid \in Start3 + 1 .. MAXPROC + 1
    /\ pidCounter \in Nat /\ pidCounter >= nextPid
    /\ Alive \subseteq Given
    /\ ready \in Seq(Given)
    /\ machine = "on" => current \in Given
    /\ shadowProcessTable =
           [i \in 0 .. MAXPROC - 1 |-> shadowProcessTable[i]]
    /\ asked = [p \in Users |-> asked[p]]
    /\ runs = [p \in Users |-> runs[p]]
    /\ \A p \in Users : doing[p] = "tramp" => p < nextPid
    /\ pidCounter = nextPid => \A p \in Users :
            /\ doing[p] = "tramp" => getProcess(p) = asked[p]
            /\ runs[p] \in {NotStarted, asked[p]}

\* Users have slots of their own.
LEMMA OwnSlots ==
    ASSUME PidsFit
    PROVE  /\ \A p \in Users : p % MAXPROC \in 0 .. MAXPROC - 1
           /\ \A p, q \in Users : p % MAXPROC = q % MAXPROC => p = q
           /\ \A p \in Users : p % MAXPROC \notin {1, Sentinel, TestcaseMain}
<1> USE SystemCallAssumption DEF Start3, Sentinel, TestcaseMain
<1>1. MAXPROC \in Nat /\ MAXPROC > 4 /\ MAXPROC % MAXPROC = 0
  OBVIOUS
<1>2. \A p \in Users : /\ p \in Nat /\ p >= 4 /\ p <= MAXPROC
                       /\ p % MAXPROC = IF p = MAXPROC THEN 0 ELSE p
  BY <1>1 DEF PidsFit
<1> QED
  BY <1>1, <1>2

\* fork1 gives the PID that the kernel has counted, if a process may have it.
LEMMA ExpectedPid ==
    ASSUME PidsFit, InStep, Open # {}, NewPid \in Users
    PROVE  NewPid = nextPid
<1> USE SystemCallAssumption DEF Start3, Sentinel, TestcaseMain
<1>1. nextPid \in Nat /\ nextPid > 4 /\ MAXPROC \in Nat \ {0}
  BY DEF InStep
<1>2. \A n \in Open : n \in Nat /\ n >= nextPid
  BY <1>1 DEF Open
<1>3. NewPid \in Open /\ \A m \in Open : NewPid <= m
  <2>1. Open \in SUBSET Nat
    BY <1>2
  <2>2. \E n \in Open : \A m \in Open : n <= m
    BY <2>1, Least
  <2> QED
    BY <2>2, Zenon DEF NewPid
<1>4. nextPid <= MAXPROC
  BY <1>1, <1>2, <1>3 DEF PidsFit
<1>5. nextPid % MAXPROC = IF nextPid = MAXPROC THEN 0 ELSE nextPid
  BY <1>1, <1>4
<1>6. \A p \in Alive : /\ p \in Nat /\ p > 3 /\ p < nextPid
                       /\ p % MAXPROC = p
  <2> SUFFICES ASSUME NEW p \in Alive
               PROVE  /\ p \in Nat /\ p > 3 /\ p < nextPid
                      /\ p % MAXPROC = p
    OBVIOUS
  <2>1. p \in Nat /\ p >= 4 /\ p < nextPid
    BY DEF InStep, Given, Alive
  <2> QED
    BY <1>1, <1>4, <2>1
<1>7. nextPid % MAXPROC \notin Taken
  BY <1>1, <1>5, <1>6 DEF Taken
<1>8. nextPid \in Open
  BY <1>1, <1>7 DEF Open
<1> QED
  BY <1>1, <1>2, <1>3, <1>8

\* The counters begin in step.
LEMMA InStepInit == Init => InStep
<1> SUFFICES ASSUME Init PROVE InStep
  OBVIOUS
<1> USE SystemCallAssumption DEF Init, Start3
<1>1. Start3 \in Given /\ Alive \subseteq Given
  BY DEF Given, Alive, None
<1>2. ready \in Seq(Given)
  BY EmptySeq
<1>3. nextPid \in Start3 + 1 .. MAXPROC + 1 /\ pidCounter = nextPid
  OBVIOUS
<1>4. \A p \in Users : runs[p] \in {NotStarted, asked[p]}
  OBVIOUS
<1> QED
  BY <1>1, <1>2, <1>3, <1>4 DEF InStep

\* A step that makes no process.
LEMMA StaysInStep ==
    ASSUME InStep,
           UNCHANGED <<nextPid, pidCounter, shadowProcessTable, asked, runs>>,
           \A p \in Users : doing'[p] = "tramp" => doing[p] = "tramp",
           \A p \in Users : procs'[p].state # "none" => p \in Given,
           ready' \in Seq(Given), machine' = "on" => current' \in Given
    PROVE  InStep'
<1>1. Given' = Given /\ Alive' \subseteq Given'
  BY DEF Given, Alive
<1>2. \A p \in Users : getProcess(p)' = getProcess(p)
  BY DEF getProcess
<1> QED
  BY <1>1, <1>2 DEF InStep

\* A Spawn that is refused moves phase 3's counter only.
LEMMA RefusedInStep ==
    ASSUME InStep, NEW func, NEW priority, NEW refusal,
           Spawn(func, priority, refusal), Refused(refusal)
    PROVE  InStep' /\ pidCounter' # nextPid'
<1>1. /\ UNCHANGED <<procs, ready, current, nextPid, machine, doing, asked, runs>>
      /\ shadowProcessTable' =
             [shadowProcessTable EXCEPT ![pidCounter % MAXPROC] = func]
      /\ pidCounter' = pidCounter + 1
  BY DEF Spawn, kernSpawn, createShadowProcess, kernelVars
<1>2. /\ pidCounter' \in Nat /\ pidCounter' > nextPid'
      /\ nextPid' \in Start3 + 1 .. MAXPROC + 1
  BY <1>1, SystemCallAssumption DEF InStep, Start3
<1>3. Given' = Given /\ Alive' = Alive
  BY <1>1 DEF Given, Alive
<1>4. shadowProcessTable' = [i \in 0 .. MAXPROC - 1 |-> shadowProcessTable'[i]]
  BY <1>1 DEF InStep
<1>5. pidCounter' # nextPid' /\ pidCounter' >= nextPid'
  BY <1>2, SystemCallAssumption DEF Start3
<1> QED
  BY <1>1, <1>2, <1>3, <1>4, <1>5 DEF InStep

\* Any other moves both by one, and the entry filled is that of the new PID if they
\* were in step.
LEMMA SpawnInStep ==
    ASSUME PidsFit, Scheduled, InStep, NEW func, NEW priority \in Priorities,
           NEW refusal, Spawn(func, priority, refusal), ~Refused(refusal)
    PROVE  InStep' /\ (pidCounter = nextPid => pidCounter' = nextPid')
<1> USE SystemCallAssumption DEF Spawn, Calling
<1> DEFINE new == [state |-> "ready", parent |-> current,
                   priority |-> priority, status |-> 0]
           slot == pidCounter % MAXPROC
<1>1. /\ nextPid \in Nat /\ nextPid > 4 /\ nextPid \in Users /\ nextPid <= MAXPROC
      /\ procs' = [procs EXCEPT ![nextPid] = new]
      /\ nextPid' = nextPid + 1
      /\ Preempt(procs', Append(ready, nextPid))
      /\ doing' = [doing EXCEPT ![nextPid] = "tramp"]
      /\ asked' = [asked EXCEPT ![nextPid] = func]
      /\ runs' = [runs EXCEPT ![nextPid] = NotStarted]
  <2>1. /\ NewPid \in Users
        /\ procs' = [procs EXCEPT ![NewPid] = new]
        /\ nextPid' = NewPid + 1
        /\ Preempt(procs', Append(ready, NewPid))
        /\ doing' = [doing EXCEPT ![NewPid] = "tramp"]
        /\ asked' = [asked EXCEPT ![NewPid] = func]
        /\ runs' = [runs EXCEPT ![NewPid] = NotStarted]
    BY Zenon DEF kernSpawn
  <2>2. Open # {}
    BY DEF Refused
  <2>3. NewPid = nextPid
    BY <2>1, <2>2, ExpectedPid
  <2>4. nextPid \in Nat /\ nextPid > 4
    BY DEF InStep, Start3
  <2>5. nextPid <= MAXPROC
    BY <2>1, <2>3 DEF PidsFit
  <2> QED
    BY <2>1, <2>3, <2>4, <2>5, Zenon
<1>2. /\ shadowProcessTable' = [shadowProcessTable EXCEPT ![slot] = func]
      /\ pidCounter' = pidCounter + 1
  BY DEF kernSpawn, createShadowProcess
<1>3. /\ nextPid' \in Start3 + 1 .. MAXPROC + 1
      /\ pidCounter' \in Nat /\ pidCounter' >= nextPid'
      /\ pidCounter = nextPid <=> pidCounter' = nextPid'
  BY <1>1, <1>2 DEF InStep, Start3
<1>4. Given' = Given \cup {nextPid} /\ nextPid \notin Given
  <2>1. nextPid \notin Given
    BY <1>1 DEF Given
  <2>2. ASSUME NEW p PROVE p \in Given' <=> p \in Given \cup {nextPid}
    <3>1. p \in Users => (p < nextPid + 1 <=> p < nextPid \/ p = nextPid)
      BY <1>1
    <3> QED
      BY <1>1, <3>1, Zenon DEF Given
  <2> QED
    BY <2>1, <2>2
<1>5. Alive' \subseteq Given'
  BY <1>1, <1>4 DEF Alive, InStep, Scheduled
<1>6. GoesTo(Given')
  <2>1. procs' \in [Users -> Procs]
    BY SpawnSchedules DEF Scheduled
  <2>2. Given' \in SUBSET Users
    BY <1>1, <1>4 DEF Given
  <2>3. ready \in Seq(Given')
    BY <1>4, SeqMonotonic DEF InStep
  <2>4. Append(ready, nextPid) \in Seq(Given')
    BY <2>3, <1>4
  <2>5. current \in Given'
    BY <1>4 DEF InStep
  <2> QED
    BY <1>1, <2>1, <2>2, <2>4, <2>5, Preempted
<1>7. /\ shadowProcessTable' =
             [i \in 0 .. MAXPROC - 1 |-> shadowProcessTable'[i]]
      /\ asked' = [p \in Users |-> asked'[p]]
      /\ runs' = [p \in Users |-> runs'[p]]
  BY <1>1, <1>2, Zenon DEF InStep
<1>8. ASSUME NEW p \in Users, p # nextPid
      PROVE  /\ doing'[p] = doing[p] /\ asked'[p] = asked[p] /\ runs'[p] = runs[p]
             /\ doing[p] = "tramp" => p < nextPid /\ p < nextPid'
  <2>1. doing[p] = "tramp" => p < nextPid /\ p < nextPid'
    BY <1>1 DEF InStep
  <2>2. doing'[p] = doing[p]
    BY <1>1, <1>8 DEF Scheduled
  <2>3. asked'[p] = asked[p] /\ runs'[p] = runs[p]
    BY <1>1, <1>8 DEF InStep
  <2> QED
    BY <2>1, <2>2, <2>3
<1>9. /\ doing'[nextPid] = "tramp" /\ asked'[nextPid] = func
      /\ runs'[nextPid] = NotStarted /\ nextPid < nextPid'
  BY <1>1 DEF InStep, Scheduled
<1>10. ASSUME pidCounter = nextPid, NEW p \in Users
       PROVE  /\ doing'[p] = "tramp" => getProcess(p)' = asked'[p]
              /\ runs'[p] \in {NotStarted, asked'[p]}
  <2>1. CASE p = nextPid
    <3>1. slot \in 0 .. MAXPROC - 1 /\ slot = p % MAXPROC
      BY <1>10, <2>1, OwnSlots
    <3>2. getProcess(p)' = func
      BY <1>2, <3>1 DEF getProcess, InStep
    <3> QED
      BY <1>9, <2>1, <3>2
  <2>2. CASE p # nextPid
    <3>1. p % MAXPROC # slot
      BY <1>1, <1>10, <2>2, OwnSlots
    <3>2. p % MAXPROC \in 0 .. MAXPROC - 1
      BY OwnSlots
    <3>3. getProcess(p)' = getProcess(p)
      BY <1>2, <3>1, <3>2 DEF getProcess, InStep
    <3>4. /\ doing[p] = "tramp" => getProcess(p) = asked[p]
          /\ runs[p] \in {NotStarted, asked[p]}
      BY <1>10 DEF InStep
    <3> QED
      BY <1>8, <2>2, <3>3, <3>4
  <2> QED
    BY <2>1, <2>2
<1>11. \A p \in Users : doing'[p] = "tramp" => p < nextPid'
  BY <1>8, <1>9
<1> QED
  BY <1>3, <1>5, <1>6, <1>7, <1>10, <1>11 DEF InStep, GoesTo

\* A join that waits makes no process.
LEMMA JoinWaitsInStep ==
    ASSUME Scheduled, InStep, machine = "on", JoinWaits
    PROVE  InStep'
<1>1. SetState(current, "joining") /\ Dispatch(procs', ready)
  BY DEF JoinWaits
<1>2. procs' \in [Users -> Procs]
  BY <1>1, StateSet DEF Scheduled, States
<1>3. GoesTo(Given)
  BY <1>1, <1>2, Dispatched DEF InStep, Given
<1>4. \A p \in Users : procs'[p].state # "none" => p \in Given
  BY <1>1 DEF SetState, InStep, Alive, Scheduled
<1> QED
  BY <1>3, <1>4, StaysInStep DEF JoinWaits, phase3Vars, GoesTo

\* Nor does a quit.
LEMMA QuitInStep ==
    ASSUME Scheduled, InStep, machine = "on", UNCHANGED <<nextPid, phase3Vars>>,
           Quit(current, s1[current])
    PROVE  InStep'
<1> USE DEF Scheduled
<1> DEFINE parent == procs[current].parent
           joins == parent \in Users /\ procs[parent].state = "joining"
           ended == [procs EXCEPT ![current].state = "dead",
                                  ![current].status = s1[current]]
           woken == [ended EXCEPT ![parent].state = "ready"]
<1>1. UNCHANGED <<nextPid, pidCounter, shadowProcessTable, asked, runs, doing>>
  BY DEF phase3Vars
<1>2. \A p \in Users : procs[p].state # "none" => p \in Given
  BY DEF InStep, Alive
<1>3. CASE machine' = "error" /\ UNCHANGED <<procs, ready, current>>
  BY <1>1, <1>2, <1>3, StaysInStep DEF InStep
<1>4. current \in Given /\ current \in Users
  BY DEF InStep
<1>5. /\ ended \in [Users -> Procs]
      /\ \A p \in Users : ended[p].state # "none" => p \in Given
  BY <1>2, <1>4 DEF Procs, States
<1>6. CASE procs' = ended /\ machine' = "halted" /\ UNCHANGED <<ready, current>>
  <2> HIDE DEF ended
  <2> QED
    BY <1>1, <1>5, <1>6, StaysInStep DEF InStep
<1>7. CASE /\ procs' = IF joins THEN woken ELSE ended
           /\ Dispatch(procs', IF joins THEN Append(ready, parent) ELSE ready)
  <2>1. joins => parent \in Given
    BY <1>2
  <2>2. woken \in [Users -> Procs]
    <3> HIDE DEF ended, parent
    <3> QED
      BY <1>5 DEF Procs, States
  <2>3. joins => \A p \in Users : woken[p].state # "none" => p \in Given
    <3> HIDE DEF ended, parent
    <3> QED
      BY <1>5, <2>1
  <2>4. /\ procs' \in [Users -> Procs]
        /\ \A p \in Users : procs'[p].state # "none" => p \in Given
    <3> HIDE DEF ended, woken, joins
    <3> QED
      BY <1>5, <1>7, <2>2, <2>3
  <2>5. (IF joins THEN Append(ready, parent) ELSE ready) \in Seq(Given)
    BY <2>1 DEF InStep
  <2>6. GoesTo(Given)
    BY <1>7, <2>4, <2>5, Dispatched DEF Given
  <2> QED
    BY <1>1, <2>4, <2>6, StaysInStep DEF GoesTo
<1> QED
  BY <1>3, <1>6, <1>7, Zenon DEF Quit

\* Nor do P and V.
LEMMA SemaphoreInStep ==
    ASSUME Scheduled, InStep, machine = "on", Rescheduled, UNCHANGED phase3Vars
    PROVE  InStep'
<1> USE DEF Scheduled
<1> DEFINE waits(u) == Waits(u, receivers') \/ Waits(u, senders')
           woken == {w \in Users : procs[w].state = "waiting" /\ ~waits(w)}
<1>1. UNCHANGED <<nextPid, pidCounter, shadowProcessTable, asked, runs, doing>>
  BY DEF phase3Vars, Rescheduled
<1>2. \A p \in Users : procs[p].state # "none" => p \in Given
  BY DEF InStep, Alive
<1>3. CASE SetState(current, "waiting") /\ Dispatch(procs', ready)
  <2>1. procs' \in [Users -> Procs]
    BY <1>3, StateSet DEF States
  <2>2. GoesTo(Given)
    BY <1>3, <2>1, Dispatched DEF InStep, Given
  <2>3. \A p \in Users : procs'[p].state # "none" => p \in Given
    BY <1>2, <1>3 DEF SetState, InStep
  <2> QED
    BY <1>1, <2>2, <2>3, StaysInStep DEF GoesTo
<1>4. CASE UNCHANGED <<procs, ready, current, machine>>
  BY <1>1, <1>2, <1>4, StaysInStep DEF InStep
<1>5. ASSUME NEW w \in Given,
             SetState(w, "ready"), Preempt(procs', Append(ready, w))
      PROVE  InStep'
  <2>1. procs' \in [Users -> Procs]
    BY <1>5, StateSet DEF States
  <2>2. Append(ready, w) \in Seq(Given) /\ current \in Given
    BY DEF InStep
  <2>3. GoesTo(Given)
    BY <1>5, <2>1, <2>2, Preempted DEF Given
  <2>4. \A p \in Users : procs'[p].state # "none" => p \in Given
    BY <1>2, <1>5 DEF SetState
  <2> QED
    BY <1>1, <2>3, <2>4, StaysInStep DEF GoesTo
<1>6. CASE woken # {}
  <2>1. (CHOOSE w \in woken : TRUE) \in Given
    BY <1>2, <1>6
  <2> QED
    BY <2>1, <1>3, <1>4, <1>5, Zenon DEF Rescheduled
<1>7. CASE woken = {}
  BY <1>3, <1>4, <1>7, Zenon DEF Rescheduled
<1> QED
  BY <1>6, <1>7

\* Every step keeps the counters in step.
LEMMA InStepNext ==
    ASSUME PidsFit
    PROVE  Scheduled /\ InStep /\ [Next]_callVars => InStep'
<1> SUFFICES ASSUME Scheduled, InStep, [Next]_callVars PROVE InStep'
  OBVIOUS
<1> USE SystemCallAssumption
<1>0. \A p \in Users : procs[p].state # "none" => p \in Given
  BY DEF InStep, Alive
<1>1. ASSUME NEW func \in Functions, NEW priority \in Priorities,
             NEW refusal \in {0} \cup Refusals, Spawn(func, priority, refusal)
      PROVE  InStep'
  BY <1>1, SpawnInStep, RefusedInStep
<1>2. CASE tramp
  <2>1. current \in Users
    BY <1>2 DEF tramp, Scheduled
  <2>2. runs' = [runs EXCEPT ![current] = getProcess(current)]
    BY <1>2 DEF tramp
  <2>3. UNCHANGED <<procs, ready, current, machine, nextPid, pidCounter,
                    shadowProcessTable, asked>>
    BY <1>2 DEF tramp, kernelVars
  <2>4. \A p \in Users : doing'[p] = "tramp" => doing[p] = "tramp"
    BY <1>2, <2>1 DEF tramp, Scheduled
  <2>5. runs' = [p \in Users |-> runs'[p]]
    BY <2>2, Zenon DEF InStep
  <2>6. doing[current] = "tramp"
    BY <1>2 DEF tramp
  <2>7. pidCounter = nextPid => \A p \in Users : runs'[p] \in {NotStarted, asked[p]}
    BY <2>1, <2>2, <2>6 DEF InStep
  <2>8. Given' = Given /\ Alive' = Alive /\ \A p \in Users : getProcess(p)' = getProcess(p)
    BY <2>3 DEF Given, Alive, getProcess
  <2> QED
    BY <2>3, <2>4, <2>5, <2>7, <2>8 DEF InStep
<1>3. CASE Wait
  BY <1>0, <1>3, StaysInStep DEF Wait, Begin, kernelVars, Scheduled, InStep
<1>4. CASE Terminate(current)
  BY <1>0, <1>4, StaysInStep
  DEF Terminate, Begin, kernelVars, Scheduled, InStep
<1>5. CASE kernWait
  <2>1. CASE JoinWaits
    BY <1>5, <2>1, JoinWaitsInStep DEF kernWait
  <2>2. CASE ~JoinWaits
    <3>1. /\ procs' = IF Dead(current) = {} THEN procs
                      ELSE [procs EXCEPT ![Reaped(current)] = None]
          /\ doing' = [doing EXCEPT ![current] = "user"]
          /\ UNCHANGED <<ready, current, machine, nextPid, pidCounter,
                         shadowProcessTable, asked, runs>>
      BY <1>5, <2>2 DEF kernWait
    <3>2. \A p \in Users : procs'[p].state # "none" => p \in Given
      BY <3>1, <1>0 DEF None, Scheduled
    <3>3. \A p \in Users : doing'[p] = "tramp" => doing[p] = "tramp"
      BY <3>1 DEF Scheduled
    <3> QED
      BY <3>1, <3>2, <3>3, StaysInStep DEF InStep
  <2> QED
    BY <2>1, <2>2
<1>6. CASE kernTerminate
  <2>1. CASE JoinWaits
    BY <1>6, <2>1, JoinWaitsInStep DEF kernTerminate
  <2>2. CASE /\ procs' = [procs EXCEPT ![Reaped(current)] = None]
             /\ UNCHANGED <<ready, current, nextPid, machine,
                            shadowProcessTable, pidCounter, doing, asked, runs>>
    <3>1. \A p \in Users : procs'[p].state # "none" => p \in Given
      BY <2>2, <1>0 DEF None, Scheduled
    <3> QED
      BY <2>2, <3>1, StaysInStep DEF InStep
  <2>3. CASE Quit(current, s1[current]) /\ UNCHANGED <<nextPid, phase3Vars>>
    BY <1>6, <2>3, QuitInStep DEF kernTerminate
  <2> QED
    BY <1>6, <2>1, <2>2, <2>3 DEF kernTerminate
<1>7. ASSUME NEW value \in Values, SemCreate(value)
      PROVE  InStep'
  BY <1>0, <1>7, StaysInStep DEF SemCreate, kernelVars, phase3Vars, InStep
<1>8. ASSUME NEW s \in handles, SemP(s) \/ SemV(s)
      PROVE  InStep'
  BY <1>8, SemaphoreInStep DEF SemP, SemV, Calling
<1>9. CASE SemFree
  BY <1>0, <1>9, StaysInStep DEF SemFree, phase3Vars, InStep
<1>10. CASE UNCHANGED callVars
  BY <1>0, <1>10, StaysInStep DEF callVars, kernelVars, phase3Vars, InStep
<1>11. CASE TimeSlice
  <2>1. Append(ready, current) \in Seq(Given) /\ machine = "on"
    BY <1>11 DEF TimeSlice, InStep
  <2>2. GoesTo(Given)
    BY <1>11, <2>1, Dispatched DEF TimeSlice, Scheduled, Given
  <2> QED
    BY <1>0, <1>11, <2>2, StaysInStep DEF TimeSlice, phase3Vars, GoesTo
<1> QED
  BY <1>1, <1>2, <1>3, <1>4, <1>5, <1>6, <1>7, <1>8, <1>9, <1>10, <1>11
  DEF Next, GetPID, GetTimeofDay, CPUTime, Question

\* As long as no slot is used twice and every Spawn has made a process, a process runs
\* the function that it was spawned with, whether the table is full or not.
THEOREM FunctionsKept ==
    ASSUME PidsFit
    PROVE  Spec => []OwnFunctionInStep
<1>1. Init => Scheduled /\ InStep
  BY ScheduledInit, InStepInit
<1>2. Scheduled /\ InStep /\ [Next]_callVars => (Scheduled /\ InStep)'
  BY ScheduledNext, InStepNext
<1>3. InStep => OwnFunctionInStep
  BY DEF InStep, OwnFunctionInStep, OwnFunction, Alive
<1> QED
  BY <1>1, <1>2, <1>3, PTL DEF Spec

\* A Spawn of which fork1 makes no process.
SpawnFails ==
    \E func \in Functions, priority \in Priorities, refusal \in {0} \cup Refusals :
        Spawn(func, priority, refusal) /\ Refused(refusal)

\* It alone parts the two counters, and it always does: no other call, switch of the
\* CPU or time slice makes phase 3 expect a PID that the kernel will not give.
THEOREM FailuresPartCounters ==
    ASSUME PidsFit
    PROVE  Spec => [][pidCounter = nextPid => (pidCounter' # nextPid' <=> SpawnFails)]_callVars
<1>1. Init => Scheduled /\ InStep
  BY ScheduledInit, InStepInit
<1>2. Scheduled /\ InStep /\ [Next]_callVars => (Scheduled /\ InStep)'
  BY ScheduledNext, InStepNext
<1>3. ASSUME Scheduled, InStep, [Next]_callVars, pidCounter = nextPid,
             ~ UNCHANGED callVars
      PROVE  pidCounter' # nextPid' <=> SpawnFails
  <2>1. SpawnFails => pidCounter' # nextPid'
    BY <1>3, RefusedInStep DEF SpawnFails
  <2>2. ASSUME NEW func \in Functions, NEW priority \in Priorities,
               NEW refusal \in {0} \cup Refusals, Spawn(func, priority, refusal),
               ~SpawnFails
        PROVE  pidCounter' = nextPid'
    <3>1. ~Refused(refusal)
      BY <2>2 DEF SpawnFails
    <3> QED
      BY <1>3, <2>2, <3>1, SpawnInStep
  <2>3. ASSUME UNCHANGED <<nextPid, pidCounter>>
        PROVE  pidCounter' = nextPid'
    BY <1>3, <2>3
  <2>4. ASSUME tramp \/ Wait \/ Terminate(current) \/ kernWait \/ kernTerminate
        PROVE  pidCounter' = nextPid'
    <3>1. CASE tramp \/ Wait \/ Terminate(current)
      BY <2>3, <3>1 DEF tramp, Wait, Terminate, Begin, kernelVars
    <3>2. CASE kernWait \/ kernTerminate
      BY <2>3, <3>2 DEF kernWait, kernTerminate, JoinWaits, phase3Vars
    <3> QED
      BY <2>4, <3>1, <3>2
  <2>5. ASSUME NEW value \in Values, SemCreate(value)
        PROVE  pidCounter' = nextPid'
    BY <2>3, <2>5 DEF SemCreate, kernelVars, phase3Vars
  <2>6. ASSUME NEW s \in handles, SemP(s) \/ SemV(s)
        PROVE  pidCounter' = nextPid'
    BY <2>3, <2>6 DEF SemP, SemV, Rescheduled, phase3Vars
  <2>7. ASSUME SemFree \/ GetPID \/ GetTimeofDay \/ CPUTime \/ TimeSlice
        PROVE  pidCounter' = nextPid'
    BY <2>3, <2>7 DEF SemFree, GetPID, GetTimeofDay, CPUTime, Question, TimeSlice,
                      callVars, kernelVars, phase3Vars
  <2> QED
    <3>1. Next
      BY <1>3
    <3>2. ~SpawnFails => pidCounter' = nextPid'
      BY <2>2, <2>4, <2>5, <2>6, <2>7, <3>1, Zenon DEF Next
    <3> QED
      BY <2>1, <3>2
<1>4. Scheduled /\ InStep /\ [Next]_callVars
        => [pidCounter = nextPid => (pidCounter' # nextPid' <=> SpawnFails)]_callVars
  BY <1>3
<1> QED
  BY <1>1, <1>2, <1>4, PTL DEF Spec
-----------------------------------------------------------------------------
(***************************************************************************)
(* Semaphores: the value of a semaphore agrees with the line at its        *)
(* mailbox, and SemCreate, SemP and SemV implement counting semaphores,    *)
(* whatever else the users do.                                             *)
(***************************************************************************)

\* Entries are taken in order and never given back; each has a mailbox of its own,
\* or none; mailboxes not made yet are empty.
Entries ==
    /\ semCounter \in Nat /\ semCounter <= MAXSEMS
    /\ nextMbox \in Devices .. MAXMBOX
    /\ semaphoreTable \in [Sems -> Semaphore]
    /\ \A i \in Sems : semaphoreTable[i].mboxID = 0 <=> i >= semCounter
    /\ \A i \in Sems : semaphoreTable[i].mboxID < nextMbox
    /\ \A i, j \in Sems : /\ i # j
                          /\ semaphoreTable[i].mboxID \in Mboxes
                          => semaphoreTable[i].mboxID # semaphoreTable[j].mboxID
    /\ handles \subseteq {i \in Sems : i < semCounter}

Lines ==
    /\ receivers \in [Mboxes -> Seq(Users)]
    /\ senders \in [Mboxes -> Seq(Users)]
    /\ \A b \in Mboxes : senders[b] = <<>>
    /\ \A b \in Mboxes : b >= nextMbox => receivers[b] = <<>>

\* What a semaphore's value says, with a mailbox and without.
Counts ==
    \A s \in handles :
        IF NoMbox(s) THEN semaphoreTable[s].value >= 0
        ELSE Len(receivers[semaphoreTable[s].mboxID]) =
                 IF semaphoreTable[s].value < 0 THEN -semaphoreTable[s].value ELSE 0

Inv == Entries /\ Lines /\ Counts

-----------------------------------------------------------------------------
\* The tables begin empty.
LEMMA InvInit == SemInit => Inv
<1> SUFFICES ASSUME SemInit PROVE Inv
  OBVIOUS
<1> USE SemaphoreAssumption DEF SemInit
<1>1. Entries
  BY DEF Entries, Sems, Mboxes, Semaphore, Devices
<1>2. Lines
  BY DEF Lines, Mboxes
<1>3. Counts
  BY DEF Counts
<1> QED
  BY <1>1, <1>2, <1>3 DEF Inv

\* The first free entry is the one that semCounter counts up to.
LEMMA FirstFree ==
    ASSUME Entries
    PROVE  /\ FreeSems = {i \in Sems : i >= semCounter}
           /\ FreeSems # {} =>
                /\ semCounter \in Sems
                /\ (CHOOSE i \in FreeSems : \A j \in FreeSems : i <= j) = semCounter
<1> USE SemaphoreAssumption
<1>1. FreeSems = {i \in Sems : i >= semCounter}
  BY DEF Entries, FreeSems
<1>2. ASSUME FreeSems # {}
      PROVE  semCounter \in FreeSems
  BY <1>1, <1>2 DEF Entries, Sems
<1>3. ASSUME FreeSems # {}
      PROVE  (CHOOSE i \in FreeSems : \A j \in FreeSems : i <= j) = semCounter
  <2>1. \A i \in FreeSems : (\A j \in FreeSems : i <= j) <=> i = semCounter
    BY <1>1, <1>2, <1>3 DEF Entries, Sems
  <2> QED
    BY <1>2, <1>3, <2>1
<1> QED
  BY <1>1, <1>2, <1>3

\* What SemCreate does to the tables.
LEMMA Created ==
    ASSUME Inv, NEW value \in Values, kernSemCreate(value)
    PROVE  \/ /\ FreeSems = {}
              /\ UNCHANGED <<semaphoreTable, semCounter, handles, receivers, senders>>
              /\ nextMbox' \in nextMbox .. MAXMBOX
           \/ /\ semCounter \in Sems
              /\ semCounter' = semCounter + 1
              /\ \E id \in {-1} \cup {b \in Mboxes : b = nextMbox} :
                    /\ semaphoreTable' = [semaphoreTable EXCEPT ![semCounter] =
                                             [mboxID |-> id, value |-> value]]
                    /\ id \in Mboxes => nextMbox' = nextMbox + 1
              /\ nextMbox' \in nextMbox .. MAXMBOX
              /\ handles' = IF value < 0 THEN handles ELSE handles \cup {semCounter}
              /\ UNCHANGED <<receivers, senders>>
<1> USE SemaphoreAssumption
<1>1. /\ nextMbox' \in nextMbox .. MAXMBOX
      /\ MboxCreate \in {-1} \cup {b \in Mboxes : b = nextMbox}
      /\ MboxCreate \in Mboxes => nextMbox' = nextMbox + 1
  BY DEF kernSemCreate, MboxCreate, Inv, Entries, Mboxes, Devices
<1>2. CASE FreeSems = {}
  BY <1>1, <1>2 DEF kernSemCreate, semCreate, SemCreateFails
<1>3. CASE FreeSems # {}
  <2>1. semCounter \in Sems /\ semCounter \in Nat
    BY <1>3, FirstFree DEF Inv, Entries
  <2>2. /\ semaphoreTable' = [semaphoreTable EXCEPT ![semCounter] =
                                 [mboxID |-> MboxCreate, value |-> value]]
        /\ semCounter' = semCounter + 1
    BY <1>3, FirstFree DEF Inv, kernSemCreate, semCreate
  <2>3. handles' = IF value < 0 THEN handles ELSE handles \cup {semCounter}
    BY <1>3, <2>1, <2>2 DEF kernSemCreate, SemCreateFails
  <2> QED
    BY <1>1, <2>1, <2>2, <2>3 DEF kernSemCreate
<1> QED
  BY <1>2, <1>3

\* SemCreate keeps the invariant.
LEMMA InvCreate ==
    ASSUME Inv, NEW value \in Values, kernSemCreate(value)
    PROVE  Inv'
<1> USE SemaphoreAssumption
<1>1. CASE /\ FreeSems = {}
           /\ UNCHANGED <<semaphoreTable, semCounter, handles, receivers, senders>>
           /\ nextMbox' \in nextMbox .. MAXMBOX
  <2>1. Entries'
    BY <1>1 DEF Inv, Entries, Sems, Semaphore, Mboxes, Devices
  <2>2. Lines'
    BY <1>1 DEF Inv, Entries, Lines, Mboxes, Devices
  <2>3. Counts'
    BY <1>1 DEF Inv, Counts, NoMbox
  <2> QED
    BY <2>1, <2>2, <2>3 DEF Inv
<1>2. ASSUME NEW id \in {-1} \cup {b \in Mboxes : b = nextMbox},
             semCounter \in Sems,
             semCounter' = semCounter + 1,
             semaphoreTable' = [semaphoreTable EXCEPT ![semCounter] =
                                   [mboxID |-> id, value |-> value]],
             id \in Mboxes => nextMbox' = nextMbox + 1,
             nextMbox' \in nextMbox .. MAXMBOX,
             handles' = IF value < 0 THEN handles ELSE handles \cup {semCounter},
             UNCHANGED <<receivers, senders>>
      PROVE  Inv'
  <2> DEFINE new == [mboxID |-> id, value |-> value]
  <2>1. /\ id \in {-1} \cup Mboxes /\ id # 0 /\ id \in Int /\ value \in Int
        /\ new \in Semaphore
        /\ nextMbox \in Int /\ nextMbox' \in Int /\ nextMbox <= nextMbox'
        /\ nextMbox >= Devices /\ id < nextMbox'
    BY <1>2 DEF Inv, Entries, Mboxes, Devices, Semaphore
  <2>2. \A i \in Sems :
            semaphoreTable'[i] = IF i = semCounter THEN new ELSE semaphoreTable[i]
    BY <1>2 DEF Inv, Entries
  <2>3. Entries'
    <3>1. semCounter' \in Nat /\ semCounter' <= MAXSEMS
      BY <1>2 DEF Sems, Inv, Entries
    <3>2. nextMbox' \in Devices .. MAXMBOX
      BY <1>2, <2>1 DEF Inv, Entries, Devices
    <3>3. semaphoreTable' \in [Sems -> Semaphore]
      BY <1>2, <2>1 DEF Inv, Entries
    <3>4. \A i \in Sems : semaphoreTable'[i].mboxID = 0 <=> i >= semCounter'
      BY <1>2, <2>1, <2>2 DEF Inv, Entries, Sems
    <3>5. \A i \in Sems : semaphoreTable'[i].mboxID < nextMbox'
      <4>1. ASSUME NEW i \in Sems, i # semCounter
            PROVE  semaphoreTable[i].mboxID < nextMbox'
        <5>1. semaphoreTable[i].mboxID \in Int
          BY <4>1 DEF Inv, Entries, Semaphore, Mboxes, Devices
        <5>2. semaphoreTable[i].mboxID < nextMbox
          BY <4>1 DEF Inv, Entries
        <5> QED
          BY <2>1, <5>1, <5>2
      <4> QED
        BY <2>1, <2>2, <4>1
    <3>6. ASSUME NEW i \in Sems, NEW j \in Sems, i # j,
                 semaphoreTable'[i].mboxID \in Mboxes
          PROVE  semaphoreTable'[i].mboxID # semaphoreTable'[j].mboxID
      <4>1. CASE i # semCounter /\ j # semCounter
        BY <3>6, <4>1, <2>2 DEF Inv, Entries
      <4>2. \A k \in Sems : k # semCounter => semaphoreTable[k].mboxID # nextMbox
        BY DEF Inv, Entries, Devices
      <4>3. CASE i = semCounter
        BY <3>6, <4>2, <4>3, <2>1, <2>2 DEF Mboxes, Devices
      <4>4. CASE j = semCounter
        <5>1. semaphoreTable'[j].mboxID = id /\ semaphoreTable'[i] = semaphoreTable[i]
          BY <3>6, <4>4, <2>2
        <5>2. id = -1 \/ id = nextMbox
          BY <1>2
        <5>3. -1 \notin Mboxes
          BY DEF Mboxes, Devices
        <5> QED
          BY <3>6, <4>2, <4>4, <5>1, <5>2, <5>3
      <4> QED
        BY <4>1, <4>3, <4>4
    <3>7. handles' \subseteq {i \in Sems : i < semCounter'}
      BY <1>2 DEF Inv, Entries, Sems
    <3> QED
      BY <3>1, <3>2, <3>3, <3>4, <3>5, <3>6, <3>7 DEF Entries
  <2>4. Lines'
    BY <1>2, <2>1 DEF Inv, Lines, Mboxes, Devices
  <2>5. Counts'
    <3> SUFFICES ASSUME NEW s \in handles'
                 PROVE  IF NoMbox(s)' THEN semaphoreTable'[s].value >= 0
                        ELSE Len(receivers[semaphoreTable'[s].mboxID]) =
                             IF semaphoreTable'[s].value < 0
                             THEN -semaphoreTable'[s].value ELSE 0
      BY <1>2 DEF Counts
    <3>1. CASE s \in handles
      <4>1. s \in Sems /\ s # semCounter
        BY <3>1 DEF Inv, Entries, Sems
      <4> QED
        BY <3>1, <4>1, <2>2 DEF Inv, Counts, NoMbox
    <3>2. CASE s \notin handles
      <4>1. s = semCounter /\ value >= 0
        BY <1>2, <3>2, <2>1
      <4>2. semaphoreTable'[s] = new
        BY <4>1, <1>2, <2>2
      <4>3. id \in Mboxes => receivers[id] = <<>>
        BY <1>2, <2>1 DEF Inv, Lines, Mboxes, Devices
      <4> QED
        BY <4>1, <4>2, <4>3, <2>1 DEF NoMbox
    <3> QED
      BY <3>1, <3>2
  <2> QED
    BY <2>3, <2>4, <2>5 DEF Inv
<1> QED
  BY <1>1, <1>2, Created

-----------------------------------------------------------------------------
\* The abstract state, as the refinement mapping of Counting gives it.
Permits == [s \in handles |-> IF semaphoreTable[s].value < 0 THEN 0
                              ELSE semaphoreTable[s].value]
Waiting == [s \in handles |-> IF NoMbox(s) THEN <<>>
                              ELSE receivers[semaphoreTable[s].mboxID]]

\* A change of one value, with the line at its mailbox, keeps the rest.
LEMMA OneChanged ==
    ASSUME Inv, NEW s \in handles, NEW value \in Int,
           SetValue(s, value),
           UNCHANGED <<semCounter, nextMbox, handles, senders>>,
           NEW b, b = semaphoreTable[s].mboxID,
           \/ UNCHANGED receivers
           \/ /\ b \in Mboxes
              /\ \E line \in Seq(Users) : receivers' = [receivers EXCEPT ![b] = line],
           IF b \in Mboxes
           THEN Len(receivers'[b]) = IF value < 0 THEN -value ELSE 0
           ELSE value >= 0
    PROVE  /\ Inv'
           /\ Permits' = [Permits EXCEPT ![s] = IF value < 0 THEN 0 ELSE value]
           /\ Waiting' = [Waiting EXCEPT ![s] = IF b \in Mboxes THEN receivers'[b]
                                                ELSE <<>>]
<1> USE SemaphoreAssumption
<1>1. s \in Sems /\ handles \subseteq Sems /\ semaphoreTable[s] \in Semaphore
  BY DEF Inv, Entries
<1>2. semaphoreTable'[s] = [mboxID |-> b, value |-> value]
  BY <1>1 DEF SetValue, Inv, Entries, Semaphore
<1>3. \A t \in Sems : t # s => semaphoreTable'[t] = semaphoreTable[t]
  BY <1>1 DEF SetValue, Inv, Entries
<1>4. \A t \in Sems : semaphoreTable'[t].mboxID = semaphoreTable[t].mboxID
  BY <1>2, <1>3
<1>5. semaphoreTable' \in [Sems -> Semaphore]
  BY <1>1 DEF SetValue, Inv, Entries, Semaphore
<1>6. \A t \in Sems : t # s /\ ~NoMbox(t) =>
          /\ semaphoreTable[t].mboxID # b
          /\ semaphoreTable[t].mboxID \in Mboxes
  BY <1>1 DEF Inv, Entries, NoMbox
<1>7. \A t \in Sems : t # s /\ ~NoMbox(t) =>
          receivers'[semaphoreTable[t].mboxID] = receivers[semaphoreTable[t].mboxID]
  BY <1>6 DEF Inv, Lines
<1>8. Entries'
  BY <1>4, <1>5 DEF Inv, Entries
<1>9. Lines'
  <2>1. receivers' \in [Mboxes -> Seq(Users)]
    BY DEF Inv, Lines
  <2>2. b < nextMbox /\ (b \in Mboxes => b \in Int) /\ nextMbox \in Int
    BY <1>1 DEF Inv, Entries, Mboxes, Devices
  <2>3. \A c \in Mboxes : c >= nextMbox => c # b
    BY <2>2 DEF Mboxes, Devices
  <2> QED
    BY <2>1, <2>3 DEF Inv, Lines
<1>10. \A t \in handles : NoMbox(t)' <=> NoMbox(t)
  BY <1>1, <1>4 DEF NoMbox
<1>11. Counts'
  <2> SUFFICES ASSUME NEW t \in handles
               PROVE  IF NoMbox(t)' THEN semaphoreTable'[t].value >= 0
                      ELSE Len(receivers'[semaphoreTable'[t].mboxID]) =
                           IF semaphoreTable'[t].value < 0
                           THEN -semaphoreTable'[t].value ELSE 0
    BY DEF Counts
  <2>1. CASE t = s
    BY <1>2, <2>1 DEF NoMbox
  <2>2. CASE t # s
    BY <1>1, <1>3, <1>7, <1>10, <2>2 DEF Inv, Counts
  <2> QED
    BY <2>1, <2>2
<1>12. Permits' = [Permits EXCEPT ![s] = IF value < 0 THEN 0 ELSE value]
  <2>1. \A t \in handles : t # s => semaphoreTable'[t] = semaphoreTable[t]
    BY <1>1, <1>3
  <2>2. semaphoreTable'[s].value = value
    BY <1>2
  <2> HIDE DEF SetValue
  <2>3. \A t \in handles :
            Permits'[t] = IF t = s THEN (IF value < 0 THEN 0 ELSE value) ELSE Permits[t]
    BY <2>1, <2>2 DEF Permits
  <2>4. /\ Permits = [t \in handles |-> Permits[t]]
        /\ Permits' = [t \in handles |-> Permits'[t]]
    BY DEF Permits
  <2> QED
    BY <2>3, <2>4
<1>13. Waiting' = [Waiting EXCEPT ![s] = IF b \in Mboxes THEN receivers'[b] ELSE <<>>]
  <2>1. \A t \in handles : t # s =>
            /\ NoMbox(t)' <=> NoMbox(t)
            /\ ~NoMbox(t) => receivers'[semaphoreTable'[t].mboxID] =
                                 receivers[semaphoreTable[t].mboxID]
    BY <1>1, <1>4, <1>7, <1>10
  <2>2. /\ NoMbox(s)' <=> b \notin Mboxes
        /\ semaphoreTable'[s].mboxID = b
    BY <1>2 DEF NoMbox
  <2> QED
    BY <2>1, <2>2 DEF Waiting
<1> QED
  BY <1>8, <1>9, <1>11, <1>12, <1>13 DEF Inv

\* What the invariant says of one semaphore, in the terms of the abstract state.
LEMMA Mapped ==
    ASSUME Inv, NEW s \in handles
    PROVE  /\ s \in Sems
           /\ semaphoreTable[s].value \in Int
           /\ Permits[s] = IF semaphoreTable[s].value < 0 THEN 0
                           ELSE semaphoreTable[s].value
           /\ NoMbox(s) => Waiting[s] = <<>> /\ semaphoreTable[s].value >= 0
           /\ ~NoMbox(s) =>
                LET b == semaphoreTable[s].mboxID
                IN  /\ b \in Mboxes
                    /\ Waiting[s] = receivers[b]
                    /\ receivers[b] \in Seq(Users)
                    /\ senders[b] = <<>>
                    /\ Len(receivers[b]) = IF semaphoreTable[s].value < 0
                                           THEN -semaphoreTable[s].value ELSE 0
           /\ DOMAIN Permits = handles /\ DOMAIN Waiting = handles
<1>1. s \in Sems /\ semaphoreTable[s] \in Semaphore
  BY DEF Inv, Entries
<1> QED
  BY <1>1 DEF Inv, Counts, Lines, NoMbox, Permits, Waiting, Semaphore

\* SemP keeps the invariant, and takes a permit, or joins the line, or fails.
LEMMA PSteps ==
    ASSUME Inv, NEW u \in Users, NEW s \in handles, kernSemP(u, s)
    PROVE  /\ Inv'
           /\ \/ Counting!Pass(s)
              \/ Counting!Queue(s, u)
              \/ UNCHANGED <<Permits, Waiting>>
<1> DEFINE old == semaphoreTable[s].value
           b == semaphoreTable[s].mboxID
<1> USE SemaphoreAssumption
<1>1. UNCHANGED <<semCounter, nextMbox, handles>>
  BY DEF kernSemP
<1>2. CASE /\ ~MustWait(old - 1)
           /\ SetValue(s, old - 1)
           /\ UNCHANGED <<receivers, senders>>
  <2>1. old >= 1 /\ old \in Int /\ old - 1 \in Int
    BY <1>2, Mapped DEF MustWait
  <2>2. b \in Mboxes => Len(receivers'[b]) = 0
    BY <1>2, <2>1, Mapped DEF NoMbox
  <2>3. /\ Inv'
        /\ Permits' = [Permits EXCEPT ![s] = old - 1]
        /\ Waiting' = [Waiting EXCEPT ![s] = IF b \in Mboxes THEN receivers[b]
                                             ELSE <<>>]
    BY <1>1, <1>2, <2>1, <2>2, OneChanged
  <2>4. Waiting' = Waiting
    <3>1. Waiting[s] = IF b \in Mboxes THEN receivers[b] ELSE <<>>
      BY Mapped DEF NoMbox
    <3>2. Waiting = [t \in handles |-> Waiting[t]]
      BY DEF Waiting
    <3> QED
      BY <2>3, <3>1, <3>2
  <2>5. Permits[s] = old /\ Permits' = [Permits EXCEPT ![s] = @ - 1]
    <3>1. Permits[s] = old
      BY <2>1, Mapped
    <3> QED
      BY <2>3, <3>1
  <2>6. Counting!Pass(s)
    BY <2>1, <2>4, <2>5, Mapped DEF Counting!Pass, Counting!Made, Permits, Waiting
  <2> QED
    BY <2>3, <2>6
<1>3. CASE /\ NoMbox(s)
           /\ UNCHANGED <<semaphoreTable, receivers, senders>>
  BY <1>1, <1>3 DEF Inv, Entries, Lines, Counts, NoMbox, Permits, Waiting
<1>4. CASE /\ MustWait(old - 1) /\ ~NoMbox(s)
           /\ SetValue(s, old - 1)
           /\ MboxRecv(b, u)
  <2>1. old <= 0 /\ old \in Int /\ old - 1 \in Int
    BY <1>4, Mapped DEF MustWait
  <2>2. /\ b \in Mboxes
        /\ receivers[b] \in Seq(Users)
        /\ Len(receivers[b]) = -old
        /\ senders[b] = <<>>
    BY <1>4, <2>1, Mapped
  <2>3. /\ receivers' = [receivers EXCEPT ![b] = Append(receivers[b], u)]
        /\ UNCHANGED senders
    BY <1>4, <2>2 DEF MboxRecv
  <2>4. /\ Append(receivers[b], u) \in Seq(Users)
        /\ receivers'[b] = Append(receivers[b], u)
        /\ Len(receivers'[b]) = -(old - 1)
    <3>1. Append(receivers[b], u) \in Seq(Users)
      BY <2>2
    <3>2. Len(Append(receivers[b], u)) = Len(receivers[b]) + 1
      BY <2>2
    <3>3. receivers'[b] = Append(receivers[b], u)
      BY <2>2, <2>3 DEF Inv, Lines
    <3> QED
      BY <2>1, <2>2, <3>1, <3>2, <3>3
  <2>5. /\ Inv'
        /\ Permits' = [Permits EXCEPT ![s] = 0]
        /\ Waiting' = [Waiting EXCEPT ![s] = receivers'[b]]
    <3>1. \E line \in Seq(Users) : receivers' = [receivers EXCEPT ![b] = line]
      BY <2>3, <2>4
    <3>2. Len(receivers'[b]) = IF old - 1 < 0 THEN -(old - 1) ELSE 0
      BY <2>1, <2>4
    <3>3. /\ Inv'
          /\ Permits' = [Permits EXCEPT ![s] = IF old - 1 < 0 THEN 0 ELSE old - 1]
          /\ Waiting' = [Waiting EXCEPT ![s] = IF b \in Mboxes THEN receivers'[b]
                                               ELSE <<>>]
      BY <1>1, <1>4, <2>1, <2>2, <2>3, <3>1, <3>2, OneChanged
    <3>4. (IF old - 1 < 0 THEN 0 ELSE old - 1) = 0
      BY <2>1
    <3> QED
      BY <2>2, <3>3, <3>4
  <2>6. Permits[s] = 0 /\ Waiting[s] = receivers[b]
    BY <1>4, <2>1, Mapped
  <2>7. Permits' = Permits
    BY <2>5, <2>6 DEF Permits
  <2>8. Waiting' = [Waiting EXCEPT ![s] = Append(@, u)]
    BY <2>4, <2>5, <2>6
  <2>9. Counting!Queue(s, u)
    BY <2>6, <2>7, <2>8, Mapped DEF Counting!Queue, Counting!Made, Permits, Waiting
  <2> QED
    BY <2>5, <2>9
<1> QED
  BY <1>2, <1>3, <1>4 DEF kernSemP

\* SemV keeps the invariant, and leaves a permit, or lets the first in line go.
LEMMA VSteps ==
    ASSUME Inv, NEW u \in Users, NEW s \in handles, kernSemV(u, s)
    PROVE  /\ Inv'
           /\ \/ Counting!Leave(s)
              \/ Counting!HandOver(s)
              \/ UNCHANGED <<Permits, Waiting>>
<1> DEFINE old == semaphoreTable[s].value
           b == semaphoreTable[s].mboxID
<1> USE SemaphoreAssumption
<1>1. UNCHANGED <<semCounter, nextMbox, handles>>
  BY DEF kernSemV
<1>2. CASE /\ ~SomebodyWaits(old + 1)
           /\ SetValue(s, old + 1)
           /\ UNCHANGED <<receivers, senders>>
  <2>1. old >= 0 /\ old \in Int /\ old + 1 \in Int
    BY <1>2, Mapped DEF SomebodyWaits
  <2>2. b \in Mboxes => receivers[b] \in Seq(Users) /\ Len(receivers[b]) = 0
    BY <2>1, Mapped DEF NoMbox
  <2>3. /\ Inv'
        /\ Permits' = [Permits EXCEPT ![s] = old + 1]
        /\ Waiting' = [Waiting EXCEPT ![s] = IF b \in Mboxes THEN receivers[b]
                                             ELSE <<>>]
    BY <1>1, <1>2, <2>1, <2>2, OneChanged
  <2>4. Waiting[s] = <<>>
    BY <2>2, Mapped, EmptySeq DEF NoMbox
  <2>5. Waiting' = Waiting
    <3>1. Waiting[s] = IF b \in Mboxes THEN receivers[b] ELSE <<>>
      BY Mapped DEF NoMbox
    <3>2. Waiting = [t \in handles |-> Waiting[t]]
      BY DEF Waiting
    <3> QED
      BY <2>3, <3>1, <3>2
  <2>6. Permits[s] = old /\ Permits' = [Permits EXCEPT ![s] = @ + 1]
    <3>1. Permits[s] = old
      BY <2>1, Mapped
    <3> QED
      BY <2>3, <3>1
  <2>7. Counting!Leave(s)
    BY <2>4, <2>5, <2>6, Mapped DEF Counting!Leave, Counting!Made, Permits, Waiting
  <2> QED
    BY <2>3, <2>7
<1>3. CASE /\ NoMbox(s)
           /\ UNCHANGED <<semaphoreTable, receivers, senders>>
  BY <1>1, <1>3 DEF Inv, Entries, Lines, Counts, NoMbox, Permits, Waiting
<1>4. CASE /\ SomebodyWaits(old + 1) /\ ~NoMbox(s)
           /\ SetValue(s, old + 1)
           /\ MboxSend(b, u)
  <2>1. old < 0 /\ old \in Int /\ old + 1 \in Int
    BY <1>4, Mapped DEF SomebodyWaits
  <2>2. /\ b \in Mboxes
        /\ receivers[b] \in Seq(Users)
        /\ Len(receivers[b]) = -old
        /\ receivers[b] # <<>>
    BY <1>4, <2>1, Mapped
  <2>3. /\ receivers' = [receivers EXCEPT ![b] = Tail(receivers[b])]
        /\ UNCHANGED senders
    BY <1>4, <2>2 DEF MboxSend
  <2>4. /\ Tail(receivers[b]) \in Seq(Users)
        /\ receivers'[b] = Tail(receivers[b])
        /\ Len(receivers'[b]) = IF old + 1 < 0 THEN -(old + 1) ELSE 0
    <3>1. Tail(receivers[b]) \in Seq(Users)
      BY <2>2
    <3>2. Len(Tail(receivers[b])) = Len(receivers[b]) - 1
      BY <2>2
    <3>3. receivers'[b] = Tail(receivers[b])
      BY <2>2, <2>3 DEF Inv, Lines
    <3> QED
      BY <2>1, <2>2, <3>1, <3>2, <3>3
  <2>5. /\ Inv'
        /\ Permits' = [Permits EXCEPT ![s] = 0]
        /\ Waiting' = [Waiting EXCEPT ![s] = receivers'[b]]
    <3>1. \E line \in Seq(Users) : receivers' = [receivers EXCEPT ![b] = line]
      BY <2>3, <2>4
    <3>2. Len(receivers'[b]) = IF old + 1 < 0 THEN -(old + 1) ELSE 0
      BY <2>1, <2>4
    <3>3. /\ Inv'
          /\ Permits' = [Permits EXCEPT ![s] = IF old + 1 < 0 THEN 0 ELSE old + 1]
          /\ Waiting' = [Waiting EXCEPT ![s] = IF b \in Mboxes THEN receivers'[b]
                                               ELSE <<>>]
      BY <1>1, <1>4, <2>1, <2>2, <2>3, <3>1, <3>2, OneChanged
    <3>4. (IF old + 1 < 0 THEN 0 ELSE old + 1) = 0
      BY <2>1
    <3> QED
      BY <2>2, <3>3, <3>4
  <2>6. Permits[s] = 0 /\ Waiting[s] = receivers[b]
    BY <1>4, <2>1, Mapped
  <2>7. Permits' = Permits
    BY <2>5, <2>6 DEF Permits
  <2>8. Waiting' = [Waiting EXCEPT ![s] = Tail(@)]
    BY <2>4, <2>5, <2>6
  <2>9. Counting!HandOver(s)
    BY <2>2, <2>6, <2>7, <2>8, Mapped
    DEF Counting!HandOver, Counting!Made, Permits, Waiting
  <2> QED
    BY <2>5, <2>9
<1> QED
  BY <1>2, <1>3, <1>4 DEF kernSemV

\* SemCreate makes a semaphore with the permits it was asked for, or none.
LEMMA CreateSteps ==
    ASSUME Inv, NEW value \in Values, kernSemCreate(value)
    PROVE  \/ value >= 0 /\ Counting!SemCreate(semCounter, value)
           \/ UNCHANGED <<Permits, Waiting>>
<1> USE SemaphoreAssumption
<1>1. CASE UNCHANGED <<semaphoreTable, handles, receivers>>
  BY <1>1 DEF Permits, Waiting, NoMbox
<1>2. ASSUME semCounter \in Sems,
             NEW id \in {-1} \cup {b \in Mboxes : b = nextMbox},
             semaphoreTable' = [semaphoreTable EXCEPT ![semCounter] =
                                   [mboxID |-> id, value |-> value]],
             handles' = IF value < 0 THEN handles ELSE handles \cup {semCounter},
             UNCHANGED receivers
      PROVE  \/ value >= 0 /\ Counting!SemCreate(semCounter, value)
             \/ UNCHANGED <<Permits, Waiting>>
  <2>1. \A t \in handles : /\ semaphoreTable'[t] = semaphoreTable[t]
                           /\ t # semCounter
                           /\ NoMbox(t)' <=> NoMbox(t)
    BY <1>2 DEF Inv, Entries, NoMbox, Sems
  <2>2. CASE value < 0
    BY <1>2, <2>1, <2>2 DEF Permits, Waiting
  <2>3. CASE ~(value < 0)
    <3>1. value \in Int /\ value >= 0 /\ handles' = handles \cup {semCounter}
      BY <1>2, <2>3
    <3>2. semaphoreTable'[semCounter] = [mboxID |-> id, value |-> value]
      BY <1>2 DEF Inv, Entries
    <3>3. id \in Mboxes => receivers'[id] = <<>>
      BY <1>2 DEF Inv, Entries, Lines, Mboxes, Devices
    <3>4. Permits' = [t \in handles \cup {semCounter} |->
                         IF t = semCounter THEN value ELSE Permits[t]]
      BY <2>1, <3>1, <3>2 DEF Permits
    <3>5. Waiting' = [t \in handles \cup {semCounter} |->
                         IF t = semCounter THEN <<>> ELSE Waiting[t]]
      <4>1. \A t \in handles' :
                Waiting'[t] = IF t = semCounter THEN <<>> ELSE Waiting[t]
        BY <1>2, <2>1, <3>1, <3>2, <3>3 DEF Waiting, NoMbox
      <4> QED
        BY <3>1, <4>1 DEF Waiting
    <3>6. semCounter \notin handles
      BY <2>1
    <3> QED
      BY <3>1, <3>4, <3>5, <3>6, Mapped
      DEF Counting!SemCreate, Counting!Made, Permits, Waiting
  <2> QED
    BY <2>2, <2>3
<1> QED
  BY <1>1, <1>2, Created

-----------------------------------------------------------------------------
\* Every call on a semaphore keeps the invariant and is a step of the counting
\* semaphores, or changes nothing in them.
LEMMA SemStep ==
    ASSUME Inv, [SemNext]_semVars
    PROVE  Inv' /\ [Counting!Next]_<<Permits, Waiting>>
<1>1. ASSUME NEW value \in Values, kernSemCreate(value)
      PROVE  Inv' /\ [Counting!Next]_<<Permits, Waiting>>
  <2>1. Inv'
    BY <1>1, InvCreate
  <2>2. CASE value >= 0 /\ Counting!SemCreate(semCounter, value)
    <3>1. semCounter \in Sems
      BY <1>1, <2>2, Created, FirstFree DEF Inv, Counting!SemCreate, Counting!Made,
         kernSemCreate, SemCreateFails, Permits
    <3> QED
      BY <2>1, <2>2, <3>1 DEF Counting!Next
  <2> QED
    BY <1>1, <2>1, <2>2, CreateSteps
<1>2. ASSUME NEW u \in Users, NEW s \in handles, kernSemP(u, s)
      PROVE  Inv' /\ [Counting!Next]_<<Permits, Waiting>>
  BY <1>2, PSteps, Mapped DEF Counting!Next
<1>3. ASSUME NEW u \in Users, NEW s \in handles, kernSemV(u, s)
      PROVE  Inv' /\ [Counting!Next]_<<Permits, Waiting>>
  BY <1>3, VSteps, Mapped DEF Counting!Next
<1>4. CASE UNCHANGED semVars
  BY <1>4 DEF semVars, Inv, Entries, Lines, Counts, NoMbox, Permits, Waiting
<1> QED
  BY <1>1, <1>2, <1>3, <1>4 DEF SemNext

\* What the system calls do to semaphores is what SemNext says.
LEMMA OnlySemCalls == [Next]_callVars => [SemNext]_semVars
<1> SUFFICES ASSUME [Next]_callVars PROVE [SemNext]_semVars
  OBVIOUS
<1>1. ASSUME NEW value \in Values, SemCreate(value)
      PROVE  SemNext
  BY <1>1 DEF SemCreate, SemNext
<1>2. ASSUME NEW s \in handles, SemP(s) \/ SemV(s)
      PROVE  SemNext
  BY <1>2 DEF SemP, SemV, Calling, SemNext
<1>3. CASE UNCHANGED semVars
  BY <1>3
<1>4. ASSUME NEW func \in Functions, NEW priority \in Priorities,
             NEW refusal \in {0} \cup Refusals, Spawn(func, priority, refusal)
      PROVE  UNCHANGED semVars
  BY <1>4 DEF Spawn
<1>5. CASE tramp \/ Wait \/ kernWait \/ Terminate(current) \/ kernTerminate
  BY <1>5 DEF tramp, Wait, kernWait, Terminate, Begin, kernTerminate, semVars
<1>6. CASE SemFree \/ GetPID \/ GetTimeofDay \/ CPUTime \/ TimeSlice
  BY <1>6 DEF SemFree, GetPID, GetTimeofDay, CPUTime, Question, TimeSlice, callVars,
              semVars
<1>7. CASE UNCHANGED callVars
  BY <1>7 DEF callVars, semVars
<1> QED
  BY <1>1, <1>2, <1>3, <1>4, <1>5, <1>6, <1>7 DEF Next

\* Whatever user processes do, their semaphores go through the calls of SemSpec only.
LEMMA SemaphoresUsed == Spec => SemSpec
<1>1. Init => SemInit
  BY DEF Init
<1> QED
  BY <1>1, OnlySemCalls, PTL DEF Spec, SemSpec

\* The invariant holds in every state.
LEMMA InvHolds == SemSpec => []Inv
<1>1. Inv /\ [SemNext]_semVars => Inv'
  BY SemStep
<1> QED
  BY <1>1, InvInit, PTL DEF SemSpec

\* The value of a semaphore and the queue at its mailbox never disagree: kernSemP
\* and kernSemV change the one, MboxRecv and MboxSend the other.
THEOREM ValuesCount == Spec => []ValueCountsWaiters
<1>1. Inv => ValueCountsWaiters
  BY Mapped DEF ValueCountsWaiters
<1> QED
  BY <1>1, SemaphoresUsed, InvHolds, PTL

\* The semaphores of phase 3 are counting semaphores, for any number of users, of
\* semaphores and of mailboxes, those that find no mailbox left included.
THEOREM SemaphoresImplemented == Spec => ImplementsSemaphore
<1>1. SemInit => Counting!Init
  BY DEF SemInit, Counting!Init
<1>2. Inv /\ [SemNext]_semVars => [Counting!Next]_<<Permits, Waiting>>
  BY SemStep
<1>3. [Counting!Next]_<<Permits, Waiting>> =>
          [Counting!Next]_<<[s \in handles |-> IF semaphoreTable[s].value < 0 THEN 0
                                               ELSE semaphoreTable[s].value],
                            [s \in handles |-> IF NoMbox(s) THEN <<>>
                                ELSE receivers[semaphoreTable[s].mboxID]]>>
  BY DEF Permits, Waiting
<1> QED
  BY <1>1, <1>2, <1>3, SemaphoresUsed, InvHolds, PTL
  DEF SemSpec, ImplementsSemaphore, Counting!Spec
=============================================================================
