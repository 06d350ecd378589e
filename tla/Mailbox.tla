------------------------------- MODULE Mailbox -------------------------------
(***************************************************************************)
(* The mailboxes of phase2/phase2.c: MboxCreate, MboxRelease, MboxSend,    *)
(* MboxRecv, the conditional calls, waitDevice and the interrupt handlers. *)
(*                                                                         *)
(* One process has the CPU.  Nothing here turns interrupts off, so a call  *)
(* is cut where the CPU can go to somebody else: at blockMe, unblockProc,  *)
(* and where it uses what it has read before although an interrupt handler *)
(* may have sent a message in between.  The handler runs in the process it *)
(* interrupts, on top of its calls: frames[p] is p's stack.                *)
(*                                                                         *)
(* The kernel below (the prebuilt libphase1.a) is modelled by what this    *)
(* file uses of it: blockMe stops the caller, unblockProc makes a blocked  *)
(* process ready and lets the dispatcher choose among the ready ones, all  *)
(* of one priority but the sentinel.  malloc never fails.                  *)
(***************************************************************************)
EXTENDS Integers, Sequences, FiniteSets

CONSTANTS
    Procs,            \* the slots of shadowProcessTable in use
    Sentinel,         \* the process that runs when no other can
    Uses,             \* the uses of the mailboxes: each says which calls which
                      \* process makes, and who can be interrupted
    MAXMBOX,
    MAXSLOTS,
    DeviceMbs,        \* the mailboxes made by phase2_init (0..6 in the code)
    Messages,
    Empty,            \* no message
    Size,             \* a message's size in bytes: [Messages -> Nat]
    SlotLimits,       \* the numSlots that MboxCreate is called with
    SlotSize,         \* the slotSize of every mailbox
    BufferSizes,      \* the msgMaxSize that MboxRecv is called with
    IntSize           \* sizeof(int)

AllCalls == {"MboxCreate", "MboxRelease", "MboxSend", "MboxRecv",
             "MboxCondSend", "MboxCondRecv", "waitDevice", "yield", "replace",
             "handler"}

ASSUME MailboxAssumption ==
    /\ Procs \subseteq Nat \ {0}
    /\ IsFiniteSet(Procs)
    /\ Sentinel \in Procs
    /\ Uses \subseteq [Procs -> SUBSET AllCalls]
    /\ \A use \in Uses : use[Sentinel] \subseteq {"handler"}
    /\ MAXMBOX \in Nat \ {0}
    /\ MAXSLOTS \in Nat \ {0}
    /\ DeviceMbs \subseteq 0 .. MAXMBOX - 1
    /\ Messages # {} /\ Empty \notin Messages
    /\ Size \in [Messages -> Nat]
    /\ SlotLimits \subseteq 0 .. MAXSLOTS
    /\ SlotSize \in Nat
    /\ BufferSizes \subseteq Nat
    /\ IntSize \in Nat

VARIABLES
    mbTable,              \* mailbox id -> struct MB
    messageSlots,         \* slot -> struct Message
    messageIDCounter,     \* modulo MAXSLOTS
    shadowProcessTable,   \* process -> struct Process
    buffer,               \* process -> the message last copied to its msgPtr
    frames,               \* process -> its stack of calls in progress
    status,               \* process -> "ready" or "blocked" in blockMe
    current,              \* the process that has the CPU
    fault,                \* has somebody followed a null pointer?
    calls                 \* which of the uses this is

memVars == <<mbTable, messageSlots, messageIDCounter, shadowProcessTable, buffer>>
cpuVars == <<status, current, fault, calls>>
vars == <<memVars, cpuVars, frames>>

NULL == 0
Mbs == 0 .. MAXMBOX - 1
Slots == 1 .. MAXSLOTS              \* slot s is messageSlots[s - 1]
Node == Procs \cup {NULL}

MB == [isInitialized : BOOLEAN, released : BOOLEAN, mailSlotLimit : Nat,
       mailSlotsAvailable : Int, mailSlotQueueHead : Slots \cup {NULL},
       consumerQueueHead : Node, producerQueueHead : Node]

Message == [isInitialized : BOOLEAN, message : Messages \cup {Empty},
            nextMessage : Slots \cup {NULL}]

\* isCurrent: the entry's PID is that of the process that has the slot now.
Process == [isCurrent : BOOLEAN, nextConsumerNode : Node,
            nextProducerNode : Node]

\* One call in progress: the mailbox, the message slot (m or mesRec), what was
\* passed, and where it goes on after blockMe.  No step leads out of "loop",
\* the walk of a list that is a ring.
PCs == {"find", "take", "room", "mail", "wake_consumer", "hand", "look", "copy",
        "pop", "leave", "wake_producer", "return_size", "block", "resumed",
        "free_consumers", "next_consumer", "free_producers", "next_producer",
        "loop"}
Frame == [call : AllCalls, pc : PCs, mb : Mbs,
          slot : Slots \cup {NULL}, message : Messages \cup {Empty},
          max : Nat, then : PCs]

-----------------------------------------------------------------------------
\* The kernel: who can have the CPU when status is st.
Runnable(st) ==
    LET ready  == {q \in Procs : st[q] = "ready"}
        others == ready \ {Sentinel}
    IN  IF others # {} THEN others ELSE IF ready # {} THEN ready ELSE {NULL}

Dispatch(st) == status' = st /\ current' \in Runnable(st) /\ UNCHANGED <<fault, calls>>

\* unblockProc of the PID in node q.  The PID of a process that is gone, or of
\* one that is not blocked, wakes nobody.
unblockProc(q) ==
    Dispatch(IF shadowProcessTable[q].isCurrent
             THEN [status EXCEPT ![q] = "ready"] ELSE status)

-----------------------------------------------------------------------------
\* Lists: what a walk from h along next meets, and the last nodes it comes to,
\* none if the list is a ring.
Path(next, h) ==
    LET step == [x \in DOMAIN next \cup {NULL} |->
                    IF x = NULL THEN NULL ELSE next[x]]
        at[k \in 0 .. Cardinality(DOMAIN next)] ==
            IF k = 0 THEN h ELSE step[at[k-1]]
    IN  at
Reach(next, h) == LET path == Path(next, h)
                  IN  {path[k] : k \in DOMAIN path} \ {NULL}
Tails(next, h) == {x \in Reach(next, h) : next[x] = NULL}

Links(link) == [q \in Procs |-> shadowProcessTable[q][link]]
MailLinks == [s \in Slots |-> messageSlots[s].nextMessage]

\* getProcess(getpid()): an entry left by another process is made anew.
getProcess(table, p) ==
    IF table[p].isCurrent THEN table
    ELSE [table EXCEPT ![p] = [isCurrent |-> TRUE, nextConsumerNode |-> NULL,
                               nextProducerNode |-> NULL]]

\* findOpenMbTableSlot: the first entry that is free.
OpenMbs == {b \in Mbs : /\ ~mbTable[b].isInitialized
                        /\ \A a \in 0 .. b - 1 : mbTable[a].isInitialized}

NewMb(numSlots) ==
    [isInitialized |-> TRUE, released |-> FALSE, mailSlotLimit |-> numSlots,
     mailSlotsAvailable |-> numSlots, mailSlotQueueHead |-> NULL,
     consumerQueueHead |-> NULL, producerQueueHead |-> NULL]

\* findOpenMessageSlot: the counter stays at the slot it has found.
\* Slip: the next slot is taken without a look at isInitialized.
OpenSteps_AnySlot == {0}

OpenSteps == {k \in 0 .. MAXSLOTS - 1 :
    ~messageSlots[1 + ((messageIDCounter + k) % MAXSLOTS)].isInitialized}

FirstOpen ==
    LET k == CHOOSE k \in OpenSteps : \A j \in OpenSteps : k <= j
    IN  (messageIDCounter + k) % MAXSLOTS

-----------------------------------------------------------------------------
\* The call in progress, and where it goes on.
Top(p) == Head(frames[p])
Box(p) == mbTable[Top(p).mb]

Full(p) == Box(p).mailSlotsAvailable <= 0

\* Slips: the heads of the two queues are mixed up.
FirstConsumer_OfProducers(p) == Box(p).producerQueueHead
FirstProducer_OfConsumers(p) == Box(p).consumerQueueHead

FirstConsumer(p) == Box(p).consumerQueueHead
FirstProducer(p) == Box(p).producerQueueHead

At(p, pc) == ~fault /\ current = p /\ frames[p] # <<>> /\ Top(p).pc = pc
InUserCode(p, call) ==
    ~fault /\ current = p /\ frames[p] = <<>> /\ call \in calls[p]

Enter(p, call, pc, b, m, max) ==
    frames' = [frames EXCEPT ![p] =
        <<[call |-> call, pc |-> pc, mb |-> b, slot |-> NULL, message |-> m,
           max |-> max, then |-> pc]>> \o @]
Goto(p, pc) == frames' = [frames EXCEPT ![p][1].pc = pc]
Return(p) == frames' = [frames EXCEPT ![p] = Tail(@)]
BlockThen(p, pc) ==
    frames' = [frames EXCEPT ![p][1].pc = "block", ![p][1].then = pc]

\* The current process follows a null pointer.
Crash == fault' = TRUE /\ UNCHANGED <<memVars, frames, status, current, calls>>

SetBox(p, field, value) == mbTable' = [mbTable EXCEPT ![Top(p).mb][field] = value]

\* The current process appends itself to the queue linked by link.  Its own old
\* link stays, whether it becomes the head of an empty queue or the tail.
Enqueue(p, head, link) ==
    LET first == Box(p)[head]
        table == getProcess(shadowProcessTable, p)
    IN  IF first = NULL
        THEN SetBox(p, head, p) /\ shadowProcessTable' = table
        ELSE /\ \E t \in Tails(Links(link), first) :
                    shadowProcessTable' = [table EXCEPT ![t][link] = p]
             /\ UNCHANGED mbTable

\* In a ring the search for the tail never ends.
Ring(p, head, link) == /\ Box(p)[head] # NULL
                       /\ Tails(Links(link), Box(p)[head]) = {}
                       /\ Goto(p, "loop")
                       /\ UNCHANGED <<mbTable, shadowProcessTable>>

-----------------------------------------------------------------------------
\* Sending.  A call that is refused changes nothing.
Sendable(b, m) == /\ ~mbTable[b].released
                  /\ mbTable[b].isInitialized
                  /\ Size[m] <= SlotSize

MboxSend(p) ==
    /\ InUserCode(p, "MboxSend")
    /\ \E b \in Mbs, m \in Messages :
          Sendable(b, m) /\ Enter(p, "MboxSend", "find", b, m, 0)
    /\ UNCHANGED <<memVars, cpuVars>>

MboxCondSend(p) ==
    /\ InUserCode(p, "MboxCondSend")
    /\ \E b \in Mbs, m \in Messages :
          /\ Size[m] <= SlotSize
          /\ mbTable[b].isInitialized
          /\ Enter(p, "MboxCondSend", "find", b, m, 0)
    /\ UNCHANGED <<memVars, cpuVars>>

\* phase2_clockHandler and termHandler: whoever runs, the sentinel included,
\* sends an int to the device's mailbox.  A handler is not interrupted.
Handler(p) ==
    /\ ~fault /\ current = p /\ "handler" \in calls[p]
    /\ \A i \in DOMAIN frames[p] : frames[p][i].call # "handler"
    /\ \E d \in DeviceMbs, m \in Messages :
          /\ Size[m] = IntSize
          /\ Sendable(d, m)
          /\ Enter(p, "handler", "find", d, m, 0)
    /\ UNCHANGED <<memVars, cpuVars>>

\* Without a free message slot the call fails.  MboxCondSend looks for room in
\* the mailbox before it takes the slot, MboxSend after.
FindSlot(p) ==
    /\ At(p, "find")
    /\ messageIDCounter' = IF OpenSteps = {} THEN messageIDCounter ELSE FirstOpen
    /\ IF \/ OpenSteps = {}
          \/ Top(p).call = "MboxCondSend" /\ Full(p)
       THEN Return(p)
       ELSE frames' = [frames EXCEPT ![p][1].slot = 1 + FirstOpen,
                                     ![p][1].pc = "take"]
    /\ UNCHANGED <<mbTable, messageSlots, shadowProcessTable, buffer, cpuVars>>

TakeSlot(p) ==
    /\ At(p, "take")
    /\ messageSlots' = [messageSlots EXCEPT ![Top(p).slot] =
            [isInitialized |-> TRUE, message |-> Top(p).message,
             nextMessage |-> NULL]]
    /\ Goto(p, IF Top(p).call = "MboxCondSend" THEN "wake_consumer" ELSE "room")
    /\ UNCHANGED <<mbTable, messageIDCounter, shadowProcessTable, buffer, cpuVars>>

\* A sender queues itself when the mailbox is full.  In a zero-slot mailbox it
\* always does, and goes on at once if a receiver is queued.
addToProducerQueue(p) ==
    LET zero == Box(p).mailSlotLimit = 0
    IN  /\ At(p, "room")
        /\ \/ /\ ~zero /\ ~Full(p)
              /\ Goto(p, "mail")
              /\ UNCHANGED <<mbTable, shadowProcessTable>>
           \/ /\ zero \/ Full(p)
              /\ Enqueue(p, "producerQueueHead", "nextProducerNode")
              /\ IF zero /\ FirstConsumer(p) # NULL THEN Goto(p, "hand")
                 ELSE BlockThen(p, IF zero THEN "hand" ELSE "mail")
           \/ /\ zero \/ Full(p)
              /\ Ring(p, "producerQueueHead", "nextProducerNode")
        /\ UNCHANGED <<messageSlots, messageIDCounter, buffer, cpuVars>>

\* The head leaves the producers, and the first consumer is woken.  The message
\* slot is not used, and stays taken.
HandOver(p) ==
    /\ At(p, "hand")
    /\ LET producer == FirstProducer(p)
           consumer == FirstConsumer(p)
       IN  IF producer = NULL \/ consumer = NULL THEN Crash
           ELSE /\ SetBox(p, "producerQueueHead",
                          shadowProcessTable[producer].nextProducerNode)
                /\ Return(p)
                /\ unblockProc(consumer)
                /\ UNCHANGED <<messageSlots, messageIDCounter,
                               shadowProcessTable, buffer>>

\* Slip: the walk to the tail is forgotten, the message goes behind the first.
Mailed_BehindFirst(m, first) ==
    [messageSlots EXCEPT ![IF first = NULL THEN m ELSE first].nextMessage = m,
                         ![m].nextMessage = NULL]

\* The list that begins at first, with m behind its tail.
Mailed(m, first) ==
    LET tail == IF first = NULL THEN m
                ELSE CHOOSE t \in Tails(MailLinks, first) : TRUE
    IN  [messageSlots EXCEPT ![tail].nextMessage = m, ![m].nextMessage = NULL]

addToMailQueue(p) ==
    LET m     == Top(p).slot
        first == Box(p).mailSlotQueueHead
    IN  /\ At(p, "mail")
        /\ first # NULL => Tails(MailLinks, first) # {}
        /\ mbTable' = [mbTable EXCEPT
                ![Top(p).mb].mailSlotsAvailable = @ - 1,
                ![Top(p).mb].mailSlotQueueHead = IF @ = NULL THEN m ELSE @]
        /\ messageSlots' = Mailed(m, first)
        /\ IF Top(p).call = "MboxCondSend" THEN Return(p)
                                           ELSE Goto(p, "wake_consumer")
        /\ UNCHANGED <<messageIDCounter, shadowProcessTable, buffer, cpuVars>>

\* The first consumer is woken; it stays in the queue.  MboxCondSend does this
\* before it adds the message.
WakeConsumer(p) ==
    /\ At(p, "wake_consumer")
    /\ IF FirstConsumer(p) = NULL THEN UNCHANGED cpuVars
       ELSE unblockProc(FirstConsumer(p))
    /\ IF Top(p).call = "MboxCondSend" THEN Goto(p, "mail") ELSE Return(p)
    /\ UNCHANGED memVars

-----------------------------------------------------------------------------
\* Receiving.
StartRecv(p, call, b, max) ==
    /\ InUserCode(p, call)
    /\ ~mbTable[b].released
    /\ mbTable[b].isInitialized
    /\ shadowProcessTable' = getProcess(shadowProcessTable, p)
    /\ Enter(p, call, "look", b, Empty, max)
    /\ UNCHANGED <<mbTable, messageSlots, messageIDCounter, buffer, cpuVars>>

MboxRecv(p) == \E b \in Mbs, max \in BufferSizes :
                    StartRecv(p, "MboxRecv", b, max)

waitDevice(p) == \E d \in DeviceMbs : StartRecv(p, "waitDevice", d, IntSize)

\* The caller's entry is made its own before anything is refused.
MboxCondRecv(p) ==
    /\ InUserCode(p, "MboxCondRecv")
    /\ shadowProcessTable' = getProcess(shadowProcessTable, p)
    /\ \E b \in Mbs :
          IF mbTable[b].isInitialized /\ mbTable[b].mailSlotQueueHead # NULL
          THEN Enter(p, "MboxCondRecv", "look", b, Empty, 0)
          ELSE UNCHANGED frames
    /\ UNCHANGED <<mbTable, messageSlots, messageIDCounter, buffer, cpuVars>>

\* A receiver always queues itself, and blocks if it has to wait for a message,
\* or for a sender to a zero-slot mailbox.
addToConsumerQueue(p) ==
    LET zero == Box(p).mailSlotLimit = 0 /\ Top(p).call # "MboxCondRecv"
        go   == IF zero THEN "leave" ELSE "copy"
        none == IF zero THEN FirstProducer(p) = NULL
                        ELSE Box(p).mailSlotQueueHead = NULL
    IN  /\ At(p, "look")
        /\ \/ /\ Enqueue(p, "consumerQueueHead", "nextConsumerNode")
              /\ IF none /\ Top(p).call # "MboxCondRecv"
                 THEN BlockThen(p, go) ELSE Goto(p, go)
           \/ Ring(p, "consumerQueueHead", "nextConsumerNode")
        /\ UNCHANGED <<messageSlots, messageIDCounter, buffer, cpuVars>>

\* A zero-slot mailbox: the head leaves the consumers, and that is all.
Leave(p) ==
    /\ At(p, "leave")
    /\ LET head == FirstConsumer(p)
       IN  IF head = NULL THEN Crash
           ELSE /\ SetBox(p, "consumerQueueHead",
                          shadowProcessTable[head].nextConsumerNode)
                /\ Return(p)
                /\ UNCHANGED <<messageSlots, messageIDCounter,
                               shadowProcessTable, buffer, cpuVars>>

\* The first message goes to the caller's buffer and its slot is free.  One that
\* is too large for the buffer makes MboxRecv return -1, with the caller still
\* among the consumers.
CopyMail(p) ==
    /\ At(p, "copy")
    /\ LET mesRec  == Box(p).mailSlotQueueHead
           message == messageSlots[mesRec].message
       IN  IF mesRec = NULL THEN Crash
           ELSE IF Top(p).call # "MboxCondRecv" /\ Size[message] > Top(p).max
           THEN Return(p) /\ UNCHANGED <<memVars, cpuVars>>
           ELSE /\ buffer' = [buffer EXCEPT ![p] = message]
                /\ messageSlots' =
                        [messageSlots EXCEPT ![mesRec].isInitialized = FALSE]
                /\ frames' = [frames EXCEPT ![p][1].slot = mesRec,
                                            ![p][1].pc = "pop"]
                /\ UNCHANGED <<mbTable, messageIDCounter, shadowProcessTable,
                               cpuVars>>

\* Slip: the mailbox does not get its room back.
Popped_NoRoom(mb) ==
    [mb EXCEPT !.consumerQueueHead = shadowProcessTable[@].nextConsumerNode,
               !.mailSlotQueueHead = messageSlots[@].nextMessage]

\* The heads of both queues leave them, whoever and whatever they are by now.
Popped(mb) ==
    [mb EXCEPT !.consumerQueueHead = shadowProcessTable[@].nextConsumerNode,
               !.mailSlotQueueHead = messageSlots[@].nextMessage,
               !.mailSlotsAvailable = @ + 1]

PopMail(p) ==
    /\ At(p, "pop")
    /\ IF FirstConsumer(p) = NULL \/ Box(p).mailSlotQueueHead = NULL THEN Crash
       ELSE /\ mbTable' = [mbTable EXCEPT ![Top(p).mb] = Popped(@)]
            /\ Goto(p, "wake_producer")
            /\ UNCHANGED <<messageSlots, messageIDCounter, shadowProcessTable,
                           buffer, cpuVars>>

\* The first producer leaves its queue and is woken.
WakeProducer(p) ==
    /\ At(p, "wake_producer")
    /\ LET producer == FirstProducer(p)
       IN  IF producer = NULL THEN UNCHANGED <<mbTable, cpuVars>>
           ELSE /\ SetBox(p, "producerQueueHead",
                          shadowProcessTable[producer].nextProducerNode)
                /\ unblockProc(producer)
    /\ Goto(p, "return_size")
    /\ UNCHANGED <<messageSlots, messageIDCounter, shadowProcessTable, buffer>>

\* return mesRec->messageSizeLimit, from the slot that was freed before.
ReturnSize(p) ==
    At(p, "return_size") /\ Return(p) /\ UNCHANGED <<memVars, cpuVars>>

-----------------------------------------------------------------------------
BlockMe(p) ==
    /\ At(p, "block")
    /\ Goto(p, "resumed")
    /\ Dispatch([status EXCEPT ![p] = "blocked"])
    /\ UNCHANGED memVars

\* Back from blockMe: -3 if the mailbox is no longer there.  Nothing else is
\* looked at again.
Resumed(p) ==
    /\ At(p, "resumed")
    /\ IF Box(p).isInitialized THEN Goto(p, Top(p).then) ELSE Return(p)
    /\ UNCHANGED <<memVars, cpuVars>>

-----------------------------------------------------------------------------
\* MboxRelease: the messages are freed, then both queues are woken one by one.
MboxRelease(p) ==
    /\ InUserCode(p, "MboxRelease")
    /\ \E b \in Mbs \ DeviceMbs :
          /\ messageSlots' = [s \in Slots |->
                [messageSlots[s] EXCEPT !.isInitialized =
                    @ /\ s \notin Reach(MailLinks, mbTable[b].mailSlotQueueHead)]]
          /\ mbTable' = [mbTable EXCEPT ![b].isInitialized = FALSE,
                                        ![b].released = TRUE,
                                        ![b].mailSlotQueueHead = NULL]
          /\ Enter(p, "MboxRelease", "free_consumers", b, Empty, 0)
    /\ UNCHANGED <<messageIDCounter, shadowProcessTable, buffer, cpuVars>>

\* while (head != NULL) { unblockProc(head->PID); ...
FreeQueue(p, pc, head, next, done) ==
    /\ At(p, pc)
    /\ IF Box(p)[head] = NULL
       THEN done /\ UNCHANGED cpuVars
       ELSE unblockProc(Box(p)[head]) /\ Goto(p, next)
    /\ UNCHANGED memVars

\* ... head = head->next; }, after the processes woken may have run.
FreeNext(p, pc, head, link, again) ==
    /\ At(p, pc)
    /\ LET first == Box(p)[head]
       IN  IF first = NULL THEN Crash
           ELSE /\ SetBox(p, head, shadowProcessTable[first][link])
                /\ Goto(p, again)
                /\ UNCHANGED <<messageSlots, messageIDCounter,
                               shadowProcessTable, buffer, cpuVars>>

FreeConsumers(p) ==
    \/ FreeQueue(p, "free_consumers", "consumerQueueHead", "next_consumer",
                 Goto(p, "free_producers"))
    \/ FreeNext(p, "next_consumer", "consumerQueueHead", "nextConsumerNode",
                "free_consumers")

\* Slip: the blocked senders are forgotten.
FreeProducers_Forgets(p) ==
    At(p, "free_producers") /\ Return(p) /\ UNCHANGED <<memVars, cpuVars>>

FreeProducers(p) ==
    \/ FreeQueue(p, "free_producers", "producerQueueHead", "next_producer",
                 Return(p))
    \/ FreeNext(p, "next_producer", "producerQueueHead", "nextProducerNode",
                "free_producers")

MboxCreate(p) ==
    /\ InUserCode(p, "MboxCreate")
    /\ \E slot \in OpenMbs, numSlots \in SlotLimits :
          mbTable' = [mbTable EXCEPT ![slot] = NewMb(numSlots)]
    /\ UNCHANGED <<messageSlots, messageIDCounter, shadowProcessTable, buffer,
                   frames, cpuVars>>

-----------------------------------------------------------------------------
\* User code gives the CPU away by some other kernel call, or ends and a new
\* process takes its place in the tables.
Yield(p) == /\ InUserCode(p, "yield")
            /\ Dispatch(status)
            /\ UNCHANGED <<memVars, frames>>

Replace(p) ==
    /\ InUserCode(p, "replace")
    /\ shadowProcessTable' = [shadowProcessTable EXCEPT ![p].isCurrent = FALSE]
    /\ Dispatch(status)
    /\ UNCHANGED <<mbTable, messageSlots, messageIDCounter, buffer, frames>>

\* phase2_check_io, asked by the sentinel: is somebody queued for a device?
\* Slip: only the receivers are looked for.
phase2_check_io_Receivers ==
    \E d \in DeviceMbs : mbTable[d].consumerQueueHead # NULL

phase2_check_io == \E d \in DeviceMbs : \/ mbTable[d].consumerQueueHead # NULL
                                        \/ mbTable[d].producerQueueHead # NULL

-----------------------------------------------------------------------------
\* phase2_init, then user code in any process.
Init ==
    /\ mbTable = [b \in Mbs |->
            IF b \in DeviceMbs THEN NewMb(1)
            ELSE [NewMb(0) EXCEPT !.isInitialized = FALSE]]
    /\ messageSlots = [s \in Slots |->
            [isInitialized |-> FALSE, message |-> Empty, nextMessage |-> NULL]]
    /\ messageIDCounter = 0
    /\ shadowProcessTable = [p \in Procs |->
            [isCurrent |-> FALSE, nextConsumerNode |-> NULL,
             nextProducerNode |-> NULL]]
    /\ buffer = [p \in Procs |-> Empty]
    /\ frames = [p \in Procs |-> <<>>]
    /\ status = [p \in Procs |-> "ready"]
    /\ current \in Runnable(status)
    /\ fault = FALSE
    /\ calls \in Uses

Calling(p) ==
    \/ MboxSend(p) \/ MboxCondSend(p) \/ MboxRecv(p) \/ MboxCondRecv(p)
    \/ waitDevice(p) \/ MboxRelease(p) \/ MboxCreate(p) \/ Yield(p) \/ Replace(p)

\* What the current process does inside a call.
CallStep(p) ==
    \/ FindSlot(p) \/ TakeSlot(p) \/ addToProducerQueue(p) \/ HandOver(p)
    \/ addToMailQueue(p) \/ WakeConsumer(p) \/ addToConsumerQueue(p) \/ Leave(p)
    \/ CopyMail(p) \/ PopMail(p) \/ WakeProducer(p) \/ ReturnSize(p)
    \/ BlockMe(p) \/ Resumed(p) \/ FreeConsumers(p) \/ FreeProducers(p)

Next == \E p \in Procs : Calling(p) \/ Handler(p) \/ CallStep(p)

Spec == Init /\ [][Next]_vars

\* The CPU does not stop in the middle of a call.
FairSpec == Spec /\ WF_vars(\E p \in Procs : CallStep(p))
=============================================================================
