-------------------------- MODULE MailboxProperties --------------------------
(***************************************************************************)
(* What the mailboxes of phase2/phase2.c should do.  Some of it holds for  *)
(* every use, some only as long as one process receives, or one sends.     *)
(***************************************************************************)
EXTENDS Mailbox

-----------------------------------------------------------------------------
Open == {b \in Mbs : mbTable[b].isInitialized}
Queued(b) == Reach(MailLinks, mbTable[b].mailSlotQueueHead)

\* The slots of b's messages, the oldest first.
Order(b) == LET path == Path(MailLinks, mbTable[b].mailSlotQueueHead)
            IN  [i \in 1 .. Cardinality(Queued(b)) |-> path[i - 1]]

AllFrames == UNION {{frames[p][i] : i \in DOMAIN frames[p]} : p \in Procs}
Doing(b, pcs) == \E f \in AllFrames : f.mb = b /\ f.pc \in pcs

Waits(p, b, then) == /\ status[p] = "blocked"
                     /\ frames[p] # <<>>
                     /\ Top(p).mb = b
                     /\ Top(p).then = then

\* How the mailboxes are used.
Callers(kinds) == {p \in Procs : calls[p] \cap kinds # {}}
OneReceives == Cardinality(Callers({"MboxRecv", "MboxCondRecv", "waitDevice"})) <= 1
OneSends == Cardinality(Callers({"MboxSend", "MboxCondSend", "handler"})) <= 1
Uninterrupted == Callers({"handler"}) = {}

\* mailSlotsAvailable and the list of messages, written in different functions
\* on both sides of a context switch, always make up the mailbox's size.
Accounting ==
    \A b \in Open : mbTable[b].mailSlotsAvailable + Cardinality(Queued(b))
                        = mbTable[b].mailSlotLimit

\* All mailboxes take their slots from one pool: without interrupts, a slot with a
\* message in it is in one mailbox only, and marked as used until its message has
\* been copied.
PoolSound ==
    Uninterrupted => \A b \in Open :
        /\ \A a \in Open \ {b} : Queued(a) \cap Queued(b) = {}
        /\ \A s \in Queued(b) :
              \/ messageSlots[s].isInitialized
              \/ \E f \in AllFrames : f.pc = "pop" /\ f.slot = s

\* With one receiver and no interrupts, a message cannot lie in a mailbox while
\* the receiver sleeps in MboxRecv or waitDevice, unless its wakeup is on the way.
NoLostReceiver ==
    OneReceives /\ Uninterrupted =>
        \A p \in Procs, b \in Open :
            Waits(p, b, "copy") /\ Queued(b) # {} => Doing(b, {"wake_consumer"})

\* With one sender, it does not sleep beside free room, unless a receiver is about
\* to wake it.
NoLostSender ==
    OneSends => \A p \in Procs, b \in Open :
        Waits(p, b, "mail") /\ mbTable[b].mailSlotsAvailable > 0
            => Doing(b, {"wake_producer"})

\* phase2/testcases/test25.c:7-9: every receiver that was blocked gets one of the
\* messages.  A receiver does not look for a message again when it is woken; with
\* one receiver, and senders that add the message first, it finds one.
NoCrash == OneReceives /\ Callers({"MboxCondSend"}) = {} => ~fault

\* Nobody is left asleep on a mailbox whose release is over.  Where several wait, no
\* process must take the table slot of another: one that is woken and gone has still
\* to be walked past, and whoever comes into its slot cuts the queue there.
ReleaseWakesAll ==
    (OneReceives /\ OneSends) \/ Callers({"replace"}) = {} =>
        \A p \in Procs, b \in Mbs \ Open, then \in {"copy", "leave", "mail", "hand"} :
            Waits(p, b, then) => Doing(b, {"free_consumers", "next_consumer",
                                           "free_producers", "next_producer"})

\* When only the sentinel is left, phase2_check_io tells it whether somebody
\* waits for a device, or whether all are deadlocked.
SentinelKnows ==
    current = Sentinel /\ frames[Sentinel] = <<>>
        => (phase2_check_io <=> \E p \in Procs, d \in DeviceMbs :
                                    \/ Waits(p, d, "copy") \/ Waits(p, d, "mail"))

\* The refinement: a mailbox is the queue of the messages in its list, but for the
\* first when a receiver has copied it and has yet to take it off the list.
Unread(slots) ==
    IF slots # <<>> /\ ~messageSlots[Head(slots)].isInitialized THEN Tail(slots)
                                                             ELSE slots
Contents(b) ==
    IF b \notin Open THEN <<>>
    ELSE LET slots == Unread(Order(b))
         IN  [i \in 1 .. Len(slots) |-> messageSlots[slots[i]].message]

Queues == INSTANCE MailQueue WITH
    Boxes <- Mbs, Users <- Procs, Letters <- Messages, None <- Empty,
    Opened <- DeviceMbs,
    open <- Open, box <- [b \in Mbs |-> Contents(b)], received <- buffer

\* Mailboxes are FIFO queues that lose and duplicate nothing, whatever calls any
\* number of processes make.
ImplementsMailQueue == Queues!Spec

\* With one receiver, MboxRecv does not sleep forever on a message that is there,
\* unless interrupts bring the messages.
ReceiverIsWoken ==
    \A p \in Procs, b \in Mbs \ DeviceMbs :
        OneReceives /\ Waits(p, b, "copy") /\ Queued(b) # {} ~> status[p] = "ready"

-----------------------------------------------------------------------------
\* What the code does not keep.

\* phase2/testcases/test06.c:2-3: a sender blocks on a full mailbox, so there are
\* never more messages than slots.
CapacityKept ==
    \A b \in Open : Cardinality(Queued(b)) <= mbTable[b].mailSlotLimit

\* No call keeps the CPU forever: it returns or gives the CPU away, for the walks
\* along the lists end.
CallsEnd ==
    \A p \in Procs : current = p /\ frames[p] # <<>>
                        ~> current # p \/ frames[p] = <<>>

\* phase2.c:490: addToConsumerQueue finds the end of the queue and adds the process
\* there; no walk along a queue goes on forever.
SearchesEnd == \A f \in AllFrames : f.pc # "loop"

\* phase2/testcases/test23.c:2-3: a receive on a zero-slot mailbox unblocks the
\* sender that waits there.
ReceiveMeetsSender ==
    [][\A p, q \in Procs :
          /\ frames[p] # <<>> /\ frames'[p] = <<>> /\ Top(p).pc = "leave"
          /\ Waits(q, Top(p).mb, "hand")
          => status'[q] = "ready"]_vars

\* phase2.h:30: MboxRecv returns the size of the message received.
SizeIsTheMessages ==
    \A p \in Procs : At(p, "return_size") =>
        Size[messageSlots[Top(p).slot].message] = Size[buffer[p]]

\* phase2.c:286: no slot is found only if the table is full, so each slot in use
\* has a message in a mailbox, or a sender at work on it.
SlotsAccountedFor ==
    \A s \in Slots : messageSlots[s].isInitialized =>
        \/ \E b \in Open : s \in Queued(b)
        \/ \E f \in AllFrames : f.slot = s
=============================================================================
