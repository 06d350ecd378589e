------------------------------- MODULE Terminal -------------------------------
(***************************************************************************)
(* The terminal driver of phase4a/phase4.c: TermWrite sends a text one     *)
(* character at a time, each when the daemon says that the terminal is     *)
(* ready; the daemon also collects what is typed into lines for TermRead.  *)
(*                                                                         *)
(* System calls run with interrupts off: a process in a call (pc "call")   *)
(* goes on until it blocks or returns.  The daemons have priority 1 and    *)
(* never block but in waitDevice: an interrupt and what the daemon does    *)
(* about it are one step.  The mailboxes (the prebuilt libphase2.a) are    *)
(* queues, and who waits at one is served in turn; a message too large for *)
(* the receiver's buffer stays where it is (phase2/phase2.c:580).          *)
(***************************************************************************)
EXTENDS Integers, Sequences, FiniteSets, SequencesExt

CONSTANTS
    Procs,
    Units,          \* 0..3 in the code
    MAXLINE,
    MaxLines,       \* slots of a unit's READ mailbox: 10 in the code
    Sizes,          \* the bufferSize of TermRead
    Lengths,        \* the lengths of the texts of TermWrite
    MaxTyped,       \* bound: the characters typed at a unit
    MaxCalls        \* bound: the calls of a process

TerminalAssumption ==
    /\ MAXLINE \in Nat \ {0} /\ MaxLines \in Nat \ {0}
    /\ Sizes \subseteq Int /\ Lengths \subseteq Nat
    /\ Units # {}
    /\ MaxTyped \in Nat /\ MaxCalls \in Nat

VARIABLES
    READ_BUFFER_SIZE,   \* one for all units
    lock,               \* unit -> TERM_LOCK: who has it, then who waits for it
    ready,              \* unit -> is there a message in TERM_WRITE?
    lines,              \* unit -> the messages in TERM_READ
    readers,            \* unit -> who waits at TERM_READ
    buffer,             \* unit -> the daemon's buffer, up to bufferIndex
    terminal,           \* unit -> the device
    user                \* process -> where it is, in which call

termVars == <<READ_BUFFER_SIZE, lock, ready, lines, readers, buffer, terminal, user>>

\* A terminal: is it sending, has it raised its interrupt since it was ready;
\* what it has shown, what was typed, which of that has been read and dropped.
\* What is shown is the writer, its call and how much of the text was left;
\* what is typed is numbered.
Shown == [by : Procs, call : 1 .. MaxCalls, left : Nat]
Device == [busy : BOOLEAN, raised : BOOLEAN, shown : Seq(Shown), lost : Nat,
           typed : 0 .. MaxTyped, read : Seq(Nat), dropped : SUBSET Nat]

\* Outside; in a call; waiting for the lock, a ready terminal or a line; given
\* the lock or a ready terminal, and about to go on.
PCs == {"user", "call", "lock", "transmit", "line", "has_lock", "has_terminal"}
User == [pc : PCs, unit : Units, size : Int, calls : 0 .. MaxCalls]

Init ==
    /\ READ_BUFFER_SIZE = -1
    /\ lock = [u \in Units |-> <<>>]
    /\ ready = [u \in Units |-> FALSE]
    /\ lines = [u \in Units |-> <<>>]
    /\ readers = [u \in Units |-> <<>>]
    /\ buffer = [u \in Units |-> <<>>]
    /\ terminal = [u \in Units |-> [busy |-> FALSE, raised |-> FALSE, shown |-> <<>>,
                    lost |-> 0, typed |-> 0, read |-> <<>>, dropped |-> {}]]
    /\ user = [p \in Procs |-> [pc |-> "user", unit |-> CHOOSE u \in Units : TRUE,
                                size |-> 0, calls |-> 0]]

\* Nobody is in a call: interrupts are on.
Interruptible == \A p \in Procs : user[p].pc # "call"

\* p calls with a size (of its buffer, or what is left of its text).
Calls(p, pc, u, size) ==
    user' = [user EXCEPT ![p] = [pc |-> pc, unit |-> u, size |-> size, calls |-> @.calls + 1]]

MayCall(p) == Interruptible /\ user[p].pc = "user" /\ user[p].calls < MaxCalls

-----------------------------------------------------------------------------
(* Writing *)

\* Slip: a conditional send.
lockTerminal_NeverWaits(u) == "call"

\* The lock is had by who has sent to its only slot.
lockTerminal(u) == IF lock[u] = <<>> THEN "call" ELSE "lock"

ourTermWrite(p, u, length) ==
    /\ MayCall(p)
    /\ lock' = [lock EXCEPT ![u] = Append(@, p)]
    /\ Calls(p, lockTerminal(u), u, length)
    /\ UNCHANGED <<READ_BUFFER_SIZE, ready, lines, readers, buffer, terminal>>

\* A character goes to the terminal; one that is busy loses it.
writeCharToTerminal(p) ==
    LET u == user[p].unit
        t == terminal[u]
        c == [by |-> p, call |-> user[p].calls, left |-> user[p].size]
    IN  /\ terminal' = [terminal EXCEPT ![u] =
                IF t.busy THEN [t EXCEPT !.lost = @ + 1]
                ELSE [t EXCEPT !.busy = TRUE, !.raised = FALSE,
                               !.shown = Append(@, c)]]
        /\ user' = [user EXCEPT ![p].pc = "call", ![p].size = @ - 1]

\* The loop of ourTermWrite.
Writing(p) ==
    \/ user[p].pc = "call"
    \/ user[p].pc = "has_lock" /\ Interruptible

\* Slip: the message is not taken.
Transmit_KeepsMessage(p) ==
    /\ Writing(p)
    /\ user[p].size > 0
    /\ ready[user[p].unit]
    /\ writeCharToTerminal(p)
    /\ UNCHANGED <<READ_BUFFER_SIZE, lock, ready, lines, readers, buffer>>

Transmit(p) ==
    /\ Writing(p)
    /\ user[p].size > 0
    /\ ready[user[p].unit]
    /\ ready' = [ready EXCEPT ![user[p].unit] = FALSE]
    /\ writeCharToTerminal(p)
    /\ UNCHANGED <<READ_BUFFER_SIZE, lock, lines, readers, buffer>>

AwaitTransmit(p) ==
    /\ Writing(p)
    /\ user[p].size > 0
    /\ ~ready[user[p].unit]
    /\ user' = [user EXCEPT ![p].pc = "transmit"]
    /\ UNCHANGED <<READ_BUFFER_SIZE, lock, ready, lines, readers, buffer, terminal>>

ResumeTransmit(p) ==
    /\ user[p].pc = "has_terminal"
    /\ Interruptible
    /\ writeCharToTerminal(p)
    /\ UNCHANGED <<READ_BUFFER_SIZE, lock, ready, lines, readers, buffer>>

\* Slip: no unlock.
unlockTerminal_Forgets(u) == UNCHANGED lock

\* unlockTerminal: the first who waits has the lock now.
unlockTerminal(u) == lock' = [lock EXCEPT ![u] = Tail(@)]

WriteReturns(p) ==
    LET u == user[p].unit
    IN  /\ Writing(p)
        /\ user[p].size = 0
        /\ unlockTerminal(u)
        /\ user' = [q \in Procs |->
              IF q = p THEN [user[q] EXCEPT !.pc = "user"]
              ELSE IF lock'[u] # <<>> /\ q = Head(lock'[u]) /\ user[q].pc = "lock"
              THEN [user[q] EXCEPT !.pc = "has_lock"] ELSE user[q]]
        /\ UNCHANGED <<READ_BUFFER_SIZE, ready, lines, readers, buffer, terminal>>

-----------------------------------------------------------------------------
(* Reading *)

ReadReturns(p, u) == Calls(p, "user", u, 0)

ourTermRead(p, u, bufferSize) ==
    /\ MayCall(p)
    /\ READ_BUFFER_SIZE' = bufferSize
    /\ \/ /\ bufferSize <= 0
          /\ ReadReturns(p, u)
          /\ UNCHANGED <<lines, readers, terminal>>
       \/ /\ bufferSize > 0 /\ lines[u] = <<>>
          /\ readers' = [readers EXCEPT ![u] = Append(@, p)]
          /\ Calls(p, "line", u, bufferSize)
          /\ UNCHANGED <<lines, terminal>>
       \/ /\ bufferSize > 0 /\ lines[u] # <<>>
          /\ ReadReturns(p, u)
          /\ IF Len(Head(lines[u])) > bufferSize THEN UNCHANGED <<lines, terminal>>
             ELSE /\ lines' = [lines EXCEPT ![u] = Tail(@)]
                  /\ terminal' = [terminal EXCEPT ![u].read = @ \o Head(lines[u])]
          /\ UNCHANGED readers
    /\ UNCHANGED <<lock, ready, buffer>>

-----------------------------------------------------------------------------
(* The daemon *)

\* Is the line over with this character?
EndsLine(bufferIndex, newline) ==
    newline \/ bufferIndex = MAXLINE \/ bufferIndex = READ_BUFFER_SIZE

\* Slip: bufferIndex is not set back.
NextBuffer_NoReset(line, over) == line

\* What is left in the buffer after a character.
NextBuffer(line, over) == IF over THEN <<>> ELSE line

\* One turn of termMain2: the terminal has sent its character (or is ready from
\* the start), or a key was pressed, or both.  The first MboxCondSend lets a
\* writer go on who waits, or fills the only slot of TERM_WRITE.  The second
\* puts the line into TERM_READ, if there is a slot or a reader, and the first
\* reader takes the first message if it fits.
termMain2(u, sent, key) ==
    LET isReady == sent \/ ~terminal[u].busy
        writers == {p \in Procs : isReady /\ user[p].pc = "transmit" /\ user[p].unit = u}
        line    == IF key = "none" THEN buffer[u]
                   ELSE Append(buffer[u], terminal[u].typed + 1)
        over    == key # "none" /\ EndsLine(Len(line), key = "newline")
        kept    == over /\ (readers[u] # <<>> \/ Len(lines[u]) < MaxLines)
        queue   == IF kept THEN Append(lines[u], line) ELSE lines[u]
        woken   == {p \in Procs : over /\ readers[u] # <<>> /\ p = Head(readers[u])}
        taken   == \E p \in woken : Len(Head(queue)) <= user[p].size
    IN  /\ ready' = [ready EXCEPT ![u] = @ \/ (isReady /\ writers = {})]
        /\ buffer' = [buffer EXCEPT ![u] = NextBuffer(line, over)]
        /\ lines' = [lines EXCEPT ![u] = IF taken THEN Tail(queue) ELSE queue]
        /\ readers' = [readers EXCEPT ![u] = IF woken # {} THEN Tail(@) ELSE @]
        /\ terminal' = [terminal EXCEPT
              ![u].busy = ~isReady,
              ![u].raised = @ \/ sent,
              ![u].typed = IF key = "none" THEN @ ELSE @ + 1,
              ![u].read = IF taken THEN @ \o Head(queue) ELSE @,
              ![u].dropped = IF over /\ ~kept THEN @ \cup ToSet(line) ELSE @]
        /\ user' = [p \in Procs |->
              IF p \in writers THEN [user[p] EXCEPT !.pc = "has_terminal"]
              ELSE IF p \in woken THEN [user[p] EXCEPT !.pc = "user"]
              ELSE user[p]]

Interrupt(u, sent, key) ==
    /\ Interruptible
    /\ sent \/ key # "none"
    /\ sent => ~terminal[u].raised
    /\ key # "none" => terminal[u].typed < MaxTyped
    /\ termMain2(u, sent, key)
    /\ UNCHANGED <<READ_BUFFER_SIZE, lock>>

Next ==
    \/ \E p \in Procs, u \in Units, n \in Lengths : ourTermWrite(p, u, n)
    \/ \E p \in Procs : Transmit(p)
    \/ \E p \in Procs : AwaitTransmit(p)
    \/ \E p \in Procs : ResumeTransmit(p)
    \/ \E p \in Procs : WriteReturns(p)
    \/ \E p \in Procs, u \in Units, size \in Sizes : ourTermRead(p, u, size)
    \/ \E u \in Units, sent \in BOOLEAN, key \in {"none", "letter", "newline"} :
            Interrupt(u, sent, key)

\* A terminal that sends is done some time, and processes that can go on do.
Progress ==
    \/ \E u \in Units : Interrupt(u, TRUE, "none")
    \/ \E p \in Procs : Transmit(p) \/ AwaitTransmit(p) \/ ResumeTransmit(p)
                                    \/ WriteReturns(p)

Spec == Init /\ [][Next]_termVars /\ WF_termVars(Progress)

-----------------------------------------------------------------------------
\* These pieces of what was typed follow each other in its order, each piece in
\* order, and nothing is missing but what was dropped.
InOrder(pieces, kept) ==
    /\ \A i \in DOMAIN pieces : \A k, l \in DOMAIN pieces[i] :
            k < l => pieces[i][k] < pieces[i][l]
    /\ \A i, j \in DOMAIN pieces : i < j =>
            \A k \in DOMAIN pieces[i], l \in DOMAIN pieces[j] : pieces[i][k] < pieces[j][l]
    /\ UNION {ToSet(pieces[i]) : i \in DOMAIN pieces} = kept

\* What is typed is read in the order it was typed, nothing twice, and only
\* what found no slot is missing, however the lines are cut and whoever reads
\* them (the buffer that termMain2 reuses, and its MboxCondSend).
InputInOrder ==
    \A u \in Units :
        InOrder(<<terminal[u].read>> \o lines[u] \o <<buffer[u]>>,
                (1 .. terminal[u].typed) \ terminal[u].dropped)

\* No line is longer than MAXLINE, for which the daemon's buffer and the slots
\* have room, whatever READ_BUFFER_SIZE is when its end is looked for.
LinesFit ==
    \A u \in Units :
        /\ Len(buffer[u]) < MAXLINE
        /\ \A i \in 1 .. Len(lines[u]) : Len(lines[u][i]) <= MAXLINE

\* A text that is begun is shown to its end before another one begins
\* (lockTerminal), unless a character of it was lost.
TextsWhole ==
    \A u \in Units : \A i \in 1 .. Len(terminal[u].shown) - 1 :
        LET c == terminal[u].shown[i]
            d == terminal[u].shown[i+1]
        IN  terminal[u].lost = 0 =>
                IF c.left = 1 THEN <<c.by, c.call>> # <<d.by, d.call>>
                ELSE d = [c EXCEPT !.left = @ - 1]

\* No character goes to a terminal that is busy, at a unit where nothing has
\* been typed: TERM_WRITE has a message, or a writer has taken one, only
\* while the terminal is ready.
NoCharLost == \A u \in Units : terminal[u].typed = 0 => terminal[u].lost = 0

\* Every TermWrite ends: there is a message for every character, and the lock
\* is passed on.
WritesEnd ==
    \A p \in Procs :
        user[p].pc \in {"lock", "transmit", "has_lock", "has_terminal"}
            ~> user[p].pc \in {"user", "line"}
=============================================================================
