---------------------------- MODULE TerminalProofs ----------------------------
(***************************************************************************)
(* Proofs about the terminal driver, for any number of processes and       *)
(* units, any sizes of buffers and any lengths of texts and lines.         *)
(***************************************************************************)
EXTENDS Drivers, SequenceTheorems, TLAPS

TermTypes ==
    /\ READ_BUFFER_SIZE \in Int
    /\ lock \in [Units -> Seq(Procs)]
    /\ ready \in [Units -> BOOLEAN]
    /\ lines \in [Units -> Seq(Seq(Nat))]
    /\ readers \in [Units -> Seq(Procs)]
    /\ buffer \in [Units -> Seq(Nat)]
    /\ terminal \in [Units -> Term!Device]
    /\ user \in [Procs -> Term!User]

\* p has the lock of u and is in the loop of ourTermWrite.
Writes(p, u) ==
    /\ user[p].unit = u
    /\ user[p].pc \in {"call", "transmit", "has_lock", "has_terminal"}

\* TERM_LOCK: the first who has sent to it writes, the others wait, each in one
\* place.
LockInTurn ==
    \A u \in Units :
        /\ \A p \in Procs : Writes(p, u) => lock[u] # <<>> /\ lock[u][1] = p
        /\ \A i \in 2 .. Len(lock[u]) :
                user[lock[u][i]].pc = "lock" /\ user[lock[u][i]].unit = u
        /\ \A i, j \in 2 .. Len(lock[u]) : lock[u][i] = lock[u][j] => i = j

\* TERM_READ: those who are in line there wait for a line, each in one place.
ReadersWait ==
    \A u \in Units :
        /\ \A i \in 1 .. Len(readers[u]) :
                user[readers[u][i]].pc = "line" /\ user[readers[u][i]].unit = u
        /\ \A i, j \in 1 .. Len(readers[u]) : readers[u][i] = readers[u][j] => i = j

\* Who waits for the terminal, or has it, has a character to send.
SizesLeft ==
    \A p \in Procs :
        /\ user[p].pc # "user" => user[p].calls > 0
        /\ user[p].pc \in {"call", "lock", "has_lock"} => user[p].size >= 0
        /\ user[p].pc \in {"transmit", "has_terminal"} => user[p].size > 0

InTurn == TermTypes /\ LockInTurn /\ ReadersWait /\ SizesLeft

-----------------------------------------------------------------------------
\* What is assumed of the constants.
LEMMA TerminalConstants ==
    /\ MAXLINE \in Nat \ {0} /\ MaxLines \in Nat \ {0}
    /\ Sizes \subseteq Int /\ Lengths \subseteq Nat
    /\ Units # {}
    /\ MaxTyped \in Nat /\ MaxCalls \in Nat
  BY DriversAssumption DEF Term!TerminalAssumption

\* Nobody is in a call at the start.
LEMMA TerminalInit == Term!Init => InTurn
<1> SUFFICES ASSUME Term!Init PROVE InTurn
  OBVIOUS
<1> USE DEF Term!Init
<1>1. TermTypes
  <2>1. terminal \in [Units -> Term!Device]
    <3>1. <<>> \in Seq(Term!Shown) /\ <<>> \in Seq(Nat)
      BY EmptySeq
    <3> QED
      BY <3>1, TerminalConstants DEF Term!Device
  <2>2. user \in [Procs -> Term!User]
    <3>1. (CHOOSE u \in Units : TRUE) \in Units
      BY TerminalConstants
    <3>2. 0 \in 0 .. MaxCalls /\ "user" \in Term!PCs
      BY TerminalConstants DEF Term!PCs
    <3> QED
      BY <3>1, <3>2 DEF Term!User
  <2>3. <<>> \in Seq(Nat) /\ <<>> \in Seq(Procs) /\ <<>> \in Seq(Seq(Nat))
    BY EmptySeq
  <2> QED
    BY <2>1, <2>2, <2>3 DEF TermTypes
<1>2. LockInTurn
  BY DEF LockInTurn, Writes
<1>3. ReadersWait
  BY DEF ReadersWait
<1>4. SizesLeft
  BY DEF SizesLeft
<1> QED
  BY <1>1, <1>2, <1>3, <1>4 DEF InTurn

-----------------------------------------------------------------------------
\* What a new call leaves: the caller's record only.
LEMMA CallsEffect ==
    ASSUME TermTypes, NEW p \in Procs, NEW pc \in Term!PCs, NEW u \in Units,
           NEW size \in Int, user[p].calls < MaxCalls, Term!Calls(p, pc, u, size)
    PROVE  /\ user' \in [Procs -> Term!User]
           /\ user'[p].pc = pc /\ user'[p].unit = u /\ user'[p].size = size
           /\ user'[p].calls = user[p].calls + 1
           /\ \A q \in Procs \ {p} : user'[q] = user[q]
<1> DEFINE d == [pc |-> pc, unit |-> u, size |-> size, calls |-> user[p].calls + 1]
<1>1. user[p].calls \in 0 .. MaxCalls
  BY DEF TermTypes, Term!User
<1>2. d \in Term!User
  BY <1>1, TerminalConstants DEF Term!User
<1>3. user' = [user EXCEPT ![p] = d]
  BY DEF Term!Calls, TermTypes
<1>4. d.pc = pc /\ d.unit = u /\ d.size = size /\ d.calls = user[p].calls + 1
  OBVIOUS
<1> HIDE DEF d
<1> QED
  BY <1>2, <1>3, <1>4 DEF TermTypes

\* What a character sent by p changes.
LEMMA WriteEffect ==
    ASSUME TermTypes, NEW p \in Procs, user[p].size > 0, user[p].calls > 0,
           Term!writeCharToTerminal(p)
    PROVE  LET u == user[p].unit
               c == [by |-> p, call |-> user[p].calls, left |-> user[p].size]
           IN  /\ user' \in [Procs -> Term!User] /\ terminal' \in [Units -> Term!Device]
               /\ user'[p].pc = "call" /\ user'[p].size = user[p].size - 1
               /\ user'[p].unit = u /\ user'[p].calls = user[p].calls
               /\ \A q \in Procs \ {p} : user'[q] = user[q]
               /\ c \in Term!Shown /\ u \in Units
               /\ terminal'[u].busy
               /\ terminal'[u].raised = (terminal[u].raised /\ terminal[u].busy)
               /\ terminal[u].busy => terminal'[u].lost = terminal[u].lost + 1
               /\ ~terminal[u].busy => /\ terminal'[u].lost = terminal[u].lost
                                       /\ terminal'[u].shown = Append(terminal[u].shown, c)
               /\ terminal'[u].typed = terminal[u].typed
               /\ terminal'[u].read = terminal[u].read
               /\ terminal'[u].dropped = terminal[u].dropped
               /\ \A v \in Units \ {u} : terminal'[v] = terminal[v]
<1> DEFINE u == user[p].unit
           c == [by |-> p, call |-> user[p].calls, left |-> user[p].size]
           t == terminal[u]
           d == IF t.busy THEN [t EXCEPT !.lost = t.lost + 1]
                ELSE [t EXCEPT !.busy = TRUE, !.raised = FALSE, !.shown = Append(t.shown, c)]
           w == [user[p] EXCEPT !.pc = "call", !.size = user[p].size - 1]
<1>1. /\ user[p] \in Term!User /\ u \in Units /\ t \in Term!Device
      /\ user[p].calls \in 1 .. MaxCalls /\ user[p].size \in Nat
  BY DEF TermTypes, Term!User
<1>2. c \in Term!Shown
  BY <1>1 DEF Term!Shown
<1>3. Append(t.shown, c) \in Seq(Term!Shown)
  BY <1>1, <1>2, AppendProperties DEF Term!Device
<1>4. /\ d \in Term!Device
      /\ d.busy /\ d.raised = (t.raised /\ t.busy)
      /\ t.busy => d.lost = t.lost + 1
      /\ ~t.busy => d.lost = t.lost /\ d.shown = Append(t.shown, c)
      /\ d.typed = t.typed /\ d.read = t.read /\ d.dropped = t.dropped
  <2> HIDE DEF t, c
  <2>1. CASE t.busy
    BY SMTT(30), <1>1, <2>1 DEF Term!Device
  <2>2. CASE ~t.busy
    BY <1>1, <1>3, <2>2 DEF Term!Device
  <2> QED
    BY <2>1, <2>2
<1>5. terminal' = [terminal EXCEPT ![u] = d]
  BY DEF Term!writeCharToTerminal, TermTypes
<1>6. user' = [user EXCEPT ![p] = w]
  <2>1. user' = [user EXCEPT ![p].pc = "call", ![p].size = user[p].size - 1]
    BY DEF Term!writeCharToTerminal, TermTypes
  <2> QED
    BY <2>1 DEF TermTypes
<1>7. /\ w \in Term!User /\ w.pc = "call" /\ w.size = user[p].size - 1
      /\ w.unit = u /\ w.calls = user[p].calls
  <2>1. user[p].size - 1 \in Int /\ "call" \in Term!PCs
    BY <1>1 DEF Term!PCs
  <2> QED
    BY <1>1, <2>1 DEF Term!User
<1> HIDE DEF w, d, c
<1>8. user' \in [Procs -> Term!User] /\ user'[p] = w /\ \A q \in Procs \ {p} : user'[q] = user[q]
  BY <1>6, <1>7 DEF TermTypes
<1>9. /\ terminal' \in [Units -> Term!Device] /\ terminal'[u] = d
      /\ \A v \in Units \ {u} : terminal'[v] = terminal[v]
  BY <1>1, <1>4, <1>5 DEF TermTypes
<1> QED
  BY <1>1, <1>2, <1>4, <1>7, <1>8, <1>9 DEF c

-----------------------------------------------------------------------------
\* At a unit, one process at a time is in the loop of ourTermWrite.
LEMMA OneWrites ==
    ASSUME InTurn, NEW p \in Procs, NEW q \in Procs, NEW u \in Units,
           Writes(p, u), Writes(q, u)
    PROVE  p = q
  BY DEF InTurn, LockInTurn

\* A step that leaves TERM_LOCK alone, and those who wait there.
LEMMA LockStays ==
    ASSUME TermTypes, LockInTurn, lock' = lock,
           \A q \in Procs : \A u \in Units : Writes(q, u)' => Writes(q, u),
           \A q \in Procs : user[q].pc = "lock" =>
                                user'[q].pc = "lock" /\ user'[q].unit = user[q].unit
    PROVE  LockInTurn'
<1> SUFFICES ASSUME NEW u \in Units
             PROVE  /\ \A p \in Procs : Writes(p, u)' => lock[u] # <<>> /\ lock[u][1] = p
                    /\ \A i \in 2 .. Len(lock[u]) :
                          user'[lock[u][i]].pc = "lock" /\ user'[lock[u][i]].unit = u
                    /\ \A i, j \in 2 .. Len(lock[u]) : lock[u][i] = lock[u][j] => i = j
  BY DEF LockInTurn
<1>1. \A i \in 2 .. Len(lock[u]) : lock[u][i] \in Procs
  BY ElementOfSeq, LenProperties DEF TermTypes
<1> QED
  BY <1>1 DEF LockInTurn

\* A step that leaves TERM_READ's queue alone, and those who wait there.
LEMMA ReadersStay ==
    ASSUME TermTypes, ReadersWait, readers' = readers,
           \A q \in Procs : user[q].pc = "line" =>
                                user'[q].pc = "line" /\ user'[q].unit = user[q].unit
    PROVE  ReadersWait'
<1> SUFFICES ASSUME NEW u \in Units
             PROVE  /\ \A i \in 1 .. Len(readers[u]) :
                          user'[readers[u][i]].pc = "line" /\ user'[readers[u][i]].unit = u
                    /\ \A i, j \in 1 .. Len(readers[u]) :
                          readers[u][i] = readers[u][j] => i = j
  BY DEF ReadersWait
<1>1. \A i \in 1 .. Len(readers[u]) : readers[u][i] \in Procs
  BY ElementOfSeq, LenProperties DEF TermTypes
<1> QED
  BY <1>1 DEF ReadersWait

\* A character is sent: its writer goes on.
LEMMA SentInTurn ==
    ASSUME InTurn, NEW p \in Procs,
           user[p].pc \in {"call", "has_lock", "has_terminal"}, user[p].size > 0,
           Term!writeCharToTerminal(p), ready' \in [Units -> BOOLEAN],
           UNCHANGED <<READ_BUFFER_SIZE, lock, lines, readers, buffer>>
    PROVE  InTurn'
<1>1. TermTypes /\ user[p].calls > 0
  BY DEF InTurn, SizesLeft
<1>2. /\ user' \in [Procs -> Term!User] /\ terminal' \in [Units -> Term!Device]
      /\ user'[p].pc = "call" /\ user'[p].size = user[p].size - 1
      /\ user'[p].unit = user[p].unit /\ user'[p].calls = user[p].calls
      /\ \A q \in Procs \ {p} : user'[q] = user[q]
  BY <1>1, WriteEffect
<1>3. TermTypes'
  BY <1>2 DEF InTurn, TermTypes
<1>4. LockInTurn'
  BY <1>1, <1>2, LockStays DEF InTurn, Writes
<1>5. ReadersWait'
  BY <1>1, <1>2, ReadersStay DEF InTurn
<1>6. SizesLeft'
  <2>1. user[p].size \in Int
    BY <1>1 DEF TermTypes, Term!User
  <2> QED
    BY <1>1, <1>2, <2>1 DEF InTurn, SizesLeft
<1> QED
  BY <1>3, <1>4, <1>5, <1>6 DEF InTurn

\* A writer finds the message and sends a character.
LEMMA TransmitInTurn ==
    ASSUME InTurn, NEW p \in Procs, Term!Transmit(p)
    PROVE  InTurn'
<1>1. ready' \in [Units -> BOOLEAN]
  BY DEF Term!Transmit, InTurn, TermTypes
<1> QED
  BY <1>1, SentInTurn DEF Term!Transmit, Term!Writing

\* A writer that was given the terminal sends a character.
LEMMA ResumeInTurn ==
    ASSUME InTurn, NEW p \in Procs, Term!ResumeTransmit(p)
    PROVE  InTurn'
<1>1. user[p].size > 0 /\ ready' \in [Units -> BOOLEAN]
  BY DEF Term!ResumeTransmit, InTurn, TermTypes, SizesLeft
<1> QED
  BY <1>1, SentInTurn DEF Term!ResumeTransmit

\* What becomes of a process that only gets another program counter.
LEMMA PcEffect ==
    ASSUME TermTypes, NEW p \in Procs, NEW pc \in Term!PCs,
           user' = [user EXCEPT ![p].pc = pc]
    PROVE  /\ user' \in [Procs -> Term!User]
           /\ user'[p].pc = pc /\ user'[p].unit = user[p].unit
           /\ user'[p].size = user[p].size /\ user'[p].calls = user[p].calls
           /\ \A q \in Procs \ {p} : user'[q] = user[q]
<1>1. user[p] \in Term!User
  BY DEF TermTypes
<1> DEFINE w == [user[p] EXCEPT !.pc = pc]
<1>2. user' = [user EXCEPT ![p] = w]
  BY DEF TermTypes
<1>3. /\ w \in Term!User /\ w.pc = pc /\ w.unit = user[p].unit
      /\ w.size = user[p].size /\ w.calls = user[p].calls
  BY <1>1 DEF Term!User
<1> HIDE DEF w
<1> QED
  BY <1>2, <1>3 DEF TermTypes

\* A writer finds no message and waits for one.
LEMMA AwaitInTurn ==
    ASSUME InTurn, NEW p \in Procs, Term!AwaitTransmit(p)
    PROVE  InTurn'
<1>1. /\ TermTypes /\ user[p].pc \in {"call", "has_lock"} /\ user[p].size > 0
      /\ user' = [user EXCEPT ![p].pc = "transmit"] /\ "transmit" \in Term!PCs
      /\ UNCHANGED <<READ_BUFFER_SIZE, lock, ready, lines, readers, buffer, terminal>>
  BY DEF InTurn, Term!AwaitTransmit, Term!Writing, Term!PCs
<1>2. /\ user' \in [Procs -> Term!User]
      /\ user'[p].pc = "transmit" /\ user'[p].unit = user[p].unit
      /\ user'[p].size = user[p].size /\ user'[p].calls = user[p].calls
      /\ \A q \in Procs \ {p} : user'[q] = user[q]
  BY <1>1, PcEffect
<1>3. TermTypes'
  BY <1>1, <1>2 DEF TermTypes
<1>4. LockInTurn'
  BY <1>1, <1>2, LockStays DEF InTurn, Writes
<1>5. ReadersWait'
  BY <1>1, <1>2, ReadersStay DEF InTurn
<1>6. SizesLeft'
  BY <1>1, <1>2 DEF InTurn, SizesLeft
<1> QED
  BY <1>3, <1>4, <1>5, <1>6 DEF InTurn

\* A call of TermWrite is first in line, or last.
LEMMA WriteInTurn ==
    ASSUME InTurn, NEW p \in Procs, NEW u \in Units, NEW length \in Lengths,
           Term!ourTermWrite(p, u, length)
    PROVE  InTurn'
<1> DEFINE pc == Term!lockTerminal(u)
<1>1. /\ TermTypes /\ user[p].pc = "user" /\ user[p].calls < MaxCalls
      /\ lock' = [lock EXCEPT ![u] = Append(lock[u], p)]
      /\ Term!Calls(p, pc, u, length)
      /\ UNCHANGED <<READ_BUFFER_SIZE, ready, lines, readers, buffer, terminal>>
  BY DEF InTurn, Term!ourTermWrite, Term!MayCall, TermTypes
<1>2. /\ pc \in Term!PCs /\ length \in Nat /\ length \in Int
      /\ pc = IF lock[u] = <<>> THEN "call" ELSE "lock"
  BY TerminalConstants DEF Term!lockTerminal, Term!PCs
<1> HIDE DEF pc
<1>3. /\ user' \in [Procs -> Term!User]
      /\ user'[p].pc = pc /\ user'[p].unit = u /\ user'[p].size = length
      /\ user'[p].calls = user[p].calls + 1
      /\ \A q \in Procs \ {p} : user'[q] = user[q]
  BY <1>1, <1>2, CallsEffect
<1>4. /\ lock[u] \in Seq(Procs) /\ Len(lock[u]) \in Nat
      /\ lock' \in [Units -> Seq(Procs)]
      /\ \A v \in Units \ {u} : lock'[v] = lock[v]
      /\ Len(lock'[u]) = Len(lock[u]) + 1
      /\ \A i \in 1 .. Len(lock[u]) : lock'[u][i] = lock[u][i] /\ lock[u][i] \in Procs
      /\ lock'[u][Len(lock[u]) + 1] = p
      /\ lock'[u] # <<>>
      /\ lock[u] # <<>> <=> Len(lock[u]) # 0
  <2>1. lock[u] \in Seq(Procs) /\ lock'[u] = Append(lock[u], p)
    BY <1>1 DEF TermTypes
  <2>2. lock' \in [Units -> Seq(Procs)] /\ \A v \in Units \ {u} : lock'[v] = lock[v]
    BY <1>1, <2>1, AppendProperties DEF TermTypes
  <2> QED
    BY <2>1, <2>2, LenProperties, AppendProperties, ElementOfSeq, EmptySeq
<1>5. TermTypes'
  BY <1>1, <1>3, <1>4 DEF TermTypes
<1>6. LockInTurn'
  <2>1. \A v \in Units : \A i \in 2 .. Len(lock[v]) : lock[v][i] \in Procs \ {p}
    BY <1>1, ElementOfSeq, LenProperties DEF InTurn, LockInTurn, TermTypes
  <2>2. \A v \in Units : ~Writes(p, v)
    BY <1>1 DEF Writes
  <2>3. \A q \in Procs \ {p} : \A v \in Units : Writes(q, v)' <=> Writes(q, v)
    BY <1>3 DEF Writes
  <2>4. ASSUME NEW v \in Units \ {u}
        PROVE  /\ \A q \in Procs : Writes(q, v)' => lock'[v] # <<>> /\ lock'[v][1] = q
               /\ \A i \in 2 .. Len(lock'[v]) :
                       user'[lock'[v][i]].pc = "lock" /\ user'[lock'[v][i]].unit = v
               /\ \A i, j \in 2 .. Len(lock'[v]) : lock'[v][i] = lock'[v][j] => i = j
    <3>1. ~Writes(p, v)'
      BY <1>3 DEF Writes
    <3>2. lock'[v] = lock[v]
      BY <1>4
    <3>3. \A q \in Procs : Writes(q, v)' => lock[v] # <<>> /\ lock[v][1] = q
      BY <2>3, <3>1 DEF InTurn, LockInTurn
    <3>4. \A i \in 2 .. Len(lock[v]) :
              user'[lock[v][i]].pc = "lock" /\ user'[lock[v][i]].unit = v
      BY <1>3, <2>1 DEF InTurn, LockInTurn
    <3>5. \A i, j \in 2 .. Len(lock[v]) : lock[v][i] = lock[v][j] => i = j
      BY DEF InTurn, LockInTurn
    <3> QED
      BY <3>2, <3>3, <3>4, <3>5
  <2>5. /\ \A q \in Procs : Writes(q, u)' => lock'[u] # <<>> /\ lock'[u][1] = q
        /\ \A i \in 2 .. Len(lock'[u]) :
                user'[lock'[u][i]].pc = "lock" /\ user'[lock'[u][i]].unit = u
        /\ \A i, j \in 2 .. Len(lock'[u]) : lock'[u][i] = lock'[u][j] => i = j
    <3>1. CASE lock[u] = <<>>
      <4>1. Len(lock[u]) = 0 /\ \A q \in Procs \ {p} : ~Writes(q, u)'
        BY <1>4, <2>3, <3>1 DEF InTurn, LockInTurn
      <4> QED
        BY <1>4, <4>1
    <3>2. CASE lock[u] # <<>>
      <4>1. ~Writes(p, u)' /\ user'[p].pc = "lock"
        BY <1>2, <1>3, <3>2 DEF Writes
      <4>2. \A q \in Procs : Writes(q, u)' => lock'[u][1] = q
        BY <1>4, <2>3, <3>2, <4>1 DEF InTurn, LockInTurn
      <4>3. ASSUME NEW i \in 2 .. Len(lock'[u])
            PROVE  user'[lock'[u][i]].pc = "lock" /\ user'[lock'[u][i]].unit = u
        <5>1. CASE i \in 2 .. Len(lock[u])
          BY <1>3, <1>4, <2>1, <5>1 DEF InTurn, LockInTurn
        <5>2. CASE i = Len(lock[u]) + 1
          BY <1>3, <1>4, <4>1, <5>2
        <5> QED
          BY <1>4, <5>1, <5>2
      <4>4. \A i, j \in 2 .. Len(lock'[u]) : lock'[u][i] = lock'[u][j] => i = j
        BY <1>4, <2>1 DEF InTurn, LockInTurn
      <4> QED
        BY <1>4, <4>2, <4>3, <4>4
    <3> QED
      BY <3>1, <3>2
  <2> QED
    BY <2>4, <2>5 DEF LockInTurn
<1>7. ReadersWait'
  BY <1>1, <1>3, ReadersStay DEF InTurn
<1>8. SizesLeft'
  <2>1. user[p].calls \in Nat
    BY <1>1 DEF TermTypes, Term!User
  <2> QED
    BY <1>2, <1>3, <2>1 DEF InTurn, SizesLeft
<1> QED
  BY <1>5, <1>6, <1>7, <1>8 DEF InTurn

\* What is left of a line without its first.
LEMMA Rest ==
    ASSUME NEW S, NEW s \in Seq(S), s # <<>>
    PROVE  /\ Len(s) \in Nat \ {0} /\ Tail(s) \in Seq(S)
           /\ Len(Tail(s)) = Len(s) - 1
           /\ \A i \in 1 .. Len(Tail(s)) : Tail(s)[i] = s[i + 1]
           /\ \A i \in 1 .. Len(s) : s[i] \in S
           /\ Tail(s) # <<>> <=> Len(s) > 1
           /\ Head(s) = s[1]
           /\ Len(s) > 1 => Head(Tail(s)) = s[2]
<1>1. Len(s) \in Nat \ {0} /\ \A i \in 1 .. Len(s) : s[i] \in S
  BY EmptySeq, LenProperties, ElementOfSeq
<1>2. /\ Tail(s) \in Seq(S) /\ Len(Tail(s)) = Len(s) - 1 /\ Head(s) = s[1]
      /\ \A i \in 1 .. Len(Tail(s)) : Tail(s)[i] = s[i + 1]
  BY <1>1, HeadTailProperties
<1>3. Tail(s) # <<>> <=> Len(s) > 1
  <2> DEFINE t == Tail(s)
  <2>1. t \in Seq(S) /\ Len(t) = Len(s) - 1
    BY <1>2
  <2> HIDE DEF t
  <2>2. t # <<>> => Len(t) \in Nat \ {0}
    BY <2>1, EmptySeq
  <2>3. t = <<>> => Len(t) = 0
    BY EmptySeq
  <2>4. t # <<>> <=> Len(s) > 1
    BY <1>1, <2>1, <2>2, <2>3
  <2> QED
    BY <2>4 DEF t
<1>4. Len(s) > 1 => Head(Tail(s)) = s[2]
  <2> DEFINE t == Tail(s)
  <2> HIDE DEF t
  <2>1. t # <<>> => Head(t) = t[1]
    BY <1>2, HeadTailProperties DEF t
  <2>2. Len(s) > 1 => t # <<>> /\ t[1] = s[2]
    BY <1>1, <1>2, <1>3 DEF t
  <2> QED
    BY <2>1, <2>2 DEF t
<1> QED
  BY <1>1, <1>2, <1>3, <1>4

\* What the end of TermWrite changes: the next in line has the lock.
LEMMA ReturnEffect ==
    ASSUME InTurn, NEW p \in Procs, Term!WriteReturns(p)
    PROVE  LET u == user[p].unit
               next == IF Len(lock[u]) > 1 THEN {lock[u][2]} ELSE {}
           IN  /\ u \in Units /\ Writes(p, u) /\ lock[u][1] = p /\ user[p].size = 0
               /\ lock' \in [Units -> Seq(Procs)] /\ Len(lock[u]) \in Nat \ {0}
               /\ \A v \in Units \ {u} : lock'[v] = lock[v]
               /\ Len(lock'[u]) = Len(lock[u]) - 1
               /\ \A i \in 1 .. Len(lock'[u]) : lock'[u][i] = lock[u][i + 1]
               /\ next \subseteq Procs \ {p}
               /\ \A q \in next : /\ user[q].pc = "lock" /\ user[q].unit = u
                                  /\ user'[q].pc = "has_lock" /\ user'[q].unit = u
                                  /\ user'[q].size = user[q].size
                                  /\ user'[q].calls = user[q].calls
               /\ user' \in [Procs -> Term!User]
               /\ user'[p].pc = "user" /\ user'[p].calls = user[p].calls
               /\ user'[p].unit = user[p].unit
               /\ \A q \in Procs \ ({p} \cup next) : user'[q] = user[q]
<1> DEFINE u == user[p].unit
           next == IF Len(lock[u]) > 1 THEN {lock[u][2]} ELSE {}
<1>1. /\ TermTypes /\ u \in Units /\ Writes(p, u) /\ user[p].size = 0
      /\ lock' = [lock EXCEPT ![u] = Tail(lock[u])]
  BY DEF InTurn, TermTypes, Term!User, Term!WriteReturns, Term!Writing, Writes,
         Term!unlockTerminal
<1>2. lock[u] # <<>> /\ lock[u][1] = p /\ lock[u] \in Seq(Procs)
  BY <1>1 DEF InTurn, LockInTurn, TermTypes
<1> HIDE DEF u
<1>3. lock'[u] = Tail(lock[u]) /\ \A v \in Units \ {u} : lock'[v] = lock[v]
  BY <1>1 DEF TermTypes
<1>4. /\ Len(lock[u]) \in Nat \ {0} /\ lock'[u] \in Seq(Procs)
      /\ Len(lock'[u]) = Len(lock[u]) - 1
      /\ \A i \in 1 .. Len(lock'[u]) : lock'[u][i] = lock[u][i + 1]
      /\ \A i \in 1 .. Len(lock[u]) : lock[u][i] \in Procs
      /\ lock'[u] # <<>> <=> Len(lock[u]) > 1
      /\ lock'[u] # <<>> => Head(lock'[u]) = lock[u][2]
  BY <1>2, <1>3, Rest
<1>5. lock' \in [Units -> Seq(Procs)]
  BY <1>1, <1>3, <1>4 DEF TermTypes
<1>6. /\ next \subseteq Procs \ {p}
      /\ \A q \in next : user[q].pc = "lock" /\ user[q].unit = u
  <2>1. \A q \in next : q = lock[u][2] /\ 2 \in 2 .. Len(lock[u]) /\ 2 \in 1 .. Len(lock[u])
    BY <1>4
  <2>2. \A q \in next : q \in Procs /\ user[q].pc = "lock" /\ user[q].unit = u
    BY <1>1, <1>4, <2>1 DEF InTurn, LockInTurn
  <2> QED
    BY <1>1, <2>2 DEF Writes
<1>7. user' = [q \in Procs |->
              IF q = p THEN [user[q] EXCEPT !.pc = "user"]
              ELSE IF q \in next THEN [user[q] EXCEPT !.pc = "has_lock"] ELSE user[q]]
  <2>1. user' = [q \in Procs |->
              IF q = p THEN [user[q] EXCEPT !.pc = "user"]
              ELSE IF lock'[u] # <<>> /\ q = Head(lock'[u]) /\ user[q].pc = "lock"
              THEN [user[q] EXCEPT !.pc = "has_lock"] ELSE user[q]]
    BY DEF Term!WriteReturns, u
  <2>2. \A q \in Procs \ {p} :
            lock'[u] # <<>> /\ q = Head(lock'[u]) /\ user[q].pc = "lock" <=> q \in next
    BY <1>4, <1>6
  <2> HIDE DEF next
  <2> QED
    BY <2>1, <2>2
<1> HIDE DEF next
<1>8. ASSUME NEW q \in Procs, NEW pc \in Term!PCs
      PROVE  /\ [user[q] EXCEPT !.pc = pc] \in Term!User
             /\ [user[q] EXCEPT !.pc = pc].pc = pc
             /\ [user[q] EXCEPT !.pc = pc].unit = user[q].unit
             /\ [user[q] EXCEPT !.pc = pc].size = user[q].size
             /\ [user[q] EXCEPT !.pc = pc].calls = user[q].calls
  BY <1>1 DEF TermTypes, Term!User
<1>9. "user" \in Term!PCs /\ "has_lock" \in Term!PCs
  BY DEF Term!PCs
<1>10. /\ user'[p] = [user[p] EXCEPT !.pc = "user"]
       /\ \A q \in next : user'[q] = [user[q] EXCEPT !.pc = "has_lock"]
       /\ \A q \in Procs \ ({p} \cup next) : user'[q] = user[q]
  BY <1>6, <1>7
<1>11. user' \in [Procs -> Term!User]
  <2>1. \A q \in Procs : user[q] \in Term!User
    BY <1>1 DEF TermTypes
  <2> QED
    BY <1>7, <1>8, <1>9, <2>1
<1>12. /\ user'[p].pc = "user" /\ user'[p].calls = user[p].calls
       /\ user'[p].unit = user[p].unit
  BY <1>8, <1>9, <1>10
<1>13. \A q \in next : /\ user'[q].pc = "has_lock" /\ user'[q].unit = user[q].unit
                       /\ user'[q].size = user[q].size
                       /\ user'[q].calls = user[q].calls
  <2> SUFFICES ASSUME NEW q \in next
               PROVE  /\ user'[q].pc = "has_lock" /\ user'[q].unit = user[q].unit
                      /\ user'[q].size = user[q].size
                      /\ user'[q].calls = user[q].calls
    OBVIOUS
  <2>1. q \in Procs /\ user'[q] = [user[q] EXCEPT !.pc = "has_lock"]
    BY <1>6, <1>10
  <2> QED
    BY <1>8, <1>9, <2>1
<1> QED
  BY <1>1, <1>2, <1>3, <1>4, <1>5, <1>6, <1>10, <1>11, <1>12, <1>13 DEF u, next

\* A writer has sent its text, and the next one has the lock.
LEMMA ReturnInTurn ==
    ASSUME InTurn, NEW p \in Procs, Term!WriteReturns(p)
    PROVE  InTurn'
<1>0. PICK u : u = user[p].unit
  OBVIOUS
<1> DEFINE next == IF Len(lock[u]) > 1 THEN {lock[u][2]} ELSE {}
<1>1. /\ u \in Units /\ Writes(p, u) /\ lock[u][1] = p
      /\ lock' \in [Units -> Seq(Procs)] /\ Len(lock[u]) \in Nat \ {0}
      /\ \A v \in Units \ {u} : lock'[v] = lock[v]
      /\ Len(lock'[u]) = Len(lock[u]) - 1
      /\ \A i \in 1 .. Len(lock'[u]) : lock'[u][i] = lock[u][i + 1]
      /\ next \subseteq Procs \ {p}
      /\ \A q \in next : /\ user[q].pc = "lock" /\ user[q].unit = u
                         /\ user'[q].pc = "has_lock" /\ user'[q].unit = u
                         /\ user'[q].size = user[q].size
                         /\ user'[q].calls = user[q].calls
      /\ user' \in [Procs -> Term!User]
      /\ user'[p].pc = "user" /\ user'[p].calls = user[p].calls
      /\ \A q \in Procs \ ({p} \cup next) : user'[q] = user[q]
  BY <1>0, ReturnEffect
<1>2. /\ UNCHANGED <<READ_BUFFER_SIZE, ready, lines, readers, buffer, terminal>>
      /\ TermTypes
  BY DEF Term!WriteReturns, InTurn
<1>3. /\ \A q \in next : q = lock[u][2] /\ Len(lock[u]) > 1
      /\ Len(lock[u]) > 1 => lock[u][2] \in next
  BY <1>1
<1> HIDE DEF next
<1>4. TermTypes'
  BY <1>1, <1>2 DEF TermTypes
<1>5. LockInTurn'
  <2>1. ASSUME NEW v \in Units \ {u}
        PROVE  /\ \A q \in Procs : Writes(q, v)' => lock'[v] # <<>> /\ lock'[v][1] = q
               /\ \A i \in 2 .. Len(lock'[v]) :
                       user'[lock'[v][i]].pc = "lock" /\ user'[lock'[v][i]].unit = v
               /\ \A i, j \in 2 .. Len(lock'[v]) : lock'[v][i] = lock'[v][j] => i = j
    <3>1. lock'[v] = lock[v]
      BY <1>1
    <3>2. \A q \in Procs : Writes(q, v)' => lock[v] # <<>> /\ lock[v][1] = q
      <4>1. ~Writes(p, v)' /\ \A q \in next : ~Writes(q, v)'
        BY <1>1 DEF Writes
      <4>2. \A q \in Procs \ ({p} \cup next) : Writes(q, v)' => Writes(q, v)
        BY <1>1 DEF Writes
      <4> QED
        BY <4>1, <4>2 DEF InTurn, LockInTurn
    <3>3. ASSUME NEW i \in 2 .. Len(lock[v])
          PROVE  user'[lock[v][i]].pc = "lock" /\ user'[lock[v][i]].unit = v
      <4>1. /\ lock[v][i] \in Procs
            /\ user[lock[v][i]].pc = "lock" /\ user[lock[v][i]].unit = v
        BY <1>2, ElementOfSeq, LenProperties DEF TermTypes, InTurn, LockInTurn
      <4>2. lock[v][i] \notin {p} \cup next
        BY <1>1, <4>1 DEF Writes
      <4> QED
        BY <1>1, <4>1, <4>2
    <3>4. \A i, j \in 2 .. Len(lock[v]) : lock[v][i] = lock[v][j] => i = j
      BY DEF InTurn, LockInTurn
    <3> QED
      BY <3>1, <3>2, <3>3, <3>4
  <2>2. \A q \in Procs : Writes(q, u)' => lock'[u] # <<>> /\ lock'[u][1] = q
    <3>1. \A q \in Procs \ next : ~Writes(q, u)'
      <4>1. ~Writes(p, u)'
        BY <1>1 DEF Writes
      <4>2. \A q \in Procs \ ({p} \cup next) : Writes(q, u)' => Writes(q, u)
        BY <1>1 DEF Writes
      <4>3. \A q \in Procs : Writes(q, u) => q = p
        BY <1>1, OneWrites
      <4> QED
        BY <4>1, <4>2, <4>3
    <3>2. ASSUME NEW q \in next
          PROVE  lock'[u] # <<>> /\ lock'[u][1] = q
      <4>1. q = lock[u][2] /\ Len(lock'[u]) >= 1
        BY <1>1, <1>3
      <4> QED
        BY <1>1, <4>1
    <3> QED
      BY <3>1, <3>2
  <2>3. ASSUME NEW i \in 2 .. Len(lock'[u])
        PROVE  user'[lock'[u][i]].pc = "lock" /\ user'[lock'[u][i]].unit = u
    <3>1. /\ i + 1 \in 2 .. Len(lock[u]) /\ 2 \in 2 .. Len(lock[u]) /\ i + 1 # 2
          /\ lock'[u][i] = lock[u][i + 1] /\ i + 1 \in 1 .. Len(lock[u])
      BY <1>1
    <3>2. /\ lock[u][i + 1] \in Procs
          /\ user[lock[u][i + 1]].pc = "lock" /\ user[lock[u][i + 1]].unit = u
      BY <1>1, <1>2, <3>1, ElementOfSeq DEF TermTypes, InTurn, LockInTurn
    <3>3. lock[u][i + 1] # p
      BY <1>1, <3>2 DEF Writes
    <3>4. lock[u][i + 1] # lock[u][2]
      BY <1>1, <3>1 DEF InTurn, LockInTurn
    <3> QED
      BY <1>1, <1>3, <3>1, <3>2, <3>3, <3>4
  <2>4. ASSUME NEW i \in 2 .. Len(lock'[u]), NEW j \in 2 .. Len(lock'[u]),
               lock'[u][i] = lock'[u][j]
        PROVE  i = j
    <3>1. /\ i + 1 \in 2 .. Len(lock[u]) /\ j + 1 \in 2 .. Len(lock[u])
          /\ lock[u][i + 1] = lock[u][j + 1]
      BY <1>1, <2>4
    <3>2. i + 1 = j + 1
      BY <1>1, <3>1 DEF InTurn, LockInTurn
    <3> QED
      BY <3>2
  <2> QED
    <3> SUFFICES ASSUME NEW v \in Units
                 PROVE  /\ \A q \in Procs : Writes(q, v)' => lock'[v] # <<>> /\ lock'[v][1] = q
                        /\ \A i \in 2 .. Len(lock'[v]) :
                             user'[lock'[v][i]].pc = "lock" /\ user'[lock'[v][i]].unit = v
                        /\ \A i, j \in 2 .. Len(lock'[v]) :
                             lock'[v][i] = lock'[v][j] => i = j
      BY DEF LockInTurn
    <3>1. CASE v \in Units \ {u}
      BY <2>1, <3>1
    <3>2. CASE v = u
      <4>1. \A q \in Procs : Writes(q, v)' => lock'[v] # <<>> /\ lock'[v][1] = q
        BY <2>2, <3>2
      <4>2. \A i \in 2 .. Len(lock'[v]) :
                user'[lock'[v][i]].pc = "lock" /\ user'[lock'[v][i]].unit = v
        BY <2>3, <3>2
      <4>3. \A i, j \in 2 .. Len(lock'[v]) : lock'[v][i] = lock'[v][j] => i = j
        BY <2>4, <3>2
      <4> QED
        BY <4>1, <4>2, <4>3
    <3> QED
      BY <3>1, <3>2
<1>6. ReadersWait'
  <2>1. \A q \in Procs : user[q].pc = "line" => q \notin {p} \cup next
    BY <1>1 DEF Writes
  <2> QED
    BY <1>1, <1>2, <2>1, ReadersStay DEF InTurn
<1>7. SizesLeft'
  <2>1. \A q \in next : user[q].size >= 0 /\ user[q].calls > 0
    BY <1>1 DEF InTurn, SizesLeft
  <2>2. \A q \in next : user'[q].size >= 0 /\ user'[q].calls > 0 /\ user'[q].pc = "has_lock"
    BY <1>1, <2>1
  <2> QED
    BY <1>1, <2>2 DEF InTurn, SizesLeft
<1> QED
  BY <1>4, <1>5, <1>6, <1>7 DEF InTurn

\* What TermRead changes of the lines, and of what is known to be read: nothing,
\* or the first line is read.
LEMMA ReadEffect ==
    ASSUME TermTypes, NEW p \in Procs, NEW u \in Units, NEW size \in Sizes,
           Term!ourTermRead(p, u, size)
    PROVE  /\ lines' \in [Units -> Seq(Seq(Nat))] /\ terminal' \in [Units -> Term!Device]
           /\ UNCHANGED <<lock, ready, buffer>>
           /\ \/ UNCHANGED <<lines, terminal>>
              \/ /\ lines[u] # <<>> /\ lines'[u] = Tail(lines[u])
                 /\ \A v \in Units \ {u} : lines'[v] = lines[v] /\ terminal'[v] = terminal[v]
                 /\ terminal'[u].read = terminal[u].read \o Head(lines[u])
                 /\ terminal'[u].busy = terminal[u].busy
                 /\ terminal'[u].raised = terminal[u].raised
                 /\ terminal'[u].shown = terminal[u].shown
                 /\ terminal'[u].lost = terminal[u].lost
                 /\ terminal'[u].typed = terminal[u].typed
                 /\ terminal'[u].dropped = terminal[u].dropped
<1>1. UNCHANGED <<lock, ready, buffer>>
  BY DEF Term!ourTermRead
<1>2. CASE UNCHANGED <<lines, terminal>>
  BY <1>1, <1>2 DEF TermTypes
<1>3. CASE /\ lines[u] # <<>>
           /\ lines' = [lines EXCEPT ![u] = Tail(lines[u])]
           /\ terminal' = [terminal EXCEPT ![u].read = terminal[u].read \o Head(lines[u])]
  <2> DEFINE r == terminal[u].read \o Head(lines[u])
             d == [terminal[u] EXCEPT !.read = r]
  <2>1. lines[u] \in Seq(Seq(Nat)) /\ terminal[u] \in Term!Device
    BY DEF TermTypes
  <2>2. Tail(lines[u]) \in Seq(Seq(Nat)) /\ Head(lines[u]) \in Seq(Nat)
    BY <1>3, <2>1, HeadTailProperties
  <2>3. r \in Seq(Nat)
    BY <2>1, <2>2, ConcatProperties DEF Term!Device
  <2>4. terminal' = [terminal EXCEPT ![u] = d]
    BY <1>3 DEF TermTypes
  <2> HIDE DEF r
  <2>5. /\ d \in Term!Device /\ d.read = r /\ d.busy = terminal[u].busy
        /\ d.raised = terminal[u].raised /\ d.shown = terminal[u].shown
        /\ d.lost = terminal[u].lost /\ d.typed = terminal[u].typed
        /\ d.dropped = terminal[u].dropped
    BY <2>1, <2>3 DEF Term!Device
  <2> HIDE DEF d
  <2>6. /\ terminal' \in [Units -> Term!Device] /\ terminal'[u] = d
        /\ \A v \in Units \ {u} : terminal'[v] = terminal[v]
    BY <2>4, <2>5 DEF TermTypes
  <2>7. /\ lines' \in [Units -> Seq(Seq(Nat))] /\ lines'[u] = Tail(lines[u])
        /\ \A v \in Units \ {u} : lines'[v] = lines[v]
    BY <1>3, <2>2 DEF TermTypes
  <2> QED
    BY <1>1, <1>3, <2>5, <2>6, <2>7 DEF r
<1> QED
  BY <1>2, <1>3 DEF Term!ourTermRead, TermTypes

\* A call of TermRead comes back, with a line or without, or is last in line.
LEMMA ReadInTurn ==
    ASSUME InTurn, NEW p \in Procs, NEW u \in Units, NEW size \in Sizes,
           Term!ourTermRead(p, u, size)
    PROVE  InTurn'
<1>1. /\ TermTypes /\ user[p].pc = "user" /\ user[p].calls < MaxCalls /\ size \in Int
      /\ READ_BUFFER_SIZE' = size /\ UNCHANGED <<lock, ready, buffer>>
  BY TerminalConstants DEF InTurn, Term!ourTermRead, Term!MayCall
<1>2. PICK pc \in {"user", "line"}, left \in Int : Term!Calls(p, pc, u, left)
  <2>1. Term!Calls(p, "user", u, 0) \/ Term!Calls(p, "line", u, size)
    BY DEF Term!ourTermRead, Term!ReadReturns
  <2> HIDE DEF Term!Calls
  <2> QED
    BY <1>1, <2>1
<1>3. /\ user' \in [Procs -> Term!User] /\ user'[p].pc = pc /\ user'[p].unit = u
      /\ user'[p].calls = user[p].calls + 1
      /\ \A q \in Procs \ {p} : user'[q] = user[q]
  BY <1>1, <1>2, CallsEffect DEF Term!PCs
<1>4. LockInTurn'
  BY <1>1, <1>3, LockStays DEF InTurn, Writes
<1>5. SizesLeft'
  <2>1. user[p].calls \in Nat
    BY <1>1 DEF TermTypes, Term!User
  <2> QED
    BY <1>3, <2>1 DEF InTurn, SizesLeft
<1>6. lines' \in [Units -> Seq(Seq(Nat))] /\ terminal' \in [Units -> Term!Device]
  BY <1>1, ReadEffect
<1>7. readers' \in [Units -> Seq(Procs)] /\ ReadersWait'
  <2>1. CASE readers' = readers
    BY <1>1, <1>3, <2>1, ReadersStay DEF InTurn, TermTypes
  <2>2. CASE readers' # readers
    <3>1. readers' = [readers EXCEPT ![u] = Append(readers[u], p)] /\ user'[p].pc = "line"
      <4>1. /\ readers' = [readers EXCEPT ![u] = Append(readers[u], p)]
            /\ Term!Calls(p, "line", u, size)
        BY <2>2 DEF Term!ourTermRead
      <4> QED
        BY <1>1, <4>1, CallsEffect DEF Term!PCs
    <3>2. /\ readers[u] \in Seq(Procs) /\ Len(readers[u]) \in Nat
          /\ readers' \in [Units -> Seq(Procs)]
          /\ \A v \in Units \ {u} : readers'[v] = readers[v]
          /\ Len(readers'[u]) = Len(readers[u]) + 1
          /\ \A i \in 1 .. Len(readers[u]) : readers'[u][i] = readers[u][i]
          /\ readers'[u][Len(readers[u]) + 1] = p
      <4>1. readers[u] \in Seq(Procs) /\ readers'[u] = Append(readers[u], p)
        BY <1>1, <3>1 DEF TermTypes
      <4>2. readers' \in [Units -> Seq(Procs)]
            /\ \A v \in Units \ {u} : readers'[v] = readers[v]
        BY <1>1, <3>1, <4>1, AppendProperties DEF TermTypes
      <4> QED
        BY <4>1, <4>2, LenProperties, AppendProperties
    <3>3. \A v \in Units : \A i \in 1 .. Len(readers[v]) : readers[v][i] \in Procs \ {p}
      BY <1>1, ElementOfSeq, LenProperties DEF InTurn, ReadersWait, TermTypes
    <3>4. \A v \in Units : \A i \in 1 .. Len(readers[v]) :
              user'[readers[v][i]].pc = "line" /\ user'[readers[v][i]].unit = v
      BY <1>3, <3>3 DEF InTurn, ReadersWait
    <3>5. ASSUME NEW i \in 1 .. Len(readers'[u])
          PROVE  user'[readers'[u][i]].pc = "line" /\ user'[readers'[u][i]].unit = u
      <4>1. CASE i \in 1 .. Len(readers[u])
        BY <3>2, <3>4, <4>1
      <4>2. CASE i = Len(readers[u]) + 1
        BY <1>3, <3>1, <3>2, <4>2
      <4> QED
        BY <3>2, <4>1, <4>2
    <3>6. ASSUME NEW i \in 1 .. Len(readers'[u]), NEW j \in 1 .. Len(readers'[u]),
                 readers'[u][i] = readers'[u][j]
          PROVE  i = j
      <4> DEFINE n == Len(readers[u])
      <4>1. /\ n \in Nat /\ i \in 1 .. n + 1 /\ j \in 1 .. n + 1
            /\ i \in 1 .. n => readers'[u][i] = readers[u][i] /\ readers[u][i] # p
            /\ j \in 1 .. n => readers'[u][j] = readers[u][j] /\ readers[u][j] # p
            /\ readers'[u][n + 1] = p
        BY <3>2, <3>3
      <4>2. i \in 1 .. n /\ j \in 1 .. n => i = j
        BY <3>6, <4>1 DEF InTurn, ReadersWait
      <4> HIDE DEF n
      <4> QED
        BY <3>6, <4>1, <4>2
    <3>7. ReadersWait'
      <4> SUFFICES ASSUME NEW v \in Units
                   PROVE  /\ \A i \in 1 .. Len(readers'[v]) :
                                /\ user'[readers'[v][i]].pc = "line"
                                /\ user'[readers'[v][i]].unit = v
                          /\ \A i, j \in 1 .. Len(readers'[v]) :
                                readers'[v][i] = readers'[v][j] => i = j
        BY DEF ReadersWait
      <4>1. CASE v = u
        BY <3>5, <3>6, <4>1
      <4>2. CASE v # u
        <5>1. readers'[v] = readers[v]
          BY <3>2, <4>2
        <5> QED
          BY <3>4, <5>1 DEF InTurn, ReadersWait
      <4> QED
        BY <4>1, <4>2
    <3> QED
      BY <3>2, <3>7
  <2> QED
    BY <2>1, <2>2
<1>8. TermTypes'
  BY <1>1, <1>3, <1>6, <1>7 DEF TermTypes
<1> QED
  BY <1>4, <1>5, <1>7, <1>8 DEF InTurn

-----------------------------------------------------------------------------
\* One turn of termMain2: what it is made of.
Keys == {"none", "letter", "newline"}
IsReady(u, sent) == sent \/ ~terminal[u].busy
Writers(u, sent) ==
    {p \in Procs : IsReady(u, sent) /\ user[p].pc = "transmit" /\ user[p].unit = u}
Line(u, key) ==
    IF key = "none" THEN buffer[u] ELSE Append(buffer[u], terminal[u].typed + 1)
Over(u, key) == key # "none" /\ Term!EndsLine(Len(Line(u, key)), key = "newline")
Kept(u, key) == Over(u, key) /\ (readers[u] # <<>> \/ Len(lines[u]) < MaxLines)
Queue(u, key) == IF Kept(u, key) THEN Append(lines[u], Line(u, key)) ELSE lines[u]
Woken(u, key) == {p \in Procs : Over(u, key) /\ readers[u] # <<>> /\ p = Head(readers[u])}
Taken(u, key) == \E p \in Woken(u, key) : Len(Head(Queue(u, key))) <= user[p].size

\* The line, and the queue of lines.
LEMMA TurnLines ==
    ASSUME TermTypes, NEW u \in Units, NEW sent \in BOOLEAN, NEW key \in Keys,
           Term!Interrupt(u, sent, key)
    PROVE  /\ Line(u, key) \in Seq(Nat) /\ Queue(u, key) \in Seq(Seq(Nat))
           /\ Taken(u, key) => Kept(u, key) /\ Queue(u, key) # <<>>
           /\ buffer' \in [Units -> Seq(Nat)] /\ lines' \in [Units -> Seq(Seq(Nat))]
           /\ buffer'[u] = IF Over(u, key) THEN <<>> ELSE Line(u, key)
           /\ lines'[u] = IF Taken(u, key) THEN Tail(Queue(u, key)) ELSE Queue(u, key)
           /\ \A v \in Units \ {u} : buffer'[v] = buffer[v] /\ lines'[v] = lines[v]
<1>1. buffer[u] \in Seq(Nat) /\ lines[u] \in Seq(Seq(Nat)) /\ terminal[u].typed \in Nat
  BY TerminalConstants DEF TermTypes, Term!Device
<1>2. Line(u, key) \in Seq(Nat)
  BY <1>1, AppendProperties DEF Line
<1>3. Queue(u, key) \in Seq(Seq(Nat)) /\ (Kept(u, key) => Queue(u, key) # <<>>)
  <2>1. CASE Kept(u, key)
    <3> DEFINE q == Append(lines[u], Line(u, key))
    <3>1. q \in Seq(Seq(Nat)) /\ Len(q) = Len(lines[u]) + 1 /\ Len(lines[u]) \in Nat
      BY <1>1, <1>2, AppendProperties, LenProperties
    <3> HIDE DEF q
    <3>2. q # <<>>
      <4>1. q = <<>> => Len(q) = 0
        BY EmptySeq
      <4> QED
        BY <3>1, <4>1
    <3> QED
      BY <2>1, <3>1, <3>2 DEF Queue, q
  <2>2. CASE ~Kept(u, key)
    BY <1>1, <2>2 DEF Queue
  <2> QED
    BY <2>1, <2>2
<1>4. Taken(u, key) => Kept(u, key)
  BY DEF Taken, Woken, Kept
<1>5. Taken(u, key) => Tail(Queue(u, key)) \in Seq(Seq(Nat))
  BY <1>3, <1>4, HeadTailProperties
<1>6. /\ buffer' = [buffer EXCEPT ![u] = IF Over(u, key) THEN <<>> ELSE Line(u, key)]
      /\ lines' = [lines EXCEPT ![u] = IF Taken(u, key) THEN Tail(Queue(u, key))
                                       ELSE Queue(u, key)]
  BY Zenon DEF Term!Interrupt, Term!termMain2, Term!NextBuffer, IsReady, Writers, Line, Over,
               Kept, Queue, Woken, Taken
<1>7. <<>> \in Seq(Nat)
  BY EmptySeq
<1>8. /\ (IF Over(u, key) THEN <<>> ELSE Line(u, key)) \in Seq(Nat)
      /\ (IF Taken(u, key) THEN Tail(Queue(u, key)) ELSE Queue(u, key)) \in Seq(Seq(Nat))
  BY <1>2, <1>3, <1>5, <1>7
<1> QED
  BY <1>2, <1>3, <1>4, <1>6, <1>8 DEF TermTypes

\* The device, and whether it is ready.
LEMMA TurnTerminal ==
    ASSUME TermTypes, NEW u \in Units, NEW sent \in BOOLEAN, NEW key \in Keys,
           Term!Interrupt(u, sent, key)
    PROVE  /\ terminal' \in [Units -> Term!Device] /\ ready' \in [Units -> BOOLEAN]
           /\ terminal'[u].busy = ~IsReady(u, sent)
           /\ terminal'[u].raised = (terminal[u].raised \/ sent)
           /\ terminal'[u].shown = terminal[u].shown /\ terminal'[u].lost = terminal[u].lost
           /\ terminal'[u].typed = IF key = "none" THEN terminal[u].typed
                                   ELSE terminal[u].typed + 1
           /\ terminal'[u].read = IF Taken(u, key)
                                  THEN terminal[u].read \o Head(Queue(u, key))
                                  ELSE terminal[u].read
           /\ terminal'[u].dropped = IF Over(u, key) /\ ~Kept(u, key)
                                     THEN terminal[u].dropped \cup Term!ToSet(Line(u, key))
                                     ELSE terminal[u].dropped
           /\ ready'[u] = (ready[u] \/ (IsReady(u, sent) /\ Writers(u, sent) = {}))
           /\ \A v \in Units \ {u} : terminal'[v] = terminal[v] /\ ready'[v] = ready[v]
<1> DEFINE b == ~IsReady(u, sent)
           r == terminal[u].raised \/ sent
           t == IF key = "none" THEN terminal[u].typed ELSE terminal[u].typed + 1
           e == IF Taken(u, key) THEN terminal[u].read \o Head(Queue(u, key))
                ELSE terminal[u].read
           d == IF Over(u, key) /\ ~Kept(u, key)
                THEN terminal[u].dropped \cup Term!ToSet(Line(u, key))
                ELSE terminal[u].dropped
           w == [terminal[u] EXCEPT !.busy = b, !.raised = r, !.typed = t, !.read = e,
                                    !.dropped = d]
           f == ready[u] \/ (IsReady(u, sent) /\ Writers(u, sent) = {})
<1>1. terminal[u] \in Term!Device /\ ready[u] \in BOOLEAN
  BY DEF TermTypes
<1>2. /\ terminal' = [terminal EXCEPT ![u].busy = b, ![u].raised = r, ![u].typed = t,
                                      ![u].read = e, ![u].dropped = d]
      /\ ready' = [ready EXCEPT ![u] = f]
  BY Zenon DEF Term!Interrupt, Term!termMain2, Term!NextBuffer, IsReady, Writers, Line, Over,
               Kept, Queue, Woken, Taken
<1>3. b \in BOOLEAN /\ r \in BOOLEAN /\ f \in BOOLEAN
  BY <1>1 DEF IsReady
<1>4. t \in 0 .. MaxTyped
  <2>1. key # "none" => terminal[u].typed < MaxTyped
    BY DEF Term!Interrupt
  <2>2. terminal[u].typed \in 0 .. MaxTyped /\ MaxTyped \in Nat
    BY <1>1, TerminalConstants DEF Term!Device
  <2> QED
    BY <2>1, <2>2
<1>5. e \in Seq(Nat)
  <2>1. /\ terminal[u].read \in Seq(Nat) /\ Queue(u, key) \in Seq(Seq(Nat))
        /\ Taken(u, key) => Queue(u, key) # <<>>
    BY <1>1, TurnLines DEF Term!Device
  <2>2. Taken(u, key) => Head(Queue(u, key)) \in Seq(Nat)
    BY <2>1, HeadTailProperties
  <2> QED
    BY <2>1, <2>2, ConcatProperties
<1>6. d \in SUBSET Nat
  <2>1. Term!ToSet(Line(u, key)) \subseteq Nat
    BY TurnLines, LenProperties DEF Term!ToSet
  <2> QED
    BY <1>1, <2>1 DEF Term!Device
<1> HIDE DEF b, r, t, e, d, f
<1>7. /\ w \in Term!Device /\ w.busy = b /\ w.raised = r /\ w.shown = terminal[u].shown
      /\ w.lost = terminal[u].lost /\ w.typed = t /\ w.read = e /\ w.dropped = d
  BY <1>1, <1>3, <1>4, <1>5, <1>6 DEF Term!Device
<1>8. terminal' = [terminal EXCEPT ![u] = w]
  BY <1>1, <1>2 DEF TermTypes, Term!Device
<1> HIDE DEF w
<1>9. /\ terminal' \in [Units -> Term!Device] /\ terminal'[u] = w
      /\ \A v \in Units \ {u} : terminal'[v] = terminal[v]
  BY <1>7, <1>8 DEF TermTypes
<1>10. ready' = [ready EXCEPT ![u] = f]
  BY <1>2
<1>11. /\ ready' \in [Units -> BOOLEAN] /\ ready'[u] = f
       /\ \A v \in Units \ {u} : ready'[v] = ready[v]
  BY <1>3, <1>10 DEF TermTypes
<1> QED
  BY <1>7, <1>9, <1>11 DEF b, r, t, e, d, f

\* The processes: a writer gets the terminal, a reader comes back.
LEMMA TurnUsers ==
    ASSUME InTurn, NEW u \in Units, NEW sent \in BOOLEAN, NEW key \in Keys,
           Term!Interrupt(u, sent, key)
    PROVE  /\ user' \in [Procs -> Term!User]
           /\ \A q \in Writers(u, sent) :
                  /\ q \in Procs /\ user[q].pc = "transmit" /\ user[q].unit = u
                  /\ user'[q].pc = "has_terminal"
           /\ \A q \in Woken(u, key) :
                  /\ q \in Procs /\ user[q].pc = "line" /\ user[q].unit = u
                  /\ user'[q].pc = "user"
           /\ \A q \in Procs : /\ user'[q].unit = user[q].unit /\ user'[q].size = user[q].size
                               /\ user'[q].calls = user[q].calls
           /\ \A q \in Procs \ (Writers(u, sent) \cup Woken(u, key)) : user'[q] = user[q]
<1>1. user' = [p \in Procs |->
                 IF p \in Writers(u, sent) THEN [user[p] EXCEPT !.pc = "has_terminal"]
                 ELSE IF p \in Woken(u, key) THEN [user[p] EXCEPT !.pc = "user"]
                 ELSE user[p]]
  BY Zenon DEF Term!Interrupt, Term!termMain2, Term!NextBuffer, IsReady, Writers, Line, Over,
               Kept, Queue, Woken, Taken
<1>2. ASSUME NEW q \in Procs, NEW pc \in Term!PCs
      PROVE  /\ [user[q] EXCEPT !.pc = pc] \in Term!User
             /\ [user[q] EXCEPT !.pc = pc].pc = pc
             /\ [user[q] EXCEPT !.pc = pc].unit = user[q].unit
             /\ [user[q] EXCEPT !.pc = pc].size = user[q].size
             /\ [user[q] EXCEPT !.pc = pc].calls = user[q].calls
  BY DEF InTurn, TermTypes, Term!User
<1>3. "has_terminal" \in Term!PCs /\ "user" \in Term!PCs
  BY DEF Term!PCs
<1>4. \A q \in Writers(u, sent) : q \in Procs /\ user[q].pc = "transmit" /\ user[q].unit = u
  BY DEF Writers
<1>5. \A q \in Woken(u, key) : q \in Procs /\ user[q].pc = "line" /\ user[q].unit = u
  <2> SUFFICES ASSUME NEW q \in Woken(u, key)
               PROVE  q \in Procs /\ user[q].pc = "line" /\ user[q].unit = u
    OBVIOUS
  <2>1. q \in Procs /\ readers[u] # <<>> /\ q = Head(readers[u])
    BY DEF Woken
  <2>2. q = readers[u][1] /\ 1 \in 1 .. Len(readers[u])
    BY <2>1, Rest DEF InTurn, TermTypes
  <2> QED
    BY <2>1, <2>2 DEF InTurn, ReadersWait
<1>6. \A q \in Procs : user[q] \in Term!User
  BY DEF InTurn, TermTypes
<1>7. ASSUME NEW q \in Procs
      PROVE  /\ user'[q] \in Term!User
             /\ user'[q].unit = user[q].unit /\ user'[q].size = user[q].size
             /\ user'[q].calls = user[q].calls
             /\ q \in Writers(u, sent) => user'[q].pc = "has_terminal"
             /\ q \in Woken(u, key) => user'[q].pc = "user"
             /\ q \notin Writers(u, sent) \cup Woken(u, key) => user'[q] = user[q]
  <2>1. CASE q \in Writers(u, sent)
    <3>1. user'[q] = [user[q] EXCEPT !.pc = "has_terminal"] /\ q \notin Woken(u, key)
      BY <1>1, <1>4, <1>5, <2>1
    <3> QED
      BY <1>2, <1>3, <2>1, <3>1
  <2>2. CASE q \in Woken(u, key)
    <3>1. user'[q] = [user[q] EXCEPT !.pc = "user"] /\ q \notin Writers(u, sent)
      BY <1>1, <1>4, <1>5, <2>2
    <3> QED
      BY <1>2, <1>3, <2>2, <3>1
  <2>3. CASE q \notin Writers(u, sent) \cup Woken(u, key)
    BY <1>1, <1>6, <2>3
  <2> QED
    BY <2>1, <2>2, <2>3
<1>8. user' \in [Procs -> Term!User]
  BY <1>1, <1>7
<1> QED
  BY <1>4, <1>5, <1>7, <1>8

\* An interrupt, and the turn of the daemon.
LEMMA InterruptInTurn ==
    ASSUME InTurn, NEW u \in Units, NEW sent \in BOOLEAN, NEW key \in Keys,
           Term!Interrupt(u, sent, key)
    PROVE  InTurn'
<1>1. /\ TermTypes
      /\ UNCHANGED <<READ_BUFFER_SIZE, lock>>
      /\ readers' = [readers EXCEPT ![u] = IF Woken(u, key) # {} THEN Tail(readers[u])
                                           ELSE readers[u]]
  <2>1. TermTypes /\ UNCHANGED <<READ_BUFFER_SIZE, lock>>
    BY DEF InTurn, Term!Interrupt
  <2>2. readers' = [readers EXCEPT ![u] = IF Woken(u, key) # {} THEN Tail(readers[u])
                                          ELSE readers[u]]
    BY Zenon DEF Term!Interrupt, Term!termMain2, Term!NextBuffer, IsReady, Writers, Line, Over,
                 Kept, Queue, Woken, Taken
  <2> QED
    BY <2>1, <2>2
<1>2. LockInTurn'
  <2>1. \A q \in Procs : \A v \in Units : Writes(q, v)' => Writes(q, v)
    BY TurnUsers DEF Writes
  <2>2. \A q \in Procs : user[q].pc = "lock" =>
                             user'[q].pc = "lock" /\ user'[q].unit = user[q].unit
    BY TurnUsers
  <2> QED
    BY <1>1, <2>1, <2>2, LockStays DEF InTurn
<1>3. readers' \in [Units -> Seq(Procs)] /\ ReadersWait'
  <2>1. CASE Woken(u, key) = {}
    <3>1. readers' = readers
      BY <1>1, <2>1 DEF TermTypes
    <3>2. \A q \in Procs : user[q].pc = "line" =>
                               user'[q].pc = "line" /\ user'[q].unit = user[q].unit
      BY <2>1, TurnUsers
    <3> QED
      BY <1>1, <3>1, <3>2, ReadersStay DEF InTurn, TermTypes
  <2>2. CASE Woken(u, key) # {}
    <3>1. /\ readers[u] # <<>> /\ readers[u] \in Seq(Procs)
          /\ Woken(u, key) = {Head(readers[u])}
      BY <1>1, <2>2 DEF Woken, TermTypes
    <3>2. /\ Len(readers[u]) \in Nat \ {0} /\ Tail(readers[u]) \in Seq(Procs)
          /\ Len(Tail(readers[u])) = Len(readers[u]) - 1
          /\ \A i \in 1 .. Len(Tail(readers[u])) : Tail(readers[u])[i] = readers[u][i + 1]
          /\ Head(readers[u]) = readers[u][1]
      BY <3>1, Rest
    <3>3. /\ readers' \in [Units -> Seq(Procs)] /\ readers'[u] = Tail(readers[u])
          /\ \A v \in Units \ {u} : readers'[v] = readers[v]
      BY <1>1, <2>2, <3>2 DEF TermTypes
    <3>4. \A v \in Units : \A i \in 1 .. Len(readers[v]) :
              /\ readers[v][i] \in Procs
              /\ user[readers[v][i]].pc = "line" /\ user[readers[v][i]].unit = v
              /\ readers[v][i] \notin Writers(u, sent)
      BY SMTT(30), <1>1, TurnUsers, ElementOfSeq, LenProperties DEF InTurn, ReadersWait, TermTypes
    <3>5. ASSUME NEW v \in Units \ {u}
          PROVE  /\ \A i \in 1 .. Len(readers'[v]) :
                        user'[readers'[v][i]].pc = "line" /\ user'[readers'[v][i]].unit = v
                 /\ \A i, j \in 1 .. Len(readers'[v]) :
                        readers'[v][i] = readers'[v][j] => i = j
      <4>1. readers'[v] = readers[v]
        BY <3>3
      <4>2. ASSUME NEW i \in 1 .. Len(readers[v])
            PROVE  user'[readers[v][i]].pc = "line" /\ user'[readers[v][i]].unit = v
        <5>1. readers[v][i] \notin Woken(u, key)
          BY <3>4, TurnUsers
        <5> QED
          BY <3>4, <5>1, TurnUsers
      <4> QED
        BY <4>1, <4>2 DEF InTurn, ReadersWait
    <3>6. ASSUME NEW i \in 1 .. Len(readers'[u])
          PROVE  user'[readers'[u][i]].pc = "line" /\ user'[readers'[u][i]].unit = u
      <4>1. /\ i + 1 \in 1 .. Len(readers[u]) /\ 1 \in 1 .. Len(readers[u]) /\ i + 1 # 1
            /\ readers'[u][i] = readers[u][i + 1]
        BY <3>2, <3>3
      <4>2. readers[u][i + 1] # readers[u][1]
        BY <4>1 DEF InTurn, ReadersWait
      <4>3. readers[u][i + 1] \notin Woken(u, key)
        BY <3>1, <3>2, <4>2
      <4> QED
        BY <3>4, <4>1, <4>3, TurnUsers
    <3>7. ASSUME NEW i \in 1 .. Len(readers'[u]), NEW j \in 1 .. Len(readers'[u]),
                 readers'[u][i] = readers'[u][j]
          PROVE  i = j
      <4>1. /\ i + 1 \in 1 .. Len(readers[u]) /\ j + 1 \in 1 .. Len(readers[u])
            /\ readers[u][i + 1] = readers[u][j + 1]
        BY <3>2, <3>3, <3>7
      <4>2. i + 1 = j + 1
        BY <4>1 DEF InTurn, ReadersWait
      <4> QED
        BY <4>2
    <3>8. ReadersWait'
      <4> SUFFICES ASSUME NEW v \in Units
                   PROVE  /\ \A i \in 1 .. Len(readers'[v]) :
                                /\ user'[readers'[v][i]].pc = "line"
                                /\ user'[readers'[v][i]].unit = v
                          /\ \A i, j \in 1 .. Len(readers'[v]) :
                                readers'[v][i] = readers'[v][j] => i = j
        BY DEF ReadersWait
      <4>1. CASE v = u
        BY <3>6, <3>7, <4>1
      <4>2. CASE v # u
        BY <3>5, <4>2
      <4> QED
        BY <4>1, <4>2
    <3> QED
      BY <3>3, <3>8
  <2> QED
    BY <2>1, <2>2
<1>4. SizesLeft'
  <2> SUFFICES ASSUME NEW q \in Procs
               PROVE  /\ user'[q].pc # "user" => user'[q].calls > 0
                      /\ user'[q].pc \in {"call", "lock", "has_lock"} => user'[q].size >= 0
                      /\ user'[q].pc \in {"transmit", "has_terminal"} => user'[q].size > 0
    BY DEF SizesLeft
  <2>1. /\ user'[q].calls = user[q].calls /\ user'[q].size = user[q].size
        /\ q \in Writers(u, sent) => user[q].pc = "transmit" /\ user'[q].pc = "has_terminal"
        /\ q \in Woken(u, key) => user'[q].pc = "user"
        /\ q \notin Writers(u, sent) \cup Woken(u, key) => user'[q] = user[q]
    BY TurnUsers
  <2> QED
    BY <2>1 DEF InTurn, SizesLeft
<1>5. TermTypes'
  <2>1. buffer' \in [Units -> Seq(Nat)] /\ lines' \in [Units -> Seq(Seq(Nat))]
    BY <1>1, TurnLines
  <2>2. terminal' \in [Units -> Term!Device] /\ ready' \in [Units -> BOOLEAN]
    BY <1>1, TurnTerminal
  <2>3. user' \in [Procs -> Term!User]
    BY TurnUsers
  <2> QED
    BY <1>1, <1>3, <2>1, <2>2, <2>3 DEF TermTypes
<1> QED
  BY <1>2, <1>3, <1>4, <1>5 DEF InTurn

-----------------------------------------------------------------------------
\* Every step keeps the turns.
LEMMA StepInTurn ==
    ASSUME InTurn, [Next]_vars
    PROVE  InTurn'
<1>1. CASE UNCHANGED termVars
  BY <1>1 DEF termVars, InTurn, TermTypes, LockInTurn, Writes, ReadersWait, SizesLeft
<1>2. CASE Term!Next
  <2>1. ASSUME NEW p \in Procs, NEW u \in Units, NEW n \in Lengths,
               Term!ourTermWrite(p, u, n)
        PROVE  InTurn'
    BY <2>1, WriteInTurn
  <2>2. ASSUME NEW p \in Procs, NEW u \in Units, NEW size \in Sizes,
               Term!ourTermRead(p, u, size)
        PROVE  InTurn'
    BY <2>2, ReadInTurn
  <2>3. ASSUME NEW u \in Units, NEW sent \in BOOLEAN, NEW key \in Keys,
               Term!Interrupt(u, sent, key)
        PROVE  InTurn'
    BY <2>3, InterruptInTurn
  <2> QED
    BY <1>2, <2>1, <2>2, <2>3, TransmitInTurn, AwaitInTurn, ResumeInTurn, ReturnInTurn
       DEF Term!Next, Keys
<1> QED
  BY <1>1, <1>2 DEF Next, vars

\* The invariant holds always.
LEMMA InTurnInvariance == Spec => []InTurn
<1>1. Init => InTurn
  BY TerminalInit DEF Init
<1> QED
  BY <1>1, StepInTurn, PTL DEF Spec

-----------------------------------------------------------------------------
\* A line is over when it is as long as MAXLINE at the latest.
LEMMA LinesFitStep ==
    ASSUME InTurn, LinesFit, [Next]_vars
    PROVE  LinesFit'
<1>1. CASE UNCHANGED <<lines, buffer>>
  BY <1>1 DEF LinesFit, Term!LinesFit
<1>2. ASSUME NEW p \in Procs, NEW u \in Units, NEW size \in Sizes,
             Term!ourTermRead(p, u, size)
      PROVE  LinesFit'
  <2> SUFFICES ASSUME NEW v \in Units
               PROVE  /\ Len(buffer'[v]) < MAXLINE
                      /\ \A i \in 1 .. Len(lines'[v]) : Len(lines'[v][i]) <= MAXLINE
    BY DEF LinesFit, Term!LinesFit
  <2>1. /\ Len(buffer[v]) < MAXLINE
        /\ \A i \in 1 .. Len(lines[v]) : Len(lines[v][i]) <= MAXLINE
    BY DEF LinesFit, Term!LinesFit
  <2>2. TermTypes /\ buffer' = buffer
    BY <1>2, ReadEffect DEF InTurn
  <2>3. CASE lines'[v] = lines[v]
    BY <2>1, <2>2, <2>3
  <2>4. CASE v = u /\ lines[u] # <<>> /\ lines'[u] = Tail(lines[u])
    <3>1. lines[u] \in Seq(Seq(Nat))
      BY <2>2 DEF TermTypes
    <3>2. /\ Len(lines[u]) \in Nat /\ Len(Tail(lines[u])) = Len(lines[u]) - 1
          /\ \A i \in 1 .. Len(Tail(lines[u])) : Tail(lines[u])[i] = lines[u][i + 1]
      BY <2>4, <3>1, Rest
    <3> QED
      BY <2>1, <2>2, <2>4, <3>2
  <2> QED
    BY <1>2, <2>2, <2>3, <2>4, ReadEffect
<1>3. ASSUME NEW u \in Units, NEW sent \in BOOLEAN, NEW key \in Keys,
             Term!Interrupt(u, sent, key)
      PROVE  LinesFit'
  <2> SUFFICES ASSUME NEW v \in Units
               PROVE  /\ Len(buffer'[v]) < MAXLINE
                      /\ \A i \in 1 .. Len(lines'[v]) : Len(lines'[v][i]) <= MAXLINE
    BY DEF LinesFit, Term!LinesFit
  <2>1. /\ Len(buffer[v]) < MAXLINE
        /\ \A i \in 1 .. Len(lines[v]) : Len(lines[v][i]) <= MAXLINE
    BY DEF LinesFit, Term!LinesFit
  <2>2. TermTypes /\ buffer[v] \in Seq(Nat) /\ lines[v] \in Seq(Seq(Nat)) /\ MAXLINE \in Nat \ {0}
    BY TerminalConstants DEF InTurn, TermTypes
  <2>3. CASE v # u
    <3>1. buffer'[v] = buffer[v] /\ lines'[v] = lines[v]
      BY <1>3, <2>2, <2>3, TurnLines
    <3> QED
      BY <2>1, <3>1
  <2>4. CASE v = u
    <3> DEFINE line == Line(u, key)
               queue == Queue(u, key)
    <3>1. /\ line \in Seq(Nat) /\ queue \in Seq(Seq(Nat)) /\ Len(line) \in Nat
          /\ Taken(u, key) => queue # <<>>
          /\ buffer'[u] = IF Over(u, key) THEN <<>> ELSE line
          /\ lines'[u] = IF Taken(u, key) THEN Tail(queue) ELSE queue
      BY <1>3, <2>2, TurnLines, LenProperties
    <3>2. Len(line) <= MAXLINE /\ (~Over(u, key) => Len(line) < MAXLINE)
      <4>1. Len(buffer[u]) \in Nat /\ Len(buffer[u]) < MAXLINE
        BY <2>1, <2>2, <2>4, LenProperties
      <4>2. CASE key = "none"
        BY <2>2, <2>4, <4>1, <4>2 DEF Line
      <4>3. CASE key # "none"
        <5>1. Len(line) = Len(buffer[u]) + 1
          BY <2>2, <2>4, <4>3, AppendProperties DEF Line, TermTypes, Term!Device
        <5>2. ~Over(u, key) => Len(line) # MAXLINE
          BY <4>3 DEF Over, Term!EndsLine
        <5> QED
          BY <2>2, <4>1, <5>1, <5>2
      <4> QED
        BY <4>2, <4>3
    <3>3. \A i \in 1 .. Len(queue) : Len(queue[i]) <= MAXLINE
      <4>1. CASE Kept(u, key)
        <5>1. /\ Len(queue) = Len(lines[u]) + 1 /\ Len(lines[u]) \in Nat
              /\ queue[Len(lines[u]) + 1] = line
              /\ \A i \in 1 .. Len(lines[u]) : queue[i] = lines[u][i]
          BY <2>2, <2>4, <3>1, <4>1, AppendProperties, LenProperties DEF Queue
        <5> HIDE DEF queue, line
        <5> QED
          BY <2>1, <2>4, <3>2, <5>1
      <4>2. CASE ~Kept(u, key)
        BY <2>1, <2>4, <4>2 DEF Queue
      <4> QED
        BY <4>1, <4>2
    <3> HIDE DEF queue, line
    <3>4. Len(buffer'[u]) < MAXLINE
      <4>1. Len(<<>>) = 0
        BY EmptySeq
      <4> QED
        BY <2>2, <3>1, <3>2, <4>1
    <3>5. \A i \in 1 .. Len(lines'[u]) : Len(lines'[u][i]) <= MAXLINE
      <4>1. CASE Taken(u, key)
        <5>1. /\ Len(queue) \in Nat /\ Len(Tail(queue)) = Len(queue) - 1
              /\ \A i \in 1 .. Len(Tail(queue)) : Tail(queue)[i] = queue[i + 1]
          BY <3>1, <4>1, Rest
        <5> QED
          BY <3>1, <3>3, <4>1, <5>1
      <4>2. CASE ~Taken(u, key)
        BY <3>1, <3>3, <4>2
      <4> QED
        BY <4>1, <4>2
    <3> QED
      BY <2>4, <3>4, <3>5
  <2> QED
    BY <2>3, <2>4
<1> QED
  BY <1>1, <1>2, <1>3 DEF Next, vars, termVars, Keys, Term!Next, Term!ourTermWrite,
     Term!Transmit, Term!AwaitTransmit, Term!ResumeTransmit, Term!WriteReturns

\* No line is longer than MAXLINE, for which the daemon's buffer and the slots of
\* TERM_READ have room, whatever sizes TermRead is called with (termMain2 looks
\* at READ_BUFFER_SIZE, which any call may change, and at MAXLINE).
THEOREM LinesAlwaysFit == Spec => []LinesFit
<1>1. Init => LinesFit
  <2> SUFFICES ASSUME Init PROVE Term!LinesFit
    BY DEF LinesFit
  <2>1. Len(<<>>) = 0
    BY EmptySeq
  <2> QED
    BY <2>1, TerminalConstants DEF Init, Term!Init, Term!LinesFit
<1> QED
  BY <1>1, LinesFitStep, InTurnInvariance, PTL DEF Spec

-----------------------------------------------------------------------------
\* At a unit where nothing has been typed, the daemon's message that the terminal
\* is ready is in one place: in TERM_WRITE, with a writer, or nowhere.  It is
\* there only after the terminal's interrupt, and before it is sent a character.
OneMessage ==
    \A u \in Units : terminal[u].typed = 0 =>
        /\ terminal[u].lost = 0
        /\ terminal[u].busy => ~terminal[u].raised
        /\ ready[u] => terminal[u].raised
        /\ \A p \in Procs : user[p].pc = "has_terminal" /\ user[p].unit = u =>
                terminal[u].raised /\ ~ready[u]

\* A step that gives nobody the terminal and leaves the device as it is.
LEMMA NoMessage ==
    ASSUME OneMessage, NEW u \in Units, ready'[u] = ready[u],
           terminal'[u].typed = terminal[u].typed, terminal'[u].lost = terminal[u].lost,
           terminal'[u].busy = terminal[u].busy, terminal'[u].raised = terminal[u].raised,
           \A p \in Procs : user'[p].pc = "has_terminal" /\ user'[p].unit = u =>
                                user[p].pc = "has_terminal" /\ user[p].unit = u
    PROVE  terminal'[u].typed = 0 =>
             /\ terminal'[u].lost = 0
             /\ terminal'[u].busy => ~terminal'[u].raised
             /\ ready'[u] => terminal'[u].raised
             /\ \A p \in Procs : user'[p].pc = "has_terminal" /\ user'[p].unit = u =>
                     terminal'[u].raised /\ ~ready'[u]
  BY DEF OneMessage

\* A writer that has taken the message sends its character.
LEMMA MessageUsed ==
    ASSUME InTurn, OneMessage, NEW p \in Procs, NEW u \in Units, Writes(p, u),
           user[p].size > 0, Term!writeCharToTerminal(p),
           ready[u] \/ user[p].pc = "has_terminal",
           ~ready'[u], \A v \in Units \ {u} : ready'[v] = ready[v]
    PROVE  OneMessage'
<1>1. user[p].unit = u /\ TermTypes /\ user[p].calls > 0
  BY DEF Writes, InTurn, SizesLeft
<1>2. /\ user'[p].pc = "call"
      /\ \A q \in Procs \ {p} : user'[q] = user[q]
      /\ terminal'[u].busy
      /\ terminal'[u].raised = (terminal[u].raised /\ terminal[u].busy)
      /\ ~terminal[u].busy => terminal'[u].lost = terminal[u].lost
      /\ terminal'[u].typed = terminal[u].typed
      /\ \A v \in Units \ {u} : terminal'[v] = terminal[v]
  BY <1>1, WriteEffect
<1>3. \A v \in Units : \A q \in Procs :
          user'[q].pc = "has_terminal" /\ user'[q].unit = v =>
              user[q].pc = "has_terminal" /\ user[q].unit = v
  BY <1>2
<1>4. ASSUME NEW q \in Procs
      PROVE  ~(user'[q].pc = "has_terminal" /\ user'[q].unit = u)
  <2>1. user'[q].pc = "has_terminal" /\ user'[q].unit = u => Writes(q, u) /\ q # p
    BY <1>2, <1>3 DEF Writes
  <2> QED
    BY <2>1, OneWrites
<1>5. terminal[u].typed = 0 => /\ terminal[u].raised /\ ~terminal[u].busy
                               /\ terminal[u].lost = 0
  BY <1>1 DEF OneMessage
<1> SUFFICES ASSUME NEW v \in Units
             PROVE  terminal'[v].typed = 0 =>
                      /\ terminal'[v].lost = 0
                      /\ terminal'[v].busy => ~terminal'[v].raised
                      /\ ready'[v] => terminal'[v].raised
                      /\ \A q \in Procs : user'[q].pc = "has_terminal" /\ user'[q].unit = v =>
                              terminal'[v].raised /\ ~ready'[v]
  BY DEF OneMessage
<1>6. CASE v = u
  BY <1>2, <1>4, <1>5, <1>6
<1>7. CASE v # u
  BY <1>2, <1>3, <1>7, NoMessage
<1> QED
  BY <1>6, <1>7

\* Every step keeps it: the message is made by the interrupt of a ready
\* terminal, and used by the character that makes it busy.
LEMMA OneMessageStep ==
    ASSUME InTurn, OneMessage, [Next]_vars
    PROVE  OneMessage'
<1>1. CASE UNCHANGED termVars
  BY <1>1 DEF termVars, OneMessage
<1>2. ASSUME NEW p \in Procs, NEW u \in Units, NEW n \in Lengths, Term!ourTermWrite(p, u, n)
      PROVE  OneMessage'
  <2>1. /\ TermTypes /\ user[p].calls < MaxCalls /\ n \in Int
        /\ Term!Calls(p, Term!lockTerminal(u), u, n) /\ UNCHANGED <<ready, terminal>>
        /\ Term!lockTerminal(u) \in {"call", "lock"}
    BY <1>2, TerminalConstants DEF InTurn, Term!ourTermWrite, Term!MayCall, Term!lockTerminal
  <2>2. /\ user'[p].pc \in {"call", "lock"}
        /\ \A q \in Procs \ {p} : user'[q] = user[q]
    BY <2>1, CallsEffect DEF Term!PCs
  <2> QED
    BY <2>1, <2>2 DEF OneMessage
<1>3. ASSUME NEW p \in Procs, Term!Transmit(p)
      PROVE  OneMessage'
  <2>1. PICK u \in Units : u = user[p].unit
    BY DEF InTurn, TermTypes, Term!User
  <2>2. /\ Writes(p, u) /\ user[p].size > 0 /\ ready[u]
        /\ Term!writeCharToTerminal(p) /\ ready' = [ready EXCEPT ![u] = FALSE]
    BY <1>3, <2>1 DEF Term!Transmit, Term!Writing, Writes
  <2>3. ~ready'[u] /\ \A v \in Units \ {u} : ready'[v] = ready[v]
    BY <2>2 DEF InTurn, TermTypes
  <2> QED
    BY <2>2, <2>3, MessageUsed
<1>4. ASSUME NEW p \in Procs, Term!AwaitTransmit(p)
      PROVE  OneMessage'
  <2>1. /\ TermTypes /\ user' = [user EXCEPT ![p].pc = "transmit"] /\ "transmit" \in Term!PCs
        /\ UNCHANGED <<ready, terminal>>
    BY <1>4 DEF InTurn, Term!AwaitTransmit, Term!PCs
  <2>2. user'[p].pc = "transmit" /\ \A q \in Procs \ {p} : user'[q] = user[q]
    BY <2>1, PcEffect
  <2> QED
    BY <2>1, <2>2 DEF OneMessage
<1>5. ASSUME NEW p \in Procs, Term!ResumeTransmit(p)
      PROVE  OneMessage'
  <2>1. PICK u \in Units : u = user[p].unit
    BY DEF InTurn, TermTypes, Term!User
  <2>2. /\ Writes(p, u) /\ user[p].size > 0 /\ user[p].pc = "has_terminal"
        /\ Term!writeCharToTerminal(p) /\ ready' = ready
    BY <1>5, <2>1 DEF Term!ResumeTransmit, Writes, InTurn, SizesLeft
  <2>3. CASE terminal[u].typed = 0
    <3>1. ~ready[u]
      BY <2>1, <2>2, <2>3 DEF OneMessage
    <3> QED
      BY <2>2, <3>1, MessageUsed
  <2>4. CASE terminal[u].typed # 0
    <3>1. /\ user'[p].pc = "call" /\ \A q \in Procs \ {p} : user'[q] = user[q]
          /\ terminal'[u].typed = terminal[u].typed
          /\ \A v \in Units \ {u} : terminal'[v] = terminal[v]
      BY <2>1, <2>2, WriteEffect DEF InTurn, SizesLeft
    <3> QED
      BY <2>2, <2>4, <3>1 DEF OneMessage
  <2> QED
    BY <2>3, <2>4
<1>6. ASSUME NEW p \in Procs, Term!WriteReturns(p)
      PROVE  OneMessage'
  <2>1. /\ UNCHANGED <<ready, terminal>>
        /\ \A q \in Procs : user'[q].pc = "has_terminal" => user'[q] = user[q]
    BY <1>6, ReturnEffect DEF Term!WriteReturns
  <2> QED
    BY <2>1 DEF OneMessage
<1>7. ASSUME NEW p \in Procs, NEW u \in Units, NEW size \in Sizes, Term!ourTermRead(p, u, size)
      PROVE  OneMessage'
  <2>1. /\ TermTypes /\ user[p].calls < MaxCalls /\ size \in Int
    BY <1>7, TerminalConstants DEF InTurn, Term!ourTermRead, Term!MayCall
  <2>2. Term!Calls(p, "user", u, 0) \/ Term!Calls(p, "line", u, size)
    BY <1>7 DEF Term!ourTermRead, Term!ReadReturns
  <2>3. /\ user'[p].pc \in {"user", "line"}
        /\ \A q \in Procs \ {p} : user'[q] = user[q]
    BY <2>1, <2>2, CallsEffect DEF Term!PCs
  <2>4. /\ ready' = ready
        /\ \A v \in Units : /\ terminal'[v].typed = terminal[v].typed
                            /\ terminal'[v].lost = terminal[v].lost
                            /\ terminal'[v].busy = terminal[v].busy
                            /\ terminal'[v].raised = terminal[v].raised
    BY <1>7, <2>1, ReadEffect
  <2> QED
    BY <2>3, <2>4 DEF OneMessage
<1>8. ASSUME NEW u \in Units, NEW sent \in BOOLEAN, NEW key \in Keys,
             Term!Interrupt(u, sent, key)
      PROVE  OneMessage'
  <2>1. /\ TermTypes /\ (sent \/ key # "none") /\ (sent => ~terminal[u].raised)
    BY <1>8 DEF InTurn, Term!Interrupt
  <2>2. /\ terminal'[u].busy = ~IsReady(u, sent)
        /\ terminal'[u].raised = (terminal[u].raised \/ sent)
        /\ terminal'[u].lost = terminal[u].lost
        /\ terminal'[u].typed = IF key = "none" THEN terminal[u].typed
                                ELSE terminal[u].typed + 1
        /\ ready'[u] = (ready[u] \/ (IsReady(u, sent) /\ Writers(u, sent) = {}))
        /\ \A v \in Units \ {u} : terminal'[v] = terminal[v] /\ ready'[v] = ready[v]
    BY ZenonT(60), <1>8, <2>1, TurnTerminal
  <2>3. ASSUME NEW q \in Procs, user'[q].pc = "has_terminal"
        PROVE  /\ user'[q].unit = user[q].unit
               /\ user[q].pc = "has_terminal" \/ (q \in Writers(u, sent) /\ user[q].unit = u)
    BY <1>8, <2>3, TurnUsers
  <2>4. terminal[u].typed \in Nat
    BY <2>1 DEF TermTypes, Term!Device
  <2> SUFFICES ASSUME NEW v \in Units, terminal'[v].typed = 0
               PROVE  /\ terminal'[v].lost = 0
                      /\ terminal'[v].busy => ~terminal'[v].raised
                      /\ ready'[v] => terminal'[v].raised
                      /\ \A q \in Procs : user'[q].pc = "has_terminal" /\ user'[q].unit = v =>
                              terminal'[v].raised /\ ~ready'[v]
    BY DEF OneMessage
  <2>5. CASE v # u
    BY <2>2, <2>3, <2>5 DEF OneMessage
  <2>6. CASE v = u
    <3>1. key = "none" /\ sent /\ terminal[u].typed = 0
      BY <2>1, <2>2, <2>4, <2>6
    <3>2. /\ ~terminal[u].raised /\ terminal[u].lost = 0 /\ ~ready[u]
          /\ \A q \in Procs : ~(user[q].pc = "has_terminal" /\ user[q].unit = u)
      BY <2>1, <3>1 DEF OneMessage
    <3>3. IsReady(u, sent) /\ ~terminal'[u].busy /\ terminal'[u].raised
      BY <2>2, <3>1 DEF IsReady
    <3>4. ASSUME NEW q \in Procs, user'[q].pc = "has_terminal", user'[q].unit = u
          PROVE  ~ready'[u]
      <4>1. q \in Writers(u, sent)
        BY <2>3, <3>2, <3>4
      <4> QED
        BY <2>2, <3>2, <4>1
    <3> QED
      BY <2>2, <2>6, <3>2, <3>3, <3>4
  <2> QED
    BY <2>5, <2>6
<1> QED
  BY <1>1, <1>2, <1>3, <1>4, <1>5, <1>6, <1>7, <1>8 DEF Next, vars, Keys, Term!Next

\* No character goes to a busy terminal, as long as nothing is typed there
\* (termMain2's message, and the MboxRecv before each character of ourTermWrite).
THEOREM NoCharIsLost == Spec => []NoCharLost
<1>1. Init => OneMessage
  BY DEF Init, Term!Init, OneMessage
<1>2. OneMessage => NoCharLost
  BY DEF OneMessage, NoCharLost, Term!NoCharLost
<1> QED
  BY <1>1, <1>2, OneMessageStep, InTurnInvariance, PTL DEF Spec

-----------------------------------------------------------------------------
\* What may still come after the character z, the last that u has shown: the
\* rest of its text, from its writer; or, z being the end of a text, another one.
GoesOnFrom(u, z) ==
    /\ z.left >= 1
    /\ z.call <= user[z.by].calls
    /\ z.left > 1 => /\ Writes(z.by, u)
                     /\ user[z.by].calls = z.call /\ user[z.by].size = z.left - 1
    /\ z.left = 1 /\ user[z.by].calls = z.call =>
            \/ user[z.by].pc = "user"
            \/ user[z.by].pc = "call" /\ user[z.by].size = 0

LastShown ==
    \A u \in Units : terminal[u].lost = 0 /\ terminal[u].shown # <<>> =>
        GoesOnFrom(u, terminal[u].shown[Len(terminal[u].shown)])

\* A step in which q sends nothing at u, and does not leave a text there undone.
Patient(q, u) ==
    /\ user'[q].calls >= user[q].calls
    /\ Writes(q, u) /\ user[q].size > 0 =>
            /\ Writes(q, u)'
            /\ user'[q].size = user[q].size /\ user'[q].calls = user[q].calls
    /\ user'[q].calls = user[q].calls =>
            /\ user[q].pc = "user" => user'[q].pc = "user"
            /\ user[q].pc = "call" /\ user[q].size = 0 =>
                    user'[q].pc = "user" \/ (user'[q].pc = "call" /\ user'[q].size = 0)

\* The fields of a process.
LEMMA UserFields ==
    ASSUME NEW f \in [Procs -> Term!User], NEW q \in Procs
    PROVE  f[q].unit \in Units /\ f[q].size \in Int /\ f[q].calls \in Nat
<1>1. f[q] \in Term!User /\ MaxCalls \in Nat
  BY TerminalConstants
<1> QED
  BY <1>1 DEF Term!User

\* The fields of a character that is shown.
LEMMA ShownFields ==
    ASSUME NEW z \in Term!Shown
    PROVE  z.by \in Procs /\ z.left \in Nat /\ z.call \in Nat
<1>1. MaxCalls \in Nat
  BY TerminalConstants
<1> QED
  BY <1>1 DEF Term!Shown

\* What a terminal has shown and lost.
LEMMA DeviceFields ==
    ASSUME TermTypes, NEW u \in Units
    PROVE  terminal[u].shown \in Seq(Term!Shown) /\ terminal[u].lost \in Nat
<1>1. terminal[u] \in Term!Device
  BY DEF TermTypes
<1> QED
  BY <1>1 DEF Term!Device

\* What may come after z may still come, if its writer is patient.
LEMMA StillGoesOn ==
    ASSUME TermTypes, TermTypes', NEW u \in Units, NEW z \in Term!Shown,
           GoesOnFrom(u, z), Patient(z.by, u)
    PROVE  GoesOnFrom(u, z)'
<1>1. /\ z.by \in Procs /\ z.left \in Nat /\ z.call \in Nat
      /\ user[z.by].calls \in Nat /\ user'[z.by].calls \in Nat /\ user[z.by].size \in Int
  BY ShownFields, UserFields DEF TermTypes
<1> DEFINE q == z.by
<1>2. z.call <= user'[q].calls
  BY <1>1 DEF GoesOnFrom, Patient
<1>3. z.left > 1 => /\ Writes(q, u)'
                    /\ user'[q].calls = z.call /\ user'[q].size = z.left - 1
  BY <1>1 DEF GoesOnFrom, Patient
<1>4. z.left = 1 /\ user'[q].calls = z.call =>
            \/ user'[q].pc = "user"
            \/ user'[q].pc = "call" /\ user'[q].size = 0
  BY <1>1 DEF GoesOnFrom, Patient
<1> QED
  BY <1>2, <1>3, <1>4 DEF GoesOnFrom

\* d may be shown after c.
Follows(d, c) ==
    IF c.left = 1 THEN <<c.by, c.call>> # <<d.by, d.call>> ELSE d = [c EXCEPT !.left = @ - 1]

\* What u has shown, and how it goes on.
Whole(u) ==
    terminal[u].lost = 0 =>
        /\ \A i \in 1 .. Len(terminal[u].shown) - 1 :
              Follows(terminal[u].shown[i+1], terminal[u].shown[i])
        /\ terminal[u].shown # <<>> =>
              GoesOnFrom(u, terminal[u].shown[Len(terminal[u].shown)])

\* That is the property, with what may come next.
LEMMA WholeDef == (\A u \in Units : Whole(u)) <=> TextsWhole /\ LastShown
  BY DEF Whole, Follows, TextsWhole, Term!TextsWhole, LastShown

\* Nothing is sent at u.
LEMMA NothingSent ==
    ASSUME InTurn, InTurn', NEW u \in Units, Whole(u),
           terminal'[u].shown = terminal[u].shown, terminal'[u].lost = terminal[u].lost,
           \A q \in Procs : Patient(q, u)
    PROVE  Whole(u)'
<1> SUFFICES ASSUME terminal[u].lost = 0, terminal[u].shown # <<>>
             PROVE  GoesOnFrom(u, terminal[u].shown[Len(terminal[u].shown)])'
  BY DEF Whole
<1>1. PICK z : z = terminal[u].shown[Len(terminal[u].shown)]
  OBVIOUS
<1>2. z \in Term!Shown
  <2>1. terminal[u].shown \in Seq(Term!Shown)
    BY DeviceFields DEF InTurn
  <2> QED
    BY <1>1, <2>1, Rest
<1>3. GoesOnFrom(u, z) /\ z.by \in Procs
  BY <1>1, <1>2 DEF Whole, Term!Shown
<1>4. GoesOnFrom(u, z)'
  BY <1>2, <1>3, StillGoesOn DEF InTurn
<1>5. z = terminal'[u].shown[Len(terminal'[u].shown)]
  BY <1>1
<1> QED
  BY <1>4, <1>5 DEF GoesOnFrom, Writes

\* p sends a character at its unit.
LEMMA OneSent ==
    ASSUME InTurn, InTurn', \A u \in Units : Whole(u), NEW p \in Procs,
           user[p].pc \in {"call", "has_lock", "has_terminal"}, user[p].size > 0,
           Term!writeCharToTerminal(p)
    PROVE  \A u \in Units : Whole(u)'
<1>1. PICK w \in Units : w = user[p].unit
  BY DEF InTurn, TermTypes, Term!User
<1> DEFINE c == [by |-> p, call |-> user[p].calls, left |-> user[p].size]
           s == terminal[w].shown
<1>2. /\ user'[p].pc = "call" /\ user'[p].size = user[p].size - 1
      /\ user'[p].unit = w /\ user'[p].calls = user[p].calls
      /\ \A q \in Procs \ {p} : user'[q] = user[q]
      /\ c \in Term!Shown
      /\ terminal[w].busy => terminal'[w].lost = terminal[w].lost + 1
      /\ ~terminal[w].busy => /\ terminal'[w].lost = terminal[w].lost
                              /\ terminal'[w].shown = Append(s, c)
      /\ \A v \in Units \ {w} : terminal'[v] = terminal[v]
  BY <1>1, WriteEffect DEF InTurn, SizesLeft
<1>3. /\ user[p].size \in Int /\ user[p].calls \in Nat /\ terminal[w].lost \in Nat
      /\ s \in Seq(Term!Shown)
      /\ \A q \in Procs : user[q].calls \in Nat
  BY UserFields, DeviceFields DEF InTurn, TermTypes
<1>4. Writes(p, w)
  BY <1>1 DEF Writes
<1>5. ASSUME NEW u \in Units \ {w}
      PROVE  Whole(u)'
  <2>1. ASSUME NEW q \in Procs
        PROVE  Patient(q, u)
    <3>1. CASE q = p
      <4>1. ~Writes(p, u)
        BY <1>1 DEF Writes
      <4>2. /\ user'[p].calls = user[p].calls /\ user[p].pc # "user"
            /\ ~(user[p].pc = "call" /\ user[p].size = 0)
        BY <1>2
      <4> QED
        BY <1>3, <3>1, <4>1, <4>2 DEF Patient
    <3>2. CASE q # p
      BY <1>2, <1>3, <3>2 DEF Patient, Writes
    <3> QED
      BY <3>1, <3>2
  <2> QED
    BY <1>2, <2>1, NothingSent
<1>6. Whole(w)'
  <2> SUFFICES ASSUME terminal'[w].lost = 0
               PROVE  /\ \A i \in 1 .. Len(terminal'[w].shown) - 1 :
                           Follows(terminal'[w].shown[i+1], terminal'[w].shown[i])
                      /\ GoesOnFrom(w, terminal[w].shown[Len(terminal[w].shown)])'
    BY DEF Whole, Follows
  <2>1. terminal[w].lost = 0 /\ terminal'[w].shown = Append(s, c)
    BY <1>2, <1>3
  <2>2. c.by = p /\ c.call = user[p].calls /\ c.left = user[p].size
    OBVIOUS
  <2> HIDE DEF c, s
  <2>3. PICK t : t = Append(s, c)
    OBVIOUS
  <2>4. /\ t \in Seq(Term!Shown) /\ Len(t) = Len(s) + 1 /\ Len(s) \in Nat
        /\ \A i \in 1 .. Len(s) : t[i] = s[i] /\ s[i] \in Term!Shown
        /\ t[Len(s) + 1] = c
    BY <1>2, <1>3, <2>3, AppendProperties, LenProperties, ElementOfSeq
  <2>5. GoesOnFrom(w, terminal[w].shown[Len(terminal[w].shown)])'
    <3>1. terminal'[w].shown[Len(terminal'[w].shown)] = c
      BY <2>1, <2>3, <2>4
    <3>2. Writes(p, w)'
      BY <1>2 DEF Writes
    <3>3. GoesOnFrom(w, terminal[w].shown[Len(terminal[w].shown)])' <=>
              /\ c.left >= 1
              /\ c.call <= user'[p].calls
              /\ c.left > 1 => /\ Writes(p, w)'
                               /\ user'[p].calls = c.call /\ user'[p].size = c.left - 1
              /\ c.left = 1 /\ user'[p].calls = c.call =>
                    \/ user'[p].pc = "user"
                    \/ user'[p].pc = "call" /\ user'[p].size = 0
      BY <2>2, <3>1 DEF GoesOnFrom, Writes
    <3> QED
      BY <1>2, <1>3, <2>2, <3>2, <3>3
  <2>6. ASSUME NEW i \in 1 .. Len(t) - 1
        PROVE  Follows(t[i+1], t[i])
    <3>1. CASE i \in 1 .. Len(s) - 1
      <4>1. t[i] = s[i] /\ t[i+1] = s[i+1]
        BY <2>4, <3>1
      <4> QED
        BY <2>1, <3>1, <4>1 DEF Whole, s
    <3>2. CASE i = Len(s)
      <4>1. s # <<>> /\ t[i] = s[Len(s)] /\ t[i+1] = c /\ t[i] \in Term!Shown
        <5>1. Len(<<>>) = 0
          BY EmptySeq
        <5> QED
          BY <2>4, <3>2, <5>1
      <4>2. PICK z : z = t[i]
        OBVIOUS
      <4>3. GoesOnFrom(w, z)
        BY <2>1, <4>1, <4>2 DEF Whole, s
      <4>4. z \in [by : Procs, call : 1 .. MaxCalls, left : Nat]
        BY <4>1, <4>2 DEF Term!Shown
      <4>5. CASE z.left = 1
        <5>1. <<z.by, z.call>> # <<c.by, c.call>>
          BY <2>2, <4>3, <4>5 DEF GoesOnFrom
        <5> QED
          BY <4>1, <4>2, <4>5, <5>1 DEF Follows
      <4>6. CASE z.left # 1
        <5>1. /\ Writes(z.by, w) /\ user[z.by].calls = z.call /\ user[z.by].size = z.left - 1
          BY <4>3, <4>4, <4>6 DEF GoesOnFrom
        <5>2. z.by = p
          BY <1>4, <4>4, <5>1, OneWrites
        <5>3. c.by = z.by /\ c.call = z.call /\ c.left = z.left - 1
          BY <2>2, <5>1, <5>2
        <5>4. c \in [by : Procs, call : 1 .. MaxCalls, left : Nat]
          BY <1>2 DEF Term!Shown
        <5>5. c = [z EXCEPT !.left = z.left - 1]
          BY <4>4, <5>3, <5>4
        <5> QED
          BY <4>1, <4>2, <4>6, <5>5 DEF Follows
      <4> QED
        BY <4>5, <4>6
    <3> QED
      BY <2>4, <3>1, <3>2
  <2> QED
    BY <2>1, <2>3, <2>5, <2>6
<1> QED
  BY <1>5, <1>6

\* The other steps: everybody is patient.
LEMMA TextsStep ==
    ASSUME InTurn, InTurn', \A u \in Units : Whole(u), [Next]_vars
    PROVE  \A u \in Units : Whole(u)'
<1>1. \A q \in Procs : user[q].calls \in Nat /\ user[q].size \in Int
  BY UserFields DEF InTurn, TermTypes
<1>2. CASE UNCHANGED termVars
  <2>1. user' = user /\ terminal' = terminal
    BY <1>2 DEF termVars
  <2>2. \A q \in Procs : \A v \in Units : Patient(q, v)
    BY <1>1, <2>1 DEF Patient, Writes
  <2> QED
    BY <2>1, <2>2, NothingSent
<1>3. ASSUME NEW p \in Procs, NEW u \in Units, NEW n \in Lengths, Term!ourTermWrite(p, u, n)
      PROVE  \A v \in Units : Whole(v)'
  <2>1. /\ TermTypes /\ user[p].pc = "user" /\ user[p].calls < MaxCalls /\ n \in Int
        /\ Term!Calls(p, Term!lockTerminal(u), u, n) /\ terminal' = terminal
        /\ Term!lockTerminal(u) \in Term!PCs
    BY <1>3, TerminalConstants DEF InTurn, Term!ourTermWrite, Term!MayCall, Term!lockTerminal,
       Term!PCs
  <2>2. /\ user'[p].calls = user[p].calls + 1
        /\ \A q \in Procs \ {p} : user'[q] = user[q]
    BY <2>1, CallsEffect
  <2>3. \A q \in Procs : \A v \in Units : Patient(q, v)
    BY <1>1, <2>1, <2>2 DEF Patient, Writes
  <2> QED
    BY <2>1, <2>3, NothingSent
<1>4. ASSUME NEW p \in Procs, Term!Transmit(p) \/ Term!ResumeTransmit(p)
      PROVE  \A v \in Units : Whole(v)'
  <2>1. /\ user[p].pc \in {"call", "has_lock", "has_terminal"} /\ user[p].size > 0
        /\ Term!writeCharToTerminal(p)
    BY <1>4 DEF Term!Transmit, Term!ResumeTransmit, Term!Writing, InTurn, SizesLeft
  <2> QED
    BY <2>1, OneSent
<1>5. ASSUME NEW p \in Procs, Term!AwaitTransmit(p)
      PROVE  \A v \in Units : Whole(v)'
  <2>1. /\ TermTypes /\ user[p].pc \in {"call", "has_lock"} /\ user[p].size > 0
        /\ user' = [user EXCEPT ![p].pc = "transmit"] /\ "transmit" \in Term!PCs
        /\ terminal' = terminal
    BY <1>5 DEF InTurn, Term!AwaitTransmit, Term!Writing, Term!PCs
  <2>2. /\ user'[p].pc = "transmit" /\ user'[p].unit = user[p].unit
        /\ user'[p].size = user[p].size /\ user'[p].calls = user[p].calls
        /\ \A q \in Procs \ {p} : user'[q] = user[q]
    BY <2>1, PcEffect
  <2>3. \A q \in Procs : \A v \in Units : Patient(q, v)
    BY <1>1, <2>1, <2>2 DEF Patient, Writes
  <2> QED
    BY <2>1, <2>3, NothingSent
<1>6. ASSUME NEW p \in Procs, Term!WriteReturns(p)
      PROVE  \A v \in Units : Whole(v)'
  <2>1. PICK w : w = user[p].unit
    OBVIOUS
  <2>2. PICK next : next = IF Len(lock[w]) > 1 THEN {lock[w][2]} ELSE {}
    OBVIOUS
  <2>3. /\ user[p].size = 0 /\ next \subseteq Procs \ {p} /\ Writes(p, w)
        /\ \A q \in next : user[q].pc = "lock" /\ user'[q].calls = user[q].calls
        /\ user'[p].pc = "user" /\ user'[p].calls = user[p].calls
        /\ \A q \in Procs \ ({p} \cup next) : user'[q] = user[q]
    BY <1>6, <2>1, <2>2, ReturnEffect
  <2>4. ASSUME NEW q \in Procs, NEW v \in Units
        PROVE  Patient(q, v)
    <3>1. CASE q = p
      BY <1>1, <2>3, <3>1 DEF Patient
    <3>2. CASE q \in next
      <4>1. user[q].pc = "lock" /\ user'[q].calls = user[q].calls
        BY <2>3, <3>2
      <4> QED
        BY <1>1, <4>1 DEF Patient, Writes
    <3>3. CASE q \notin {p} \cup next
      BY <1>1, <2>3, <3>3 DEF Patient, Writes
    <3> QED
      BY <3>1, <3>2, <3>3
  <2>5. terminal' = terminal
    BY <1>6 DEF Term!WriteReturns
  <2> QED
    BY <2>4, <2>5, NothingSent
<1>7. ASSUME NEW p \in Procs, NEW u \in Units, NEW size \in Sizes, Term!ourTermRead(p, u, size)
      PROVE  \A v \in Units : Whole(v)'
  <2>1. /\ TermTypes /\ user[p].pc = "user" /\ user[p].calls < MaxCalls /\ size \in Int
    BY <1>7, TerminalConstants DEF InTurn, Term!ourTermRead, Term!MayCall
  <2>2. Term!Calls(p, "user", u, 0) \/ Term!Calls(p, "line", u, size)
    BY <1>7 DEF Term!ourTermRead, Term!ReadReturns
  <2>3. /\ user'[p].calls = user[p].calls + 1
        /\ \A q \in Procs \ {p} : user'[q] = user[q]
    BY <2>1, <2>2, CallsEffect DEF Term!PCs
  <2>4. \A q \in Procs : \A v \in Units : Patient(q, v)
    BY <1>1, <2>1, <2>3 DEF Patient, Writes
  <2>5. \A v \in Units : terminal'[v].shown = terminal[v].shown /\ terminal'[v].lost = terminal[v].lost
    BY <1>7, <2>1, ReadEffect
  <2> QED
    BY <2>4, <2>5, NothingSent
<1>8. ASSUME NEW u \in Units, NEW sent \in BOOLEAN, NEW key \in Keys,
             Term!Interrupt(u, sent, key)
      PROVE  \A v \in Units : Whole(v)'
  <2>1. \A v \in Units : terminal'[v].shown = terminal[v].shown /\ terminal'[v].lost = terminal[v].lost
    BY <1>8, TurnTerminal DEF InTurn
  <2>2. ASSUME NEW q \in Procs, NEW v \in Units
        PROVE  Patient(q, v)
    <3>1. /\ user'[q].unit = user[q].unit /\ user'[q].size = user[q].size
          /\ user'[q].calls = user[q].calls
          /\ q \in Writers(u, sent) => user[q].pc = "transmit" /\ user'[q].pc = "has_terminal"
          /\ q \in Woken(u, key) => user[q].pc = "line"
          /\ q \notin Writers(u, sent) \cup Woken(u, key) => user'[q] = user[q]
      BY <1>8, TurnUsers
    <3> QED
      BY <1>1, <3>1 DEF Patient, Writes
  <2> QED
    BY <2>1, <2>2, NothingSent
<1> QED
  BY <1>2, <1>3, <1>4, <1>5, <1>6, <1>7, <1>8 DEF Next, vars, Keys, Term!Next

\* A text that is begun is shown to its end before another one begins: the lock of
\* the unit is held from the first character to the last (lockTerminal and
\* unlockTerminal in ourTermWrite).
THEOREM TextsAreWhole == Spec => []TextsWhole
<1> DEFINE AllWhole == \A u \in Units : Whole(u)
<1>1. Init => AllWhole
  <2>1. Len(<<>>) = 0
    BY EmptySeq
  <2> QED
    BY <2>1 DEF Init, Term!Init, Whole
<1>2. InTurn /\ InTurn' /\ AllWhole /\ [Next]_vars => AllWhole'
  BY TextsStep
<1>3. AllWhole => TextsWhole
  BY WholeDef
<1> HIDE DEF AllWhole
<1> QED
  BY <1>1, <1>2, <1>3, InTurnInvariance, PTL DEF Spec

-----------------------------------------------------------------------------
\* Pieces of what was typed, by their positions: the k-th of the i-th piece.
Sorted(s, K) ==
    /\ \A i, j \in 1 .. Len(s) : \A k \in 1 .. Len(s[i]), l \in 1 .. Len(s[j]) :
            i < j \/ (i = j /\ k < l) => s[i][k] < s[j][l]
    /\ \A i \in 1 .. Len(s) : \A k \in 1 .. Len(s[i]) : s[i][k] \in K
    /\ \A x \in K : \E i \in 1 .. Len(s) : \E k \in 1 .. Len(s[i]) : x = s[i][k]

\* The lengths of pieces are numbers, and so are their elements.
LEMMA Pieces ==
    ASSUME NEW s \in Seq(Seq(Nat))
    PROVE  /\ Len(s) \in Nat /\ DOMAIN s = 1 .. Len(s)
           /\ \A i \in 1 .. Len(s) :
                /\ s[i] \in Seq(Nat) /\ Len(s[i]) \in Nat /\ DOMAIN s[i] = 1 .. Len(s[i])
                /\ \A k \in 1 .. Len(s[i]) : s[i][k] \in Nat
<1>1. Len(s) \in Nat /\ DOMAIN s = 1 .. Len(s)
  BY LenProperties
<1>2. ASSUME NEW i \in 1 .. Len(s)
      PROVE  /\ s[i] \in Seq(Nat) /\ Len(s[i]) \in Nat /\ DOMAIN s[i] = 1 .. Len(s[i])
             /\ \A k \in 1 .. Len(s[i]) : s[i][k] \in Nat
  <2>1. s[i] \in Seq(Nat)
    BY ElementOfSeq
  <2> QED
    BY <2>1, LenProperties, ElementOfSeq
<1> QED
  BY <1>1, <1>2

\* That is what InOrder says.
LEMMA SortedIsInOrder ==
    ASSUME NEW s \in Seq(Seq(Nat)), NEW K
    PROVE  Term!InOrder(s, K) <=> Sorted(s, K)
<1>1. /\ DOMAIN s = 1 .. Len(s) /\ Len(s) \in Nat
      /\ \A i \in 1 .. Len(s) : DOMAIN s[i] = 1 .. Len(s[i])
  BY Pieces
<1> DEFINE U == UNION {Term!ToSet(s[i]) : i \in DOMAIN s}
<1>2. ASSUME NEW x
      PROVE  x \in U <=> \E i \in 1 .. Len(s) : \E k \in 1 .. Len(s[i]) : x = s[i][k]
  <2>1. ASSUME NEW i \in 1 .. Len(s)
        PROVE  x \in Term!ToSet(s[i]) <=> \E k \in 1 .. Len(s[i]) : x = s[i][k]
    <3>1. DOMAIN s[i] = 1 .. Len(s[i])
      BY <1>1
    <3> QED
      BY <3>1, Zenon DEF Term!ToSet
  <2>2. x \in U <=> \E i \in 1 .. Len(s) : x \in Term!ToSet(s[i])
    BY <1>1, Zenon
  <2> QED
    BY <2>1, <2>2, Zenon
<1> HIDE DEF U
<1>3. U = K <=> /\ \A i \in 1 .. Len(s) : \A k \in 1 .. Len(s[i]) : s[i][k] \in K
                /\ \A x \in K : \E i \in 1 .. Len(s) : \E k \in 1 .. Len(s[i]) : x = s[i][k]
  <2>1. U \subseteq K <=> \A i \in 1 .. Len(s) : \A k \in 1 .. Len(s[i]) : s[i][k] \in K
    <3>1. ASSUME U \subseteq K, NEW i \in 1 .. Len(s), NEW k \in 1 .. Len(s[i])
          PROVE  s[i][k] \in K
      <4>1. s[i][k] \in U
        BY <1>2, Zenon
      <4> QED
        BY <3>1, <4>1
    <3>2. ASSUME \A i \in 1 .. Len(s) : \A k \in 1 .. Len(s[i]) : s[i][k] \in K
          PROVE  U \subseteq K
      <4> SUFFICES ASSUME NEW x \in U PROVE x \in K
        OBVIOUS
      <4>1. PICK i \in 1 .. Len(s) : \E k \in 1 .. Len(s[i]) : x = s[i][k]
        BY <1>2
      <4> QED
        BY <3>2, <4>1
    <3> QED
      BY <3>1, <3>2
  <2>2. K \subseteq U <=>
            \A x \in K : \E i \in 1 .. Len(s) : \E k \in 1 .. Len(s[i]) : x = s[i][k]
    BY <1>2, Zenon
  <2> QED
    BY <2>1, <2>2
<1>4. Term!InOrder(s, K) <=>
        /\ \A i \in 1 .. Len(s) : \A k, l \in 1 .. Len(s[i]) : k < l => s[i][k] < s[i][l]
        /\ \A i, j \in 1 .. Len(s) : i < j =>
                \A k \in 1 .. Len(s[i]), l \in 1 .. Len(s[j]) : s[i][k] < s[j][l]
        /\ U = K
  BY <1>1 DEF Term!InOrder, U
<1>5. (\A i, j \in 1 .. Len(s) : \A k \in 1 .. Len(s[i]), l \in 1 .. Len(s[j]) :
            i < j \/ (i = j /\ k < l) => s[i][k] < s[j][l]) <=>
        /\ \A i \in 1 .. Len(s) : \A k, l \in 1 .. Len(s[i]) : k < l => s[i][k] < s[i][l]
        /\ \A i, j \in 1 .. Len(s) : i < j =>
                \A k \in 1 .. Len(s[i]), l \in 1 .. Len(s[j]) : s[i][k] < s[j][l]
  OBVIOUS
<1> QED
  BY <1>3, <1>4, <1>5, Zenon DEF Sorted

\* The second piece is put at the end of the first, of length n: the place (i, k)
\* was (a, b).
Origin(n, i, k, a, b) ==
    \/ i = 1 /\ k <= n /\ a = 1 /\ b = k
    \/ i = 1 /\ k > n /\ a = 2 /\ b = k - n
    \/ i > 1 /\ a = i + 1 /\ b = k

\* A place is a number.
LEMMA Place ==
    ASSUME NEW n \in Nat, NEW i \in 1 .. n
    PROVE  i \in Nat /\ i >= 1 /\ i <= n
  OBVIOUS

\* Places in a piece made of two, of lengths n and m.
LEMMA TwoParts ==
    ASSUME NEW n \in Nat, NEW m \in Nat, NEW k \in Nat, k >= 1
    PROVE  /\ k <= n => k \in 1 .. n /\ k \in 1 .. n + m
           /\ k <= m => \E l \in 1 .. n + m : ~(l <= n) /\ l - n = k
           /\ k > n /\ k <= n + m => ~(k <= n) /\ k - n \in 1 .. m
<1>1. ASSUME k <= m
      PROVE  \E l \in 1 .. n + m : ~(l <= n) /\ l - n = k
  <2>1. k + n \in 1 .. n + m /\ ~(k + n <= n) /\ (k + n) - n = k
    BY <1>1
  <2> QED
    BY <2>1
<1> QED
  BY <1>1

\* The place after this one.
LEMMA NextPlace ==
    ASSUME NEW n \in Nat, NEW i \in Nat, i > 1, i <= n
    PROVE  i \in 2 .. n /\ i + 1 \in 1 .. n + 1
  OBVIOUS

\* Places stay in their order.
LEMMA OriginInOrder ==
    ASSUME NEW n \in Nat, NEW i \in Nat, NEW j \in Nat, NEW k \in Nat, NEW l \in Nat,
           NEW a \in Nat, NEW b \in Nat, NEW c \in Nat, NEW d \in Nat,
           i >= 1, j >= 1, Origin(n, i, k, a, b), Origin(n, j, l, c, d),
           i < j \/ (i = j /\ k < l)
    PROVE  a < c \/ (a = c /\ b < d)
  BY DEF Origin

\* t begins with the first two pieces of s, of lengths n and m, in one.
Joins(s, t, n, m) ==
    /\ n = Len(s[1]) /\ m = Len(s[2]) /\ Len(t[1]) = n + m
    /\ \A k \in 1 .. Len(t[1]) : t[1][k] = IF k <= n THEN s[1][k] ELSE s[2][k - n]

\* A line is read, then: by the elements of the pieces.
LEMMA JoinedPieces ==
    ASSUME NEW s \in Seq(Seq(Nat)), NEW t \in Seq(Seq(Nat)), NEW K,
           NEW n \in Nat, NEW m \in Nat, Joins(s, t, n, m),
           Len(s) >= 2, Len(t) = Len(s) - 1,
           \A i \in 2 .. Len(t) : t[i] = s[i + 1],
           Sorted(s, K)
    PROVE  Sorted(t, K)
<1>0. /\ n = Len(s[1]) /\ m = Len(s[2]) /\ Len(t[1]) = n + m
      /\ \A k \in 1 .. Len(t[1]) : t[1][k] = IF k <= n THEN s[1][k] ELSE s[2][k - n]
  BY DEF Joins
<1>1. /\ Len(s) \in Nat /\ Len(t) \in Nat /\ 1 \in 1 .. Len(s) /\ 2 \in 1 .. Len(s)
      /\ 1 \in 1 .. Len(t)
  BY Pieces
<1>2. \A i \in 1 .. Len(t) : Len(t[i]) \in Nat
  BY Pieces
<1>3. \A i \in 1 .. Len(s) : Len(s[i]) \in Nat
  BY Pieces
<1>4. ASSUME NEW i \in 1 .. Len(t), NEW k \in 1 .. Len(t[i])
      PROVE  \E a \in 1 .. Len(s) : \E b \in 1 .. Len(s[a]) :
                t[i][k] = s[a][b] /\ Origin(n, i, k, a, b)
  <2>1. /\ i \in Nat /\ i >= 1 /\ i <= Len(t)
        /\ k \in Nat /\ k >= 1 /\ k <= Len(t[i])
    BY <1>1, <1>2, Place
  <2>2. CASE i = 1 /\ k <= n
    <3>1. k \in 1 .. n /\ 1 \in 1 .. Len(s) /\ k \in 1 .. Len(t[1])
      BY <1>0, <1>1, <2>1, <2>2, TwoParts
    <3>2. k \in 1 .. Len(s[1]) /\ t[i][k] = s[1][k]
      BY <1>0, <2>2, <3>1
    <3>3. Origin(n, i, k, 1, k)
      BY <2>2 DEF Origin
    <3> QED
      BY <3>1, <3>2, <3>3
  <2>3. CASE i = 1 /\ k > n
    <3>1. k \in 1 .. Len(t[1]) /\ t[i] = t[1] /\ k <= n + m
      BY <1>0, <2>1, <2>3
    <3>2. ~(k <= n) /\ k - n \in 1 .. m
      BY <2>1, <2>3, <3>1, TwoParts
    <3>3. t[i][k] = s[2][k - n] /\ k - n \in 1 .. Len(s[2]) /\ 2 \in 1 .. Len(s)
      BY <1>0, <1>1, <3>1, <3>2
    <3>4. Origin(n, i, k, 2, k - n)
      BY <2>3 DEF Origin
    <3> QED
      BY <3>3, <3>4
  <2>4. CASE i > 1
    <3>0. Len(s) = Len(t) + 1
      BY <1>1
    <3>1. i \in 2 .. Len(t) /\ i + 1 \in 1 .. Len(s)
      BY <1>1, <2>1, <2>4, <3>0, NextPlace
    <3>2. t[i] = s[i + 1]
      BY <3>1
    <3>3. Origin(n, i, k, i + 1, k)
      BY <2>4 DEF Origin
    <3> QED
      BY <3>1, <3>2, <3>3
  <2>5. (i = 1 /\ k <= n) \/ (i = 1 /\ k > n) \/ i > 1
    BY <2>1
  <2> QED
    BY <2>2, <2>3, <2>4, <2>5
<1>5. ASSUME NEW i \in 1 .. Len(t), NEW j \in 1 .. Len(t),
             NEW k \in 1 .. Len(t[i]), NEW l \in 1 .. Len(t[j]),
             i < j \/ (i = j /\ k < l)
      PROVE  t[i][k] < t[j][l]
  <2>6. PICK a \in 1 .. Len(s) : \E b \in 1 .. Len(s[a]) :
                t[i][k] = s[a][b] /\ Origin(n, i, k, a, b)
    BY <1>4
  <2>7. PICK c \in 1 .. Len(s) : \E d \in 1 .. Len(s[c]) :
                t[j][l] = s[c][d] /\ Origin(n, j, l, c, d)
    BY <1>4
  <2>1. PICK b \in 1 .. Len(s[a]) : t[i][k] = s[a][b] /\ Origin(n, i, k, a, b)
    BY <2>6
  <2>2. PICK d \in 1 .. Len(s[c]) : t[j][l] = s[c][d] /\ Origin(n, j, l, c, d)
    BY <2>7
  <2>8. Len(t[i]) \in Nat /\ Len(t[j]) \in Nat /\ Len(s[a]) \in Nat /\ Len(s[c]) \in Nat
    BY <1>2, <1>3
  <2>3. /\ i \in Nat /\ i >= 1 /\ j \in Nat /\ j >= 1 /\ a \in Nat /\ c \in Nat
    BY <1>1, Place
  <2>9. k \in Nat /\ l \in Nat /\ b \in Nat /\ d \in Nat
    BY <2>8, Place
  <2>4. a < c \/ (a = c /\ b < d)
    BY <1>5, <2>1, <2>2, <2>3, <2>9, OriginInOrder
  <2>5. s[a][b] < s[c][d]
    BY <2>4 DEF Sorted
  <2> QED
    BY <2>1, <2>2, <2>5
<1>6. ASSUME NEW i \in 1 .. Len(t), NEW k \in 1 .. Len(t[i])
      PROVE  t[i][k] \in K
  <2>1. PICK a \in 1 .. Len(s) : \E b \in 1 .. Len(s[a]) :
                t[i][k] = s[a][b] /\ Origin(n, i, k, a, b)
    BY <1>4
  <2> QED
    BY <2>1 DEF Sorted
<1>7. ASSUME NEW x \in K
      PROVE  \E i \in 1 .. Len(t) : \E k \in 1 .. Len(t[i]) : x = t[i][k]
  <2>0. PICK a \in 1 .. Len(s) : \E b \in 1 .. Len(s[a]) : x = s[a][b]
    BY DEF Sorted
  <2>1. PICK b \in 1 .. Len(s[a]) : x = s[a][b]
    BY <2>0
  <2>2. /\ a \in Nat /\ a >= 1 /\ a <= Len(s)
        /\ b \in Nat /\ b >= 1 /\ b <= Len(s[a])
    BY <1>1, <1>3, Place
  <2>3. CASE a = 1
    <3>1. b <= n
      BY <1>0, <2>2, <2>3
    <3>2. b \in 1 .. n + m
      BY <2>2, <3>1, TwoParts
    <3>3. b \in 1 .. Len(t[1]) /\ x = t[1][b]
      BY <1>0, <2>1, <2>3, <3>1, <3>2
    <3> QED
      BY <1>1, <3>3
  <2>4. CASE a = 2
    <3>1. b <= m
      BY <1>0, <2>2, <2>4
    <3>2. PICK k \in 1 .. n + m : ~(k <= n) /\ k - n = b
      BY <2>2, <3>1, TwoParts
    <3>3. k \in 1 .. Len(t[1]) /\ x = t[1][k]
      BY <1>0, <2>1, <2>4, <3>2
    <3> QED
      BY <1>1, <3>3
  <2>5. CASE a > 2
    <3> DEFINE i == a - 1
    <3>1. i \in 2 .. Len(t) /\ i \in 1 .. Len(t) /\ i + 1 = a
      BY <1>1, <2>2, <2>5
    <3> HIDE DEF i
    <3>2. t[i] = s[a]
      BY <3>1
    <3> QED
      BY <2>1, <3>1, <3>2
  <2>6. a = 1 \/ a = 2 \/ a > 2
    BY <2>2
  <2> QED
    BY <2>3, <2>4, <2>5, <2>6
<1> QED
  BY <1>5, <1>6, <1>7 DEF Sorted

\* The same of the concatenation.
LEMMA Joined ==
    ASSUME NEW s \in Seq(Seq(Nat)), NEW t \in Seq(Seq(Nat)), NEW K,
           Len(s) >= 2, Len(t) = Len(s) - 1, t[1] = s[1] \o s[2],
           \A i \in 2 .. Len(t) : t[i] = s[i + 1],
           Sorted(s, K)
    PROVE  Sorted(t, K)
<1> DEFINE a == s[1]
           b == s[2]
           ab == t[1]
<1>1. a \in Seq(Nat) /\ b \in Seq(Nat) /\ ab = a \o b
      /\ Len(a) \in Nat /\ Len(b) \in Nat
  BY Pieces
<1>2. /\ Len(ab) = Len(a) + Len(b)
      /\ \A k \in 1 .. Len(a) + Len(b) : ab[k] = IF k <= Len(a) THEN a[k] ELSE b[k - Len(a)]
  <2> HIDE DEF a, b, ab
  <2> QED
    BY <1>1, ConcatProperties
<1>3. \A k \in 1 .. Len(ab) : ab[k] = IF k <= Len(a) THEN a[k] ELSE b[k - Len(a)]
  BY <1>2
<1>4. PICK n \in Nat : n = Len(s[1])
  BY <1>1
<1>5. PICK m \in Nat : m = Len(s[2])
  BY <1>1
<1>6. Len(t[1]) = n + m
  BY <1>2, <1>4, <1>5
<1>7. \A k \in 1 .. Len(t[1]) : t[1][k] = IF k <= n THEN s[1][k] ELSE s[2][k - n]
  BY <1>3, <1>4
<1>8. Joins(s, t, n, m)
  BY <1>4, <1>5, <1>6, <1>7 DEF Joins
<1> HIDE DEF a, b, ab
<1> QED
  BY <1>8, JoinedPieces

\* A character after all the others is put at the end of the last piece.
LEMMA Typed ==
    ASSUME NEW s \in Seq(Seq(Nat)), NEW t \in Seq(Seq(Nat)), NEW K, NEW n \in Nat, NEW c \in Nat,
           n >= 1, Len(s) = n, Len(t) = n, \A i \in 1 .. n : i < n => t[i] = s[i],
           t[n] = Append(s[n], c), \A x \in K : x < c,
           Sorted(s, K)
    PROVE  Sorted(t, K \cup {c})
<1> DEFINE m == Len(s[n])
<1>1. /\ n \in 1 .. n /\ s[n] \in Seq(Nat) /\ m \in Nat /\ Len(t[n]) = m + 1 /\ t[n][m + 1] = c
      /\ \A k \in 1 .. m : t[n][k] = s[n][k]
  <2>1. n \in 1 .. n
    OBVIOUS
  <2>2. s[n] \in Seq(Nat) /\ m \in Nat
    BY <2>1, Pieces
  <2> QED
    BY <2>1, <2>2, AppendProperties
<1> HIDE DEF m
<1>2. m = Len(s[n])
  BY DEF m
<1>3. ASSUME NEW i \in 1 .. n, NEW k \in 1 .. Len(t[i])
      PROVE  \/ k \in 1 .. Len(s[i]) /\ t[i][k] = s[i][k]
             \/ i = n /\ k = m + 1 /\ t[i][k] = c
  <2>1. CASE i < n
    BY <2>1
  <2>2. CASE i = n
    <3>1. k \in 1 .. m + 1
      BY <1>1, <2>2
    <3>2. k \in 1 .. m \/ k = m + 1
      BY <1>1, <3>1
    <3> QED
      BY <1>1, <1>2, <2>2, <3>2
  <2>3. i < n \/ i = n
    OBVIOUS
  <2> QED
    BY <2>1, <2>2, <2>3
<1>4. ASSUME NEW i \in 1 .. n, NEW j \in 1 .. n,
             NEW k \in 1 .. Len(t[i]), NEW l \in 1 .. Len(t[j]),
             i < j \/ (i = j /\ k < l)
      PROVE  t[i][k] < t[j][l]
  <2>1. /\ i \in Nat /\ i >= 1 /\ i <= n /\ j \in Nat /\ j >= 1 /\ j <= n
        /\ k \in Nat /\ l \in Nat
    <3>1. Len(t[i]) \in Nat /\ Len(t[j]) \in Nat
      BY Pieces
    <3> QED
      BY <3>1, Place
  <2>2. ASSUME i = n, k = m + 1
        PROVE  FALSE
    <3>1. i = j
      BY <1>4, <2>1, <2>2
    <3>2. l \in 1 .. m + 1
      BY <1>1, <2>2, <3>1
    <3>3. l <= m + 1
      BY <1>1, <3>2
    <3> QED
      BY <1>1, <1>4, <2>1, <2>2, <3>1, <3>3
  <2>3. k \in 1 .. Len(s[i]) /\ t[i][k] = s[i][k]
    BY <1>3, <2>2
  <2>4. CASE l \in 1 .. Len(s[j]) /\ t[j][l] = s[j][l]
    <3>1. s[i][k] < s[j][l]
      BY <1>4, <2>3, <2>4 DEF Sorted
    <3> QED
      BY <2>3, <2>4, <3>1
  <2>5. CASE t[j][l] = c
    <3>1. s[i][k] \in K
      BY <2>3 DEF Sorted
    <3> QED
      BY <2>3, <2>5, <3>1
  <2> QED
    BY <1>3, <2>4, <2>5
<1>5. ASSUME NEW i \in 1 .. n, NEW k \in 1 .. Len(t[i])
      PROVE  t[i][k] \in K \cup {c}
  BY <1>3 DEF Sorted
<1>6. ASSUME NEW x \in K \cup {c}
      PROVE  \E i \in 1 .. n : \E k \in 1 .. Len(t[i]) : x = t[i][k]
  <2>1. CASE x \in K
    <3>1. PICK i \in 1 .. n : \E k \in 1 .. Len(s[i]) : x = s[i][k]
      BY <2>1 DEF Sorted
    <3>2. PICK k \in 1 .. Len(s[i]) : x = s[i][k]
      BY <3>1
    <3>3. CASE i < n
      BY <3>2, <3>3
    <3>4. CASE i = n
      <4>1. k \in 1 .. m
        BY <1>2, <3>4
      <4>2. k \in 1 .. m + 1
        BY <1>1, <4>1
      <4>3. k \in 1 .. Len(t[i]) /\ x = t[i][k]
        BY <1>1, <3>2, <3>4, <4>1, <4>2
      <4> QED
        BY <4>3
    <3>5. i < n \/ i = n
      OBVIOUS
    <3> QED
      BY <3>3, <3>4, <3>5
  <2>2. CASE x = c
    <3>1. m + 1 \in 1 .. m + 1
      BY <1>1
    <3>2. m + 1 \in 1 .. Len(t[n]) /\ x = t[n][m + 1]
      BY <1>1, <2>2, <3>1
    <3> QED
      BY <1>1, <3>2
  <2> QED
    BY <2>1, <2>2
<1> QED
  BY <1>4, <1>5, <1>6 DEF Sorted

\* An empty piece comes last: the line is in the queue, the buffer is empty.
LEMMA Begun ==
    ASSUME NEW s \in Seq(Seq(Nat)), NEW t \in Seq(Seq(Nat)), NEW K, NEW n \in Nat,
           Len(s) = n, Len(t) = n + 1, \A i \in 1 .. n : t[i] = s[i], Len(t[n + 1]) = 0,
           Sorted(s, K)
    PROVE  Sorted(t, K)
<1>1. ASSUME NEW i \in 1 .. n + 1, NEW k \in 1 .. Len(t[i])
      PROVE  i \in 1 .. n /\ t[i] = s[i] /\ k \in 1 .. Len(s[i])
  <2>1. i \in 1 .. n \/ i = n + 1
    OBVIOUS
  <2>2. i # n + 1
    <3>1. 1 .. 0 = {}
      OBVIOUS
    <3> QED
      BY <3>1
  <2> QED
    BY <2>1, <2>2
<1>2. \A i \in 1 .. n : i \in 1 .. n + 1
  OBVIOUS
<1>3. ASSUME NEW i \in 1 .. n + 1, NEW j \in 1 .. n + 1,
             NEW k \in 1 .. Len(t[i]), NEW l \in 1 .. Len(t[j]),
             i < j \/ (i = j /\ k < l)
      PROVE  t[i][k] < t[j][l]
  <2>1. /\ i \in 1 .. n /\ t[i] = s[i] /\ k \in 1 .. Len(s[i])
        /\ j \in 1 .. n /\ t[j] = s[j] /\ l \in 1 .. Len(s[j])
    BY <1>1
  <2>2. s[i][k] < s[j][l]
    BY <1>3, <2>1 DEF Sorted
  <2> QED
    BY <2>1, <2>2
<1>4. ASSUME NEW i \in 1 .. n + 1, NEW k \in 1 .. Len(t[i])
      PROVE  t[i][k] \in K
  <2>1. i \in 1 .. n /\ t[i] = s[i] /\ k \in 1 .. Len(s[i])
    BY <1>1
  <2> QED
    BY <2>1 DEF Sorted
<1>5. ASSUME NEW x \in K
      PROVE  \E i \in 1 .. n + 1 : \E k \in 1 .. Len(t[i]) : x = t[i][k]
  <2>1. PICK i \in 1 .. n : \E k \in 1 .. Len(s[i]) : x = s[i][k]
    BY DEF Sorted
  <2>2. t[i] = s[i] /\ i \in 1 .. n + 1
    BY <1>2
  <2> QED
    BY <2>1, <2>2
<1> QED
  BY <1>3, <1>4, <1>5 DEF Sorted

\* The last piece is emptied: its line found no slot.
LEMMA Emptied ==
    ASSUME NEW s \in Seq(Seq(Nat)), NEW t \in Seq(Seq(Nat)), NEW K, NEW n \in Nat,
           n >= 1, Len(s) = n, Len(t) = n, \A i \in 1 .. n : i < n => t[i] = s[i],
           Len(t[n]) = 0,
           Sorted(s, K)
    PROVE  Sorted(t, K \ Term!ToSet(s[n]))
<1> DEFINE L == Term!ToSet(s[n])
<1>1. \A x : x \in L <=> \E k \in 1 .. Len(s[n]) : x = s[n][k]
  <2>1. DOMAIN s[n] = 1 .. Len(s[n])
    <3>1. n \in 1 .. n
      OBVIOUS
    <3> QED
      BY <3>1, Pieces
  <2> QED
    BY <2>1, Zenon DEF Term!ToSet
<1> HIDE DEF L
<1>2. ASSUME NEW i \in 1 .. n, NEW k \in 1 .. Len(t[i])
      PROVE  i < n /\ t[i] = s[i] /\ k \in 1 .. Len(s[i])
  <2>1. i # n
    <3>1. 1 .. 0 = {}
      OBVIOUS
    <3> QED
      BY <3>1
  <2>2. i < n
    BY <2>1
  <2> QED
    BY <2>2
<1>3. ASSUME NEW i \in 1 .. n, NEW j \in 1 .. n,
             NEW k \in 1 .. Len(t[i]), NEW l \in 1 .. Len(t[j]),
             i < j \/ (i = j /\ k < l)
      PROVE  t[i][k] < t[j][l]
  <2>1. t[i] = s[i] /\ k \in 1 .. Len(s[i]) /\ t[j] = s[j] /\ l \in 1 .. Len(s[j])
    BY <1>2
  <2>2. s[i][k] < s[j][l]
    BY <1>3, <2>1 DEF Sorted
  <2> QED
    BY <2>1, <2>2
<1>4. ASSUME NEW i \in 1 .. n, NEW k \in 1 .. Len(t[i])
      PROVE  t[i][k] \in K \ L
  <2>1. i < n /\ t[i] = s[i] /\ k \in 1 .. Len(s[i]) /\ n \in 1 .. n
    BY <1>2
  <2>2. s[i][k] \in K /\ s[i][k] \in Nat
    BY <2>1, Pieces DEF Sorted
  <2>3. \A l \in 1 .. Len(s[n]) : s[i][k] < s[n][l] /\ s[n][l] \in Nat
    BY <2>1, Pieces DEF Sorted
  <2>4. ASSUME NEW l \in 1 .. Len(s[n]) PROVE s[i][k] # s[n][l]
    <3>1. PICK x : x = s[i][k]
      OBVIOUS
    <3>2. PICK y : y = s[n][l]
      OBVIOUS
    <3>3. x < y /\ x \in Nat /\ y \in Nat
      BY <2>2, <2>3, <3>1, <3>2
    <3>4. x # y
      BY <3>3
    <3> QED
      BY <3>1, <3>2, <3>4
  <2> QED
    BY <1>1, <2>1, <2>2, <2>4
<1>5. ASSUME NEW x \in K \ L
      PROVE  \E i \in 1 .. n : \E k \in 1 .. Len(t[i]) : x = t[i][k]
  <2>1. PICK i \in 1 .. n : \E k \in 1 .. Len(s[i]) : x = s[i][k]
    <3>1. x \in K
      OBVIOUS
    <3> QED
      BY <3>1 DEF Sorted
  <2>2. i # n
    BY <1>1, <2>1
  <2>3. t[i] = s[i]
    BY <2>2
  <2> QED
    BY <2>1, <2>3
<1> QED
  BY <1>3, <1>4, <1>5 DEF Sorted, L

\* What was typed at a unit: what is read, the queue, and the line that is begun.
All(read, queue, line) == <<read>> \o queue \o <<line>>

\* The pieces of it: a is made of r, of q, which has n lines, and of b.
MadeOf(a, r, q, b, n) ==
    /\ a \in Seq(Seq(Nat)) /\ Len(a) = n + 2 /\ a[1] = r /\ a[n + 2] = b
    /\ \A i \in 1 .. n : a[i + 1] = q[i]

\* All has these pieces.
LEMMA AllPieces ==
    ASSUME NEW r \in Seq(Nat), NEW q \in Seq(Seq(Nat)), NEW b \in Seq(Nat)
    PROVE  MadeOf(All(r, q, b), r, q, b, Len(q))
<1>12. PICK a : a = All(r, q, b)
  OBVIOUS
<1>13. PICK n \in Nat : n = Len(q)
  BY LenProperties
<1> DEFINE x == <<r>>
           y == <<b>>
           S == Seq(Nat)
<1>1. /\ x \in Seq(S) /\ Len(x) = 1 /\ x[1] = r
      /\ y \in Seq(S) /\ Len(y) = 1 /\ y[1] = b
      /\ q \in Seq(S) /\ Len(q) \in Nat
  BY LenProperties
<1>2. PICK xq : xq = x \o q
  OBVIOUS
<1>3. a = xq \o y
  BY <1>2, <1>12 DEF All
<1> HIDE DEF x, y, S
<1>4. /\ xq \in Seq(S) /\ Len(xq) = Len(x) + Len(q)
      /\ \A i \in 1 .. Len(x) + Len(q) :
            xq[i] = IF i <= Len(x) THEN x[i] ELSE q[i - Len(x)]
  BY <1>1, <1>2, ConcatProperties
<1>5. /\ xq \in Seq(S) /\ Len(xq) = 1 + n
      /\ \A i \in 1 .. 1 + n : xq[i] = IF i <= 1 THEN x[i] ELSE q[i - 1]
  BY <1>1, <1>4, <1>13
<1>6. /\ a \in Seq(S) /\ Len(a) = Len(xq) + Len(y)
      /\ \A i \in 1 .. Len(xq) + Len(y) :
            a[i] = IF i <= Len(xq) THEN xq[i] ELSE y[i - Len(xq)]
  <2>1. /\ xq \o y \in Seq(S) /\ Len(xq \o y) = Len(xq) + Len(y)
        /\ \A i \in 1 .. Len(xq) + Len(y) :
              (xq \o y)[i] = IF i <= Len(xq) THEN xq[i] ELSE y[i - Len(xq)]
    BY <1>1, <1>5, ConcatProperties
  <2> QED
    BY <1>3, <2>1, Zenon
<1>11. (1 + n) + 1 = n + 2
  OBVIOUS
<1>7. /\ a \in Seq(S) /\ Len(a) = n + 2
      /\ \A i \in 1 .. n + 2 : a[i] = IF i <= 1 + n THEN xq[i] ELSE y[i - (1 + n)]
      /\ \A i \in 1 .. 1 + n : xq[i] = IF i <= 1 THEN x[i] ELSE q[i - 1]
  BY <1>1, <1>5, <1>6, <1>11
<1>8. a[1] = r
  <2>1. 1 \in 1 .. n + 2 /\ 1 \in 1 .. 1 + n /\ 1 <= 1 + n
    OBVIOUS
  <2>2. a[1] = xq[1] /\ xq[1] = x[1]
    BY <1>7, <2>1
  <2> QED
    BY <1>1, <2>2
<1>9. a[n + 2] = b
  <2>1. n + 2 \in 1 .. n + 2 /\ ~(n + 2 <= 1 + n) /\ (n + 2) - (1 + n) = 1
    OBVIOUS
  <2>2. a[n + 2] = y[(n + 2) - (1 + n)]
    BY <1>7, <2>1
  <2> QED
    BY <1>1, <2>1, <2>2
<1>10. ASSUME NEW i \in 1 .. n PROVE a[i + 1] = q[i]
  <2>1. /\ i + 1 \in 1 .. n + 2 /\ i + 1 \in 1 .. 1 + n /\ i + 1 <= 1 + n /\ ~(i + 1 <= 1)
        /\ (i + 1) - 1 = i
    OBVIOUS
  <2>2. a[i + 1] = xq[i + 1] /\ xq[i + 1] = q[(i + 1) - 1]
    BY <1>7, <2>1
  <2> QED
    BY <2>1, <2>2
<1>14. MadeOf(a, r, q, b, n)
  BY <1>7, <1>8, <1>9, <1>10 DEF S, MadeOf
<1> QED
  BY <1>12, <1>13, <1>14

\* The first line of the queue is read.
LEMMA LineRead ==
    ASSUME NEW r \in Seq(Nat), NEW q \in Seq(Seq(Nat)), NEW b \in Seq(Nat), NEW K,
           q # <<>>, Sorted(All(r, q, b), K)
    PROVE  Sorted(All(r \o Head(q), Tail(q), b), K)
<1>1. PICK n \in Nat : n + 1 = Len(q)
  <2>1. Len(q) \in Nat \ {0}
    BY Rest
  <2>2. Len(q) - 1 \in Nat /\ (Len(q) - 1) + 1 = Len(q)
    BY <2>1
  <2> QED
    BY <2>2
<1>2. PICK h : h = Head(q)
  OBVIOUS
<1>3. PICK w : w = Tail(q)
  OBVIOUS
<1>4. /\ h \in Seq(Nat) /\ h = q[1]
      /\ w \in Seq(Seq(Nat)) /\ Len(w) = n /\ \A i \in 1 .. n : w[i] = q[i + 1]
  <2>1. /\ h \in Seq(Nat) /\ h = q[1]
        /\ w \in Seq(Seq(Nat)) /\ Len(w) = Len(q) - 1
        /\ \A i \in 1 .. Len(w) : w[i] = q[i + 1]
    BY <1>2, <1>3, Rest, HeadTailProperties
  <2>2. Len(w) = n
    BY <1>1, <2>1
  <2> QED
    BY <2>1, <2>2
<1>5. PICK rh : rh = r \o h
  OBVIOUS
<1>6. rh \in Seq(Nat)
  BY <1>4, <1>5, ConcatProperties
<1>7. PICK s : s = All(r, q, b)
  OBVIOUS
<1>8. PICK t : t = All(rh, w, b)
  OBVIOUS
<1>9. /\ s \in Seq(Seq(Nat)) /\ Len(s) = n + 3 /\ s[1] = r /\ s[n + 3] = b
      /\ \A i \in 1 .. n + 1 : s[i + 1] = q[i]
  <2>1. /\ s \in Seq(Seq(Nat)) /\ Len(s) = (n + 1) + 2 /\ s[1] = r /\ s[(n + 1) + 2] = b
        /\ \A i \in 1 .. n + 1 : s[i + 1] = q[i]
    <3>1. MadeOf(s, r, q, b, n + 1)
      BY <1>1, <1>7, AllPieces
    <3> QED
      BY <3>1 DEF MadeOf
  <2>2. (n + 1) + 2 = n + 3
    OBVIOUS
  <2> QED
    BY <2>1, <2>2
<1>10. /\ t \in Seq(Seq(Nat)) /\ Len(t) = n + 2 /\ t[1] = rh /\ t[n + 2] = b
       /\ \A i \in 1 .. n : t[i + 1] = w[i]
  <2>1. MadeOf(t, rh, w, b, n)
    BY <1>4, <1>6, <1>8, AllPieces
  <2> QED
    BY <2>1 DEF MadeOf
<1>11. s[2] = h
  <2>1. 1 \in 1 .. n + 1 /\ 1 + 1 = 2
    OBVIOUS
  <2>2. s[1 + 1] = q[1]
    BY <1>9, <2>1
  <2> QED
    BY <1>4, <2>1, <2>2
<1>12. ASSUME NEW i \in 2 .. n + 2 PROVE t[i] = s[i + 1]
  <2>1. CASE i = n + 2
    <3>1. i + 1 = n + 3
      BY <2>1
    <3> QED
      BY <1>9, <1>10, <2>1, <3>1
  <2>2. CASE i # n + 2
    <3>1. PICK j \in 1 .. n : j + 1 = i
      <4>1. i - 1 \in 1 .. n /\ (i - 1) + 1 = i
        BY <2>2
      <4> QED
        BY <4>1
    <3>2. j + 1 \in 1 .. n + 1
      OBVIOUS
    <3>3. t[i] = w[j] /\ w[j] = q[j + 1] /\ s[(j + 1) + 1] = q[j + 1]
      BY <1>4, <1>9, <1>10, <3>1, <3>2
    <3> QED
      BY <3>1, <3>3
  <2> QED
    BY <2>1, <2>2
<1>13. Len(s) >= 2 /\ Len(t) = Len(s) - 1
  <2>1. n + 3 >= 2 /\ n + 2 = (n + 3) - 1
    OBVIOUS
  <2> QED
    BY <1>9, <1>10, <2>1
<1>14. Sorted(t, K)
  <2>1. s \in Seq(Seq(Nat)) /\ t \in Seq(Seq(Nat)) /\ t[1] = s[1] \o s[2]
    BY <1>5, <1>9, <1>10, <1>11
  <2>2. \A i \in 2 .. Len(t) : t[i] = s[i + 1]
    BY <1>10, <1>12
  <2>3. Sorted(s, K)
    BY <1>7
  <2> QED
    BY <1>13, <2>1, <2>2, <2>3, Joined
<1> QED
  BY <1>2, <1>3, <1>5, <1>8, <1>14

\* The last piece is not among the others.
LEMMA LastPiece ==
    ASSUME NEW n \in Nat, NEW i \in 1 .. n + 2
    PROVE  \/ i = n + 2
           \/ i < n + 2 /\ (i = 1 \/ \E j \in 1 .. n : i = j + 1)
<1>1. CASE i = n + 2 \/ i = 1
  BY <1>1
<1>2. CASE i # n + 2 /\ i # 1
  <2>1. i - 1 \in 1 .. n /\ (i - 1) + 1 = i /\ i < n + 2
    BY <1>2
  <2> QED
    BY <2>1
<1> QED
  BY <1>1, <1>2

\* Only the line that is begun differs.
LEMMA SameBefore ==
    ASSUME NEW r, NEW q, NEW b, NEW c, NEW n \in Nat, NEW s, NEW t,
           MadeOf(s, r, q, b, n), MadeOf(t, r, q, c, n)
    PROVE  \A i \in 1 .. n + 2 : i < n + 2 => t[i] = s[i]
<1> SUFFICES ASSUME NEW i \in 1 .. n + 2, i < n + 2
             PROVE  t[i] = s[i]
  OBVIOUS
<1>1. CASE i = 1
  BY <1>1 DEF MadeOf
<1>2. CASE \E j \in 1 .. n : i = j + 1
  <2>1. PICK j \in 1 .. n : i = j + 1
    BY <1>2
  <2>2. t[j + 1] = q[j] /\ s[j + 1] = q[j]
    BY DEF MadeOf
  <2> QED
    BY <2>1, <2>2
<1> QED
  BY <1>1, <1>2, LastPiece

\* A character is typed.
LEMMA CharTyped ==
    ASSUME NEW r \in Seq(Nat), NEW q \in Seq(Seq(Nat)), NEW b \in Seq(Nat), NEW typed \in Nat,
           NEW dropped, dropped \subseteq 1 .. typed,
           Sorted(All(r, q, b), (1 .. typed) \ dropped)
    PROVE  Sorted(All(r, q, Append(b, typed + 1)), (1 .. typed + 1) \ dropped)
<1>1. PICK n \in Nat : n = Len(q)
  BY LenProperties
<1>2. PICK s : s = All(r, q, b)
  OBVIOUS
<1>3. PICK c \in Nat : c = typed + 1
  OBVIOUS
<1>4. PICK t : t = All(r, q, Append(b, c))
  OBVIOUS
<1>5. Append(b, c) \in Seq(Nat)
  BY AppendProperties
<1>6. MadeOf(s, r, q, b, n) /\ MadeOf(t, r, q, Append(b, c), n)
  BY <1>1, <1>2, <1>4, <1>5, AllPieces
<1>7. PICK m \in Nat : m = n + 2
  OBVIOUS
<1>8. \A i \in 1 .. m : i < m => t[i] = s[i]
  BY <1>6, <1>7, SameBefore
<1>9. /\ s \in Seq(Seq(Nat)) /\ t \in Seq(Seq(Nat)) /\ Len(s) = m /\ Len(t) = m
      /\ t[m] = Append(s[m], c) /\ m >= 1
  BY <1>6, <1>7 DEF MadeOf
<1> DEFINE K == (1 .. typed) \ dropped
<1>10. \A x \in K : x < c
  BY <1>3
<1>11. K \cup {c} = (1 .. typed + 1) \ dropped
  <2>1. c \notin dropped /\ (1 .. typed) \cup {c} = 1 .. typed + 1
    BY <1>3
  <2> QED
    BY <2>1
<1>12. Sorted(s, K)
  BY <1>2
<1> HIDE DEF K
<1>13. Sorted(t, K \cup {c})
  BY <1>8, <1>9, <1>10, <1>12, Typed
<1> QED
  BY <1>3, <1>4, <1>11, <1>13

\* The line is put in the queue.
LEMMA LineQueued ==
    ASSUME NEW r \in Seq(Nat), NEW q \in Seq(Seq(Nat)), NEW b \in Seq(Nat), NEW K,
           Sorted(All(r, q, b), K)
    PROVE  Sorted(All(r, Append(q, b), <<>>), K)
<1>1. PICK n \in Nat : n = Len(q)
  BY LenProperties
<1>2. PICK s : s = All(r, q, b)
  OBVIOUS
<1>3. PICK e \in Seq(Nat) : e = <<>> /\ Len(e) = 0
  BY EmptySeq
<1>4. PICK w : w = Append(q, b)
  OBVIOUS
<1>5. /\ w \in Seq(Seq(Nat)) /\ Len(w) = n + 1
      /\ \A i \in 1 .. n : w[i] = q[i] /\ w[n + 1] = b
  BY <1>1, <1>4, AppendProperties
<1>6. w[n + 1] = b
  BY <1>1, <1>4, AppendProperties
<1>7. PICK t : t = All(r, w, e)
  OBVIOUS
<1>8. MadeOf(s, r, q, b, n) /\ MadeOf(t, r, w, e, n + 1)
  BY <1>1, <1>2, <1>5, <1>7, AllPieces
<1>9. /\ s \in Seq(Seq(Nat)) /\ Len(s) = n + 2 /\ s[1] = r /\ s[n + 2] = b
      /\ \A i \in 1 .. n : s[i + 1] = q[i]
  BY <1>8 DEF MadeOf
<1>10. /\ t \in Seq(Seq(Nat)) /\ Len(t) = (n + 1) + 2 /\ t[1] = r /\ t[(n + 1) + 2] = e
       /\ \A i \in 1 .. n + 1 : t[i + 1] = w[i]
  BY <1>8 DEF MadeOf
<1>11. ASSUME NEW i \in 1 .. n + 2 PROVE t[i] = s[i]
  <2>1. CASE i = n + 2
    <3>1. n + 1 \in 1 .. n + 1 /\ (n + 1) + 1 = n + 2
      OBVIOUS
    <3>2. t[(n + 1) + 1] = w[n + 1]
      BY <1>10, <3>1
    <3> QED
      BY <1>6, <1>9, <2>1, <3>1, <3>2
  <2>2. CASE i = 1
    BY <1>9, <1>10, <2>2
  <2>3. CASE \E j \in 1 .. n : i = j + 1
    <3>1. PICK j \in 1 .. n : i = j + 1
      BY <2>3
    <3>2. j \in 1 .. n + 1
      OBVIOUS
    <3>3. t[j + 1] = w[j] /\ w[j] = q[j] /\ s[j + 1] = q[j]
      BY <1>5, <1>9, <1>10, <3>2
    <3> QED
      BY <3>1, <3>3
  <2> QED
    BY <2>1, <2>2, <2>3, LastPiece
<1>12. PICK m \in Nat : m = n + 2
  OBVIOUS
<1>13. (n + 1) + 2 = m + 1
  BY <1>12
<1>14. /\ s \in Seq(Seq(Nat)) /\ t \in Seq(Seq(Nat)) /\ Len(s) = m /\ Len(t) = m + 1
       /\ \A i \in 1 .. m : t[i] = s[i]
       /\ Len(t[m + 1]) = 0
  BY <1>3, <1>9, <1>10, <1>11, <1>12, <1>13
<1>15. Sorted(t, K)
  BY <1>2, <1>14, Begun
<1> QED
  BY <1>3, <1>4, <1>7, <1>15

\* The line is dropped.
LEMMA LineDropped ==
    ASSUME NEW r \in Seq(Nat), NEW q \in Seq(Seq(Nat)), NEW b \in Seq(Nat), NEW K,
           Sorted(All(r, q, b), K)
    PROVE  Sorted(All(r, q, <<>>), K \ Term!ToSet(b)) /\ Term!ToSet(b) \subseteq K
<1>1. PICK n \in Nat : n = Len(q)
  BY LenProperties
<1>2. PICK s : s = All(r, q, b)
  OBVIOUS
<1>3. PICK e \in Seq(Nat) : e = <<>> /\ Len(e) = 0
  BY EmptySeq
<1>4. PICK t : t = All(r, q, e)
  OBVIOUS
<1>5. MadeOf(s, r, q, b, n) /\ MadeOf(t, r, q, e, n)
  BY <1>1, <1>2, <1>4, AllPieces
<1>6. PICK m \in Nat : m = n + 2
  OBVIOUS
<1>7. \A i \in 1 .. m : i < m => t[i] = s[i]
  BY <1>5, <1>6, SameBefore
<1>8. /\ s \in Seq(Seq(Nat)) /\ t \in Seq(Seq(Nat)) /\ Len(s) = m /\ Len(t) = m
      /\ s[m] = b /\ t[m] = e /\ m >= 1
  BY <1>5, <1>6 DEF MadeOf
<1>9. Sorted(t, K \ Term!ToSet(b))
  <2>1. Len(t[m]) = 0
    BY <1>3, <1>8
  <2>2. Sorted(t, K \ Term!ToSet(s[m]))
    BY <1>2, <1>7, <1>8, <2>1, Emptied
  <2> QED
    BY <1>8, <2>2
<1>10. Term!ToSet(b) \subseteq K
  <2>1. m \in 1 .. m
    BY <1>8
  <2>2. \A k \in 1 .. Len(s[m]) : s[m][k] \in K
    BY <1>2, <1>8, <2>1 DEF Sorted
  <2>3. DOMAIN b = 1 .. Len(b)
    BY LenProperties
  <2> QED
    BY <1>8, <2>2, <2>3 DEF Term!ToSet
<1> QED
  BY <1>3, <1>4, <1>9, <1>10

-----------------------------------------------------------------------------
\* What was typed at u, in order and whole but for what was dropped.
Held(u) ==
    /\ terminal[u].dropped \subseteq 1 .. terminal[u].typed
    /\ Sorted(All(terminal[u].read, lines[u], buffer[u]),
              (1 .. terminal[u].typed) \ terminal[u].dropped)

\* Every piece is a sequence of numbers.
LEMMA InputTypes ==
    ASSUME TermTypes, NEW u \in Units
    PROVE  /\ terminal[u].read \in Seq(Nat) /\ lines[u] \in Seq(Seq(Nat))
           /\ buffer[u] \in Seq(Nat) /\ terminal[u].typed \in Nat
<1>1. terminal[u] \in Term!Device /\ MaxTyped \in Nat
  BY TerminalConstants DEF TermTypes
<1> QED
  BY <1>1 DEF TermTypes, Term!Device

\* Nothing is typed or read at u.
LEMMA SameInput ==
    ASSUME NEW u \in Units, Held(u), lines'[u] = lines[u], buffer'[u] = buffer[u],
           terminal'[u].read = terminal[u].read, terminal'[u].typed = terminal[u].typed,
           terminal'[u].dropped = terminal[u].dropped
    PROVE  Held(u)'
  BY DEF Held

\* TermRead takes the first line, or none.
LEMMA ReadHolds ==
    ASSUME TermTypes, \A v \in Units : Held(v),
           NEW p \in Procs, NEW u \in Units, NEW size \in Sizes, Term!ourTermRead(p, u, size)
    PROVE  \A v \in Units : Held(v)'
<1>1. CASE UNCHANGED <<lines, terminal>>
  BY <1>1, ReadEffect, SameInput
<1>2. CASE /\ lines[u] # <<>> /\ lines'[u] = Tail(lines[u])
           /\ \A v \in Units \ {u} : lines'[v] = lines[v] /\ terminal'[v] = terminal[v]
           /\ terminal'[u].read = terminal[u].read \o Head(lines[u])
           /\ terminal'[u].typed = terminal[u].typed
           /\ terminal'[u].dropped = terminal[u].dropped
  <2>1. buffer' = buffer
    BY ReadEffect
  <2>2. \A v \in Units \ {u} : Held(v)'
    BY <1>2, <2>1, SameInput
  <2>3. Sorted(All(terminal[u].read \o Head(lines[u]), Tail(lines[u]), buffer[u]),
               (1 .. terminal[u].typed) \ terminal[u].dropped)
    BY <1>2, InputTypes, LineRead DEF Held
  <2>4. Held(u)'
    BY <1>2, <2>1, <2>3 DEF Held
  <2> QED
    BY <2>2, <2>4
<1> QED
  BY <1>1, <1>2, ReadEffect

\* A turn of termMain2: the line, with the character, stays in the buffer, is
\* dropped or is queued, and the first line of the queue may be read.
LEMMA TurnHolds ==
    ASSUME TermTypes, \A v \in Units : Held(v),
           NEW u \in Units, NEW sent \in BOOLEAN, NEW key \in Keys,
           Term!Interrupt(u, sent, key)
    PROVE  \A v \in Units : Held(v)'
<1> DEFINE r == terminal[u].read
           q == lines[u]
           b == buffer[u]
           n == terminal[u].typed
           D == terminal[u].dropped
           line == Line(u, key)
<1>1. /\ r \in Seq(Nat) /\ q \in Seq(Seq(Nat)) /\ b \in Seq(Nat) /\ n \in Nat
      /\ D \subseteq 1 .. n /\ Sorted(All(r, q, b), (1 .. n) \ D)
  BY InputTypes DEF Held
<1>2. /\ line \in Seq(Nat) /\ Queue(u, key) \in Seq(Seq(Nat))
      /\ Taken(u, key) => Kept(u, key) /\ Queue(u, key) # <<>>
      /\ buffer'[u] = IF Over(u, key) THEN <<>> ELSE line
      /\ lines'[u] = IF Taken(u, key) THEN Tail(Queue(u, key)) ELSE Queue(u, key)
      /\ \A v \in Units \ {u} : buffer'[v] = buffer[v] /\ lines'[v] = lines[v]
  BY TurnLines
<1>3. /\ terminal'[u].typed = IF key = "none" THEN n ELSE n + 1
      /\ terminal'[u].read = IF Taken(u, key) THEN r \o Head(Queue(u, key)) ELSE r
      /\ terminal'[u].dropped = IF Over(u, key) /\ ~Kept(u, key) THEN D \cup Term!ToSet(line)
                                ELSE D
      /\ \A v \in Units \ {u} : terminal'[v] = terminal[v]
  BY ZenonT(60), TurnTerminal
<1>4. \A v \in Units \ {u} : Held(v)'
  BY <1>2, <1>3, SameInput
<1>5. Queue(u, key) = IF Kept(u, key) THEN Append(q, line) ELSE q
  BY DEF Queue
<1>6. (Kept(u, key) => Over(u, key)) /\ (Over(u, key) => key # "none")
  BY DEF Kept, Over
<1>7. line = IF key = "none" THEN b ELSE Append(b, n + 1)
  BY DEF Line
<1>8. CASE key = "none"
  <2>1. ~Over(u, key) /\ ~Kept(u, key) /\ ~Taken(u, key)
    BY <1>2, <1>6, <1>8
  <2> QED
    BY <1>2, <1>3, <1>4, <1>5, <1>7, <1>8, <2>1, SameInput
<1>9. CASE key # "none"
  <2>1. D \subseteq 1 .. n + 1 /\ Sorted(All(r, q, line), (1 .. n + 1) \ D)
    <3> HIDE DEF r, q, b, n, D, line
    <3>1. line = Append(b, n + 1)
      BY <1>7, <1>9
    <3>2. Sorted(All(r, q, Append(b, n + 1)), (1 .. n + 1) \ D)
      BY <1>1, CharTyped
    <3>3. D \subseteq 1 .. n + 1
      BY <1>1
    <3> QED
      BY <3>1, <3>2, <3>3
  <2>2. terminal'[u].typed = n + 1
    BY <1>3, <1>9
  <2>3. CASE ~Over(u, key)
    <3>1. /\ buffer'[u] = line /\ lines'[u] = q /\ terminal'[u].read = r
          /\ terminal'[u].dropped = D
      BY <1>2, <1>3, <1>5, <1>6, <2>3
    <3> QED
      BY <1>4, <2>1, <2>2, <3>1 DEF Held
  <2>4. CASE Over(u, key) /\ ~Kept(u, key)
    <3>1. /\ buffer'[u] = <<>> /\ lines'[u] = q /\ terminal'[u].read = r
          /\ terminal'[u].dropped = D \cup Term!ToSet(line)
      BY <1>2, <1>3, <1>5, <2>4
    <3>2. /\ Sorted(All(r, q, <<>>), ((1 .. n + 1) \ D) \ Term!ToSet(line))
          /\ Term!ToSet(line) \subseteq (1 .. n + 1) \ D
      <4> DEFINE K == (1 .. n + 1) \ D
      <4> HIDE DEF r, q, line, K
      <4>1. r \in Seq(Nat) /\ q \in Seq(Seq(Nat)) /\ line \in Seq(Nat) /\ Sorted(All(r, q, line), K)
        BY <1>1, <1>2, <2>1 DEF K
      <4>2. Sorted(All(r, q, <<>>), K \ Term!ToSet(line)) /\ Term!ToSet(line) \subseteq K
        BY <4>1, LineDropped
      <4> QED
        BY <4>2 DEF K
    <3>3. ((1 .. n + 1) \ D) \ Term!ToSet(line) = (1 .. n + 1) \ (D \cup Term!ToSet(line))
      OBVIOUS
    <3> QED
      BY <1>4, <2>1, <2>2, <3>1, <3>2, <3>3 DEF Held
  <2>5. CASE Kept(u, key)
    <3>1. /\ Sorted(All(r, Append(q, line), <<>>), (1 .. n + 1) \ D)
          /\ Queue(u, key) = Append(q, line)
      BY <1>1, <1>2, <1>5, <2>1, <2>5, LineQueued
    <3>2. buffer'[u] = <<>> /\ terminal'[u].dropped = D /\ <<>> \in Seq(Nat)
      BY <1>2, <1>3, <1>6, <2>5, EmptySeq
    <3>3. CASE Taken(u, key)
      <4>1. Sorted(All(r \o Head(Queue(u, key)), Tail(Queue(u, key)), <<>>), (1 .. n + 1) \ D)
        BY <1>1, <1>2, <3>1, <3>2, <3>3, LineRead
      <4>2. /\ lines'[u] = Tail(Queue(u, key))
            /\ terminal'[u].read = r \o Head(Queue(u, key))
        BY <1>2, <1>3, <3>3
      <4> QED
        BY <1>4, <2>1, <2>2, <3>2, <4>1, <4>2 DEF Held
    <3>4. CASE ~Taken(u, key)
      <4>1. lines'[u] = Append(q, line) /\ terminal'[u].read = r
        BY <1>2, <1>3, <3>1, <3>4
      <4> QED
        BY <1>4, <2>1, <2>2, <3>1, <3>2, <4>1 DEF Held
    <3> QED
      BY <3>3, <3>4
  <2> QED
    BY <1>6, <2>3, <2>4, <2>5
<1> QED
  BY <1>8, <1>9

\* What is sent leaves the input alone.
LEMMA WritingHolds ==
    ASSUME InTurn, \A v \in Units : Held(v), NEW p \in Procs,
           Term!Transmit(p) \/ Term!ResumeTransmit(p)
    PROVE  \A v \in Units : Held(v)'
<1>1. lines' = lines /\ buffer' = buffer /\ Term!writeCharToTerminal(p)
  BY DEF Term!Transmit, Term!ResumeTransmit
<1>2. ASSUME NEW v \in Units
      PROVE  /\ terminal'[v].read = terminal[v].read
             /\ terminal'[v].typed = terminal[v].typed
             /\ terminal'[v].dropped = terminal[v].dropped
  <2>1. terminal[v] \in Term!Device
    BY DEF InTurn, TermTypes
  <2>2. PICK t : t = terminal[v]
    OBVIOUS
  <2>3. PICK c : c = [by |-> p, call |-> user[p].calls, left |-> user[p].size]
    OBVIOUS
  <2>4. terminal'[v] \in {t, [t EXCEPT !.lost = @ + 1],
                          [t EXCEPT !.busy = TRUE, !.raised = FALSE, !.shown = Append(@, c)]}
    BY <1>1, <2>2, <2>3 DEF Term!writeCharToTerminal, InTurn, TermTypes
  <2> QED
    BY <2>1, <2>2, <2>4 DEF Term!Device
<1> QED
  BY <1>1, <1>2, SameInput

\* What is typed is read in the order it was typed, nothing twice, and only what
\* found no slot is missing, for any sizes of TermRead's buffers: the daemon's
\* buffer is begun anew after each line (bufferIndex in termMain2), and a line
\* that TermRead cannot take stays first.
THEOREM InputStaysInOrder == Spec => []InputInOrder
<1> DEFINE AllHeld == \A u \in Units : Held(u)
<1>1. Init => AllHeld
  <2> SUFFICES ASSUME Init, NEW u \in Units PROVE Held(u)
    OBVIOUS
  <2>1. PICK e \in Seq(Nat) : e = <<>> /\ Len(e) = 0
    BY EmptySeq
  <2>2. PICK q \in Seq(Seq(Nat)) : q = <<>> /\ Len(q) = 0
    BY EmptySeq
  <2>3. /\ terminal[u].read = e /\ lines[u] = q /\ buffer[u] = e
        /\ terminal[u].typed = 0 /\ terminal[u].dropped = {}
    BY <2>1, <2>2 DEF Init, Term!Init
  <2>4. PICK a : a = All(e, q, e)
    OBVIOUS
  <2>5. MadeOf(a, e, q, e, 0)
    BY <2>2, <2>4, AllPieces
  <2>6. Len(a) = 2 /\ a[1] = e /\ a[2] = e
    BY <2>5 DEF MadeOf
  <2>7. \A i \in 1 .. 2 : Len(a[i]) = 0
    BY <2>1, <2>6
  <2>8. Sorted(a, {})
    <3>1. 1 .. 0 = {}
      OBVIOUS
    <3> QED
      BY <2>6, <2>7, <3>1 DEF Sorted
  <2>9. (1 .. 0) \ {} = {}
    OBVIOUS
  <2> QED
    BY <2>3, <2>4, <2>8, <2>9 DEF Held
<1>2. ASSUME InTurn, AllHeld, [Next]_vars
      PROVE  AllHeld'
  <2>1. CASE UNCHANGED termVars
    BY <1>2, <2>1, SameInput DEF termVars
  <2>2. ASSUME NEW p \in Procs, NEW u \in Units, NEW m \in Lengths, Term!ourTermWrite(p, u, m)
        PROVE  AllHeld'
    BY <1>2, <2>2, SameInput DEF Term!ourTermWrite
  <2>3. ASSUME NEW p \in Procs, Term!Transmit(p) \/ Term!ResumeTransmit(p)
        PROVE  AllHeld'
    BY <1>2, <2>3, WritingHolds
  <2>4. ASSUME NEW p \in Procs, Term!AwaitTransmit(p) \/ Term!WriteReturns(p)
        PROVE  AllHeld'
    <3>1. UNCHANGED <<lines, buffer, terminal>>
      BY <2>4 DEF Term!AwaitTransmit, Term!WriteReturns
    <3> QED
      BY <1>2, <3>1, SameInput
  <2>5. ASSUME NEW p \in Procs, NEW u \in Units, NEW size \in Sizes,
               Term!ourTermRead(p, u, size)
        PROVE  AllHeld'
    BY <1>2, <2>5, ReadHolds DEF InTurn
  <2>6. ASSUME NEW u \in Units, NEW sent \in BOOLEAN, NEW key \in Keys,
               Term!Interrupt(u, sent, key)
        PROVE  AllHeld'
    BY <1>2, <2>6, TurnHolds DEF InTurn
  <2> QED
    BY <1>2, <2>1, <2>2, <2>3, <2>4, <2>5, <2>6 DEF Next, vars, Keys, Term!Next
<1>3. InTurn /\ AllHeld => InputInOrder
  <2> SUFFICES ASSUME InTurn, NEW u \in Units, Held(u)
               PROVE  Term!InOrder(<<terminal[u].read>> \o lines[u] \o <<buffer[u]>>,
                                   (1 .. terminal[u].typed) \ terminal[u].dropped)
    BY DEF InputInOrder, Term!InputInOrder
  <2>1. PICK a : a = All(terminal[u].read, lines[u], buffer[u])
    OBVIOUS
  <2>2. MadeOf(a, terminal[u].read, lines[u], buffer[u], Len(lines[u]))
    BY <2>1, InputTypes, AllPieces DEF InTurn
  <2>3. a \in Seq(Seq(Nat)) /\ Sorted(a, (1 .. terminal[u].typed) \ terminal[u].dropped)
    BY <2>1, <2>2 DEF MadeOf, Held
  <2> QED
    BY <2>1, <2>3, SortedIsInOrder DEF All
<1> HIDE DEF AllHeld
<1> QED
  BY <1>1, <1>2, <1>3, InTurnInvariance, PTL DEF Spec

=============================================================================
