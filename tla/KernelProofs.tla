----------------------------- MODULE KernelProofs -----------------------------
(***************************************************************************)
(* Proofs about the process kernel, for every table size and every choice  *)
(* of user programs, with and without time slices.                         *)
(***************************************************************************)
EXTENDS KernelProperties, TLAPS

-----------------------------------------------------------------------------
(***************************************************************************)
(* The functions on the memory: what they return is a memory, and they     *)
(* rewrite links only.                                                     *)
(***************************************************************************)

\* q is p with another state, or other places in the queues and zap lists.
Kin(p, q) ==
    /\ q.isInitialized = p.isInitialized /\ q.PID = p.PID
    /\ q.priority = p.priority /\ q.startFunc = p.startFunc
    /\ q.parent = p.parent /\ q.firstChild = p.firstChild
    /\ q.nextSibling = p.nextSibling /\ q.prevSibling = p.prevSibling

\* n is a memory in which no slot has changed hands since m, and no process its
\* state.
OnlyLinks(m, n) ==
    /\ n \in Memory
    /\ \A x \in Slots :
        /\ Kin(m.table[x], n.table[x])
        /\ n.table[x].state = m.table[x].state

\* PIDs map into the table.
LEMMA SlotOfPid == \A pid \in Int : getProcess(pid) \in Slots
  BY MaxprocAssumption DEF getProcess, Slots

\* A blank slot is a struct Process.
LEMMA BlankType == Blank \in Process
  BY DEF Blank, Process, Link, NULL, Priorities, States, StartFuncs

\* Writes of links compose.
LEMMA OnlyLinksTransitive ==
    ASSUME NEW m, NEW n, NEW k, OnlyLinks(m, n), OnlyLinks(n, k)
    PROVE  OnlyLinks(m, k)
  BY DEF OnlyLinks, Kin

\* One assignment to a field that links the queues.
LEMMA LinkAssigned ==
    ASSUME NEW p \in Process, NEW v \in Link
    PROVE  /\ [p EXCEPT !.nextQueueNode = v] \in Process
           /\ [p EXCEPT !.prevQueueNode = v] \in Process
  BY DEF Process

\* A link written into the table leaves it a table.
LEMMA TableAssigned ==
    ASSUME NEW t \in [Slots -> Process], NEW x \in Slots, NEW v \in Link
    PROVE  /\ [t EXCEPT ![x].nextQueueNode = v] \in [Slots -> Process]
           /\ [t EXCEPT ![x].prevQueueNode = v] \in [Slots -> Process]
  BY LinkAssigned

\* One write of a link, in the memory that a queue operation works on.
LEMMA MemoryAssigned ==
    ASSUME NEW m \in Memory, NEW x \in Slots, NEW v \in Link
    PROVE  /\ OnlyLinks(m, [m EXCEPT !.table[x].nextQueueNode = v])
           /\ OnlyLinks(m, [m EXCEPT !.table[x].prevQueueNode = v])
<1>1. /\ [m EXCEPT !.table[x].nextQueueNode = v] \in Memory
      /\ [m EXCEPT !.table[x].prevQueueNode = v] \in Memory
  BY TableAssigned DEF Memory
<1>2. ASSUME NEW y \in Slots, NEW p \in Process,
             \/ p = [m EXCEPT !.table[x].nextQueueNode = v].table[y]
             \/ p = [m EXCEPT !.table[x].prevQueueNode = v].table[y]
      PROVE  Kin(m.table[y], p) /\ p.state = m.table[y].state
  BY <1>2 DEF Memory, Process, Kin
<1> QED
  BY <1>1, <1>2 DEF Memory, OnlyLinks

\* A queue gets another head.
LEMMA HeadAssigned ==
    ASSUME NEW m \in Memory, NEW i \in Priorities, NEW v \in Link
    PROVE  OnlyLinks(m, [m EXCEPT !.queues[i] = v])
  BY DEF Memory, OnlyLinks, Kin

\* A fault that is recorded writes nothing else.
LEMMA FaultKeeps ==
    ASSUME NEW m \in Memory, NEW kind \in {"none", "hung", "crashed"}
    PROVE  OnlyLinks(m, Fault(m, kind)) /\ OnlyLinks(m, m)
  BY DEF Memory, OnlyLinks, Fault, Kin

\* Appending a process to its run queue.
LEMMA AddToQueueKeeps ==
    ASSUME NEW m \in Memory, NEW n \in Slots
    PROVE  OnlyLinks(m, addToQueue(m, n))
<1> DEFINE pr   == m.table[n].priority
           stop == Walk(QueueLinks(m), m.queues[pr], Tails(m) \cup {n})
<1>1. pr \in Priorities /\ n \in Link /\ NULL \in Link
  BY DEF Memory, Process, Link
<1>2. CASE m.queues[pr] = NULL
  <2>1. addToQueue(m, n) = [m EXCEPT !.queues[pr] = n]
    BY <1>2 DEF addToQueue
  <2> QED
    BY <2>1, <1>1, HeadAssigned
<1>3. CASE m.queues[pr] # NULL /\ stop \in Tails(m)
  <2>1. addToQueue(m, n) = [m EXCEPT !.table[stop].nextQueueNode = n,
                                     !.table[n].prevQueueNode = stop,
                                     !.table[n].nextQueueNode = NULL]
    BY <1>3 DEF addToQueue
  <2>2. stop \in Slots /\ stop \in Link
    BY <1>3 DEF Tails, Link
  <2> HIDE DEF stop
  <2> DEFINE m1 == [m EXCEPT !.table[stop].nextQueueNode = n]
             m2 == [m1 EXCEPT !.table[n].prevQueueNode = stop]
  <2>3. OnlyLinks(m, m1)
    BY <2>2, <1>1, MemoryAssigned
  <2>6. addToQueue(m, n) = [m2 EXCEPT !.table[n].nextQueueNode = NULL]
    BY <2>1
  <2> HIDE DEF m1
  <2>4. OnlyLinks(m1, m2)
    BY <2>2, <2>3, MemoryAssigned DEF OnlyLinks
  <2> HIDE DEF m2
  <2>5. OnlyLinks(m2, [m2 EXCEPT !.table[n].nextQueueNode = NULL])
    BY <1>1, <2>4, MemoryAssigned DEF OnlyLinks
  <2> QED
    BY <2>3, <2>4, <2>5, <2>6, OnlyLinksTransitive
<1>4. CASE m.queues[pr] # NULL /\ stop \notin Tails(m)
  <2>1. addToQueue(m, n) = m \/ addToQueue(m, n) = Fault(m, "hung")
    BY <1>4 DEF addToQueue
  <2> QED
    BY <2>1, FaultKeeps
<1> QED
  BY <1>2, <1>3, <1>4

\* timeSlice's rotation of a queue.
LEMMA RotateKeeps ==
    ASSUME NEW m \in Memory, NEW p \in Slots
    PROVE  OnlyLinks(m, rotate(m, p))
<1> DEFINE pr   == m.table[p].priority
           head == m.queues[pr]
           tail == Walk(QueueLinks(m), head, Tails(m))
           ring == [m EXCEPT !.table[tail].nextQueueNode = head]
           moved == [ring EXCEPT !.queues[pr] = ring.table[head].nextQueueNode]
<1>1. pr \in Priorities /\ head \in Link /\ NULL \in Link
  BY DEF Memory, Process, Link
<1>2. CASE head = NULL \/ tail \notin Tails(m)
  <2>1. \E kind \in {"hung", "crashed"} : rotate(m, p) = Fault(m, kind)
    BY <1>2 DEF rotate
  <2> QED
    BY <2>1, FaultKeeps
<1>3. CASE head # NULL /\ tail \in Tails(m)
  <2>1. rotate(m, p) = [moved EXCEPT !.table[head].nextQueueNode = NULL]
    BY <1>3 DEF rotate
  <2>2. tail \in Slots /\ head \in Slots
    BY <1>3, <1>1 DEF Tails, Link
  <2> HIDE DEF tail, head
  <2>3. OnlyLinks(m, ring)
    BY <1>1, <2>2, MemoryAssigned
  <2> HIDE DEF ring, pr
  <2>4. ring.table[head].nextQueueNode \in Link
    BY <2>2, <2>3 DEF OnlyLinks, Memory, Process
  <2>5. OnlyLinks(ring, moved)
    BY <1>1, <2>3, <2>4, HeadAssigned DEF OnlyLinks
  <2> HIDE DEF moved
  <2>6. OnlyLinks(moved, [moved EXCEPT !.table[head].nextQueueNode = NULL])
    <3>1. moved \in Memory /\ head \in Slots /\ NULL \in Link
      BY <1>1, <2>2, <2>5 DEF OnlyLinks
    <3> QED
      BY <3>1, MemoryAssigned
  <2> QED
    BY <2>1, <2>3, <2>5, <2>6, OnlyLinksTransitive
<1> QED
  BY <1>2, <1>3

\* Unlinking a process from its run queue.
LEMMA RemoveNodeKeeps ==
    ASSUME NEW m \in Memory, NEW n \in Slots
    PROVE  OnlyLinks(m, removeNode(m, n))
<1> DEFINE p == m.table[n]
           unlinked(x) ==
            [m.table[x] EXCEPT
                !.nextQueueNode = IF x = p.prevQueueNode
                                  THEN p.nextQueueNode ELSE @,
                !.prevQueueNode = IF x = p.nextQueueNode
                                  THEN p.prevQueueNode ELSE @]
           t == [x \in Slots |-> unlinked(x)]
           mt == [m EXCEPT !.table = t]
<1>1. p \in Process
  BY DEF Memory
<1>2. p.nextQueueNode \in Link /\ p.prevQueueNode \in Link
      /\ p.priority \in Priorities
  BY <1>1 DEF Process
<1>3. ASSUME NEW x \in Slots
      PROVE  /\ unlinked(x) \in Process
             /\ Kin(m.table[x], unlinked(x))
             /\ unlinked(x).state = m.table[x].state
  <2>1. m.table[x] \in Process
    BY DEF Memory
  <2> HIDE DEF p
  <2> QED
    BY <2>1, <1>2 DEF Process, Kin
<1>4. OnlyLinks(m, mt)
  <2> HIDE DEF unlinked
  <2>1. t \in [Slots -> Process]
    BY <1>3
  <2> QED
    BY <2>1, <1>3 DEF Memory, OnlyLinks
<1>5. CASE m.queues[p.priority] = NULL
  BY <1>5, FaultKeeps DEF removeNode
<1>6. CASE m.queues[p.priority] # NULL
  <2> DEFINE h == IF m.queues[p.priority] = n
                  THEN p.nextQueueNode ELSE m.queues[p.priority]
  <2>1. removeNode(m, n) = [mt EXCEPT !.queues[p.priority] = h]
    BY <1>6 DEF removeNode, Memory
  <2>2. h \in Link
    BY <1>2 DEF Memory
  <2> HIDE DEF h, mt, p
  <2>3. OnlyLinks(mt, [mt EXCEPT !.queues[p.priority] = h])
    BY <2>2, <1>2, <1>4, HeadAssigned DEF OnlyLinks
  <2> QED
    BY <2>1, <2>3, <1>4, OnlyLinksTransitive
<1> QED
  BY <1>5, <1>6

-----------------------------------------------------------------------------
(***************************************************************************)
(* The inductive invariant.  OnlyCurrentRuns and PidsInPlace are inductive *)
(* once the kernel runs; the first dispatch, which has no current process, *)
(* goes to a process of the table.                                         *)
(***************************************************************************)
Boot ==
    runningProcessID = -1 =>
        \A x \in Slots : processTable[x].state = "Runnable" => x \in Used

\* Where the kernel follows arg without a look whether it is NULL, it is not;
\* no kernel call returns to the middle of another.
Follows == {"unblock_state", "unblock_add", "wake_state", "wake_add"}

SoundContext(k) ==
    /\ k \in Context
    /\ k.ret \notin Follows
    /\ k.pc \in Follows => k.arg \in Slots

SoundContexts == {c \in [Slots -> Context] : \A x \in Slots : SoundContext(c[x])}

CoreInv ==
    /\ TypeOK
    /\ ctx \in SoundContexts
    /\ Boot
    /\ OnlyCurrentRuns
    /\ PidsInPlace

\* What CoreInv says of a process table t, once the kernel runs, when next is
\* the next PID to try.
SoundTable(t, next) ==
    /\ t \in [Slots -> Process]
    /\ \A x \in Slots :
        /\ t[x].state = "Running" => x = Current
        /\ t[x].isInitialized => /\ getProcess(t[x].PID) = x
                                 /\ t[x].PID < next

SoundMemory(m, next) == m \in Memory /\ SoundTable(m.table, next)

\* The process that runs has a slot.
LEMMA CurrentType ==
    ASSUME TypeOK, runningProcessID # -1
    PROVE  Current \in Slots
  BY SlotOfPid DEF TypeOK, Current

\* What a kernel function starts from is sound.
LEMMA MemIsSound ==
    ASSUME CoreInv
    PROVE  SoundMemory(Mem, pidCounter)
<1>1. Mem \in Memory
  BY DEF CoreInv, TypeOK, Mem, Memory
<1>2. SoundTable(processTable, pidCounter)
  BY DEF CoreInv, TypeOK, OnlyCurrentRuns, PidsInPlace, Used, SoundTable
<1> QED
  BY <1>1, <1>2 DEF Mem, SoundMemory

\* Links may be written anywhere.
LEMMA LinksStaySound ==
    ASSUME NEW m, NEW n, NEW next, SoundMemory(m, next), OnlyLinks(m, n)
    PROVE  SoundMemory(n, next)
<1>1. n \in Memory
  BY DEF OnlyLinks
<1>2. n.table \in [Slots -> Process]
  BY <1>1 DEF Memory
<1> QED
  BY <1>1, <1>2 DEF SoundMemory, SoundTable, OnlyLinks, Kin

\* A state that is not Running may be written anywhere.
LEMMA StateStaysSound ==
    ASSUME NEW m, NEW next, SoundMemory(m, next), NEW x \in Slots,
           NEW s \in States \ {"Running"}
    PROVE  SoundMemory(SetState(m, x, s), next)
<1>1. m \in Memory /\ m.table \in [Slots -> Process]
  BY DEF SoundMemory, SoundTable
<1> DEFINE t == [m.table EXCEPT ![x].state = s]
<1>2. t \in [Slots -> Process]
  BY <1>1 DEF Process
<1>3. SetState(m, x, s) = [m EXCEPT !.table = t]
  BY <1>1 DEF SetState, Memory
<1>4. \A y \in Slots : /\ t[y].isInitialized = m.table[y].isInitialized
                       /\ t[y].PID = m.table[y].PID
                       /\ t[y].state = m.table[y].state \/ t[y].state = s
  BY <1>1 DEF Process
<1> HIDE DEF t
<1>5. SoundTable(t, next)
  BY <1>2, <1>4 DEF SoundMemory, SoundTable
<1>6. SetState(m, x, s) \in Memory /\ SetState(m, x, s).table = t
  BY <1>1, <1>2, <1>3 DEF Memory
<1> QED
  BY <1>5, <1>6 DEF SoundMemory

\* A step without a context switch keeps the invariant when it leaves a sound
\* table behind.
LEMMA TableStep ==
    ASSUME CoreInv, runningProcessID # -1,
           UNCHANGED runningProcessID,
           pidCounter' \in Nat,
           SoundTable(processTable', pidCounter'),
           runQueues' \in [Priorities -> Link],
           intOn' \in BOOLEAN,
           ctx' \in SoundContexts,
           machine' \in {"on", "halted", "deadlock", "crashed", "hung"}
    PROVE  CoreInv'
<1>1. TypeOK'
  BY DEF CoreInv, TypeOK, SoundTable, SoundContexts
<1>2. OnlyCurrentRuns'
  BY DEF SoundTable, OnlyCurrentRuns, Current
<1>3. PidsInPlace'
  <2> SUFFICES ASSUME NEW x \in Slots, processTable'[x].isInitialized
               PROVE  /\ getProcess(processTable'[x].PID) = x
                      /\ processTable'[x].PID < pidCounter'
    BY DEF PidsInPlace, Used, getProcess
  <2>1. processTable'[x].PID \in Nat
    BY DEF SoundTable, Process
  <2> QED
    BY <2>1 DEF SoundTable, CoreInv, TypeOK
<1> QED
  BY <1>1, <1>2, <1>3 DEF CoreInv, Boot

\* A kernel function that ends with a sound memory, in the same process.
LEMMA StoreStep ==
    ASSUME CoreInv, runningProcessID # -1, NEW m, Store(m),
           pidCounter' \in Nat, SoundMemory(m, pidCounter'),
           UNCHANGED runningProcessID,
           intOn' \in BOOLEAN, ctx' \in SoundContexts
    PROVE  CoreInv'
<1>1. SoundTable(processTable', pidCounter') /\ runQueues' \in [Priorities -> Link]
  BY DEF SoundMemory, Memory, Store
<1>2. machine' \in {"on", "halted", "deadlock", "crashed", "hung"}
  BY DEF SoundMemory, Memory, Store
<1> QED
  BY <1>1, <1>2, TableStep

\* A step that moves the current process inside the kernel and changes nothing
\* else that is shared.
LEMMA QuietStep ==
    ASSUME CoreInv, runningProcessID # -1,
           UNCHANGED <<processTable, runQueues, runningProcessID, pidCounter>>,
           intOn' \in BOOLEAN, ctx' \in SoundContexts,
           machine' \in {"on", "halted", "deadlock", "crashed", "hung"}
    PROVE  CoreInv'
<1>1. SoundTable(processTable', pidCounter')
  BY MemIsSound DEF SoundMemory, Mem
<1> QED
  BY <1>1, TableStep DEF CoreInv, TypeOK

-----------------------------------------------------------------------------
(***************************************************************************)
(* Contexts: one lemma for each shape of assignment.                       *)
(***************************************************************************)
\* A context, once replaced by a sound one, leaves all sound.
LEMMA ContextReplaced ==
    ASSUME NEW c \in SoundContexts, NEW x \in Slots, NEW k, SoundContext(k)
    PROVE  [c EXCEPT ![x] = k] \in SoundContexts
  BY DEF SoundContexts, SoundContext

\* The current process moves to pc within the same kernel call ...
LEMMA GotoKeeps ==
    ASSUME NEW c \in SoundContexts, NEW x \in Slots, NEW pc \in PCs,
           pc \in Follows => c[x].arg \in Slots
    PROVE  [c EXCEPT ![x].pc = pc] \in SoundContexts
<1>1. SoundContext([c[x] EXCEPT !.pc = pc])
  BY DEF SoundContexts, SoundContext, Context
<1>2. [c EXCEPT ![x].pc = pc] = [c EXCEPT ![x] = [c[x] EXCEPT !.pc = pc]]
  OBVIOUS
<1> QED
  BY <1>1, <1>2, ContextReplaced

\* ... enters another ...
LEMMA CallKeeps ==
    ASSUME NEW c \in SoundContexts, NEW x \in Slots,
           NEW pc \in PCs, NEW arg \in Link, NEW ret \in PCs \ Follows,
           pc \in Follows => arg \in Slots
    PROVE  [c EXCEPT ![x].pc = pc, ![x].arg = arg, ![x].ret = ret]
                \in SoundContexts
<1> DEFINE k == [c[x] EXCEPT !.pc = pc, !.arg = arg, !.ret = ret]
<1>1. SoundContext(k)
  <2>1. c[x] \in Context
    BY DEF SoundContexts
  <2>2. k \in Context /\ k.pc = pc /\ k.arg = arg /\ k.ret = ret
    BY <2>1 DEF Context
  <2> HIDE DEF k
  <2> QED
    BY <2>2 DEF SoundContext
<1>2. [c EXCEPT ![x].pc = pc, ![x].arg = arg, ![x].ret = ret]
        = [c EXCEPT ![x] = k]
  BY DEF SoundContexts
<1> HIDE DEF k
<1> QED
  BY <1>1, <1>2, ContextReplaced

\* ... calls createProcess ...
LEMMA CreateKeeps ==
    ASSUME NEW c \in SoundContexts, NEW x \in Slots,
           NEW pc \in PCs \ Follows, NEW ret \in PCs \ Follows
    PROVE  [c EXCEPT ![x].pc = pc, ![x].ret = ret] \in SoundContexts
<1> DEFINE k == [c[x] EXCEPT !.pc = pc, !.ret = ret]
<1>1. SoundContext(k)
  <2>1. c[x] \in Context
    BY DEF SoundContexts
  <2>2. k \in Context /\ k.pc = pc /\ k.ret = ret
    BY <2>1 DEF Context
  <2> HIDE DEF k
  <2> QED
    BY <2>2 DEF SoundContext
<1>2. [c EXCEPT ![x].pc = pc, ![x].ret = ret] = [c EXCEPT ![x] = k]
  BY DEF SoundContexts
<1> HIDE DEF k
<1> QED
  BY <1>1, <1>2, ContextReplaced

\* ... or blocks, as a call of its own or in zap.
LEMMA BlockKeeps ==
    ASSUME NEW c \in SoundContexts, NEW x \in Slots,
           NEW block \in BlockStates, NEW ret \in PCs \ Follows,
           NEW int \in BOOLEAN
    PROVE  /\ [c EXCEPT ![x].pc = "block_state", ![x].block = block,
                        ![x].ret = ret] \in SoundContexts
           /\ [c EXCEPT ![x].pc = "block_state", ![x].block = block,
                        ![x].ret = ret, ![x].int = int] \in SoundContexts
<1> DEFINE k == [c[x] EXCEPT !.pc = "block_state", !.block = block, !.ret = ret]
           l == [c[x] EXCEPT !.pc = "block_state", !.block = block, !.ret = ret,
                             !.int = int]
<1>1. SoundContext(k) /\ SoundContext(l)
  <2>1. c[x] \in Context
    BY DEF SoundContexts
  <2>2. "block_state" \in PCs \ Follows
    BY DEF PCs, Follows
  <2>3. k \in Context /\ k.pc = "block_state" /\ k.ret = ret
    BY <2>1, <2>2 DEF Context
  <2>4. l \in Context /\ l.pc = "block_state" /\ l.ret = ret
    BY <2>1, <2>2 DEF Context
  <2> HIDE DEF k, l
  <2> QED
    BY <2>2, <2>3, <2>4 DEF SoundContext
<1>2. /\ [c EXCEPT ![x].pc = "block_state", ![x].block = block, ![x].ret = ret]
            = [c EXCEPT ![x] = k]
      /\ [c EXCEPT ![x].pc = "block_state", ![x].block = block, ![x].ret = ret,
                   ![x].int = int]
            = [c EXCEPT ![x] = l]
  BY DEF SoundContexts
<1> HIDE DEF k, l
<1> QED
  BY <1>1, <1>2, ContextReplaced

\* The interrupt bit a process will be resumed with.
LEMMA IntKeeps ==
    ASSUME NEW c \in SoundContexts, NEW x \in Slots, NEW int \in BOOLEAN
    PROVE  [c EXCEPT ![x].int = int] \in SoundContexts
<1>1. SoundContext([c[x] EXCEPT !.int = int])
  BY DEF SoundContexts, SoundContext, Context
<1>2. [c EXCEPT ![x].int = int] = [c EXCEPT ![x] = [c[x] EXCEPT !.int = int]]
  OBVIOUS
<1> QED
  BY <1>1, <1>2, ContextReplaced

\* The context that createProcess gives to a new process.
LEMMA StartKeeps ==
    ASSUME NEW c \in SoundContexts, NEW x \in Slots, NEW f \in StartFuncs
    PROVE  [c EXCEPT ![x] = Start(EntryPoint(f))] \in SoundContexts
<1>1. EntryPoint(f) \in PCs \ Follows
  BY DEF EntryPoint, PCs, Follows
<1>2. 0 \in Slots /\ NULL \in Link /\ "" \in BlockStates
  BY MaxprocAssumption DEF Slots, Link, BlockStates
<1>3. SoundContext(Start(EntryPoint(f)))
  BY <1>1, <1>2 DEF Start, Context, SoundContext
<1> QED
  BY <1>3, ContextReplaced

\* What the current process reads in its own context.
LEMMA OwnContext ==
    ASSUME CoreInv, runningProcessID # -1
    PROVE  /\ ctx \in SoundContexts
           /\ Current \in Slots
           /\ ctx[Current] \in Context
           /\ SoundContext(ctx[Current])
  BY CurrentType DEF CoreInv, SoundContexts

-----------------------------------------------------------------------------
(***************************************************************************)
(* The dispatcher.                                                         *)
(***************************************************************************)

\* A context switch from the current process to pid, which owns its slot.
LEMMA SwitchKeeps ==
    ASSUME CoreInv, runningProcessID # -1,
           NEW m, SoundMemory(m, pidCounter), NEW c \in SoundContexts,
           NEW pid \in Nat, NEW old \in States \ {"Running"},
           NEW int \in BOOLEAN,
           SwitchTo(m, c, pid, old, int), UNCHANGED pidCounter
    PROVE  CoreInv'
<1> DEFINE x == getProcess(pid)
           t == [m.table EXCEPT ![Current].state = old,
                                ![x].state = "Running"]
<1>1. x \in Slots /\ Current \in Slots
  BY SlotOfPid, CurrentType DEF CoreInv
<1>2. /\ processTable' = t
      /\ runQueues' = m.queues
      /\ runningProcessID' = pid
      /\ ctx' = [c EXCEPT ![x].int = FALSE]
      /\ intOn' = int
      /\ machine' = machine
  BY DEF SwitchTo
<1>3. m.table \in [Slots -> Process] /\ runQueues' \in [Priorities -> Link]
  BY <1>2 DEF SoundMemory, Memory
<1> HIDE DEF x
<1>4. t \in [Slots -> Process]
  <2>1. "Running" \in States /\ old \in States
    BY DEF States
  <2>2. \A s \in States, p \in Process : [p EXCEPT !.state = s] \in Process
    BY DEF Process
  <2> QED
    BY <1>1, <1>3, <2>1, <2>2
<1>5. \A y \in Slots :
        /\ t[y].isInitialized = m.table[y].isInitialized
        /\ t[y].PID = m.table[y].PID
        /\ t[y].state = "Running" => \/ y = x
                                     \/ /\ m.table[y].state = "Running"
                                        /\ y # Current
  BY <1>1, <1>3 DEF Process
<1> HIDE DEF t
<1>6. ctx' \in SoundContexts
  BY <1>1, <1>2, IntKeeps
<1>7. TypeOK'
  BY <1>2, <1>3, <1>4, <1>6 DEF CoreInv, TypeOK, SoundContexts
<1>8. Current' = x /\ runningProcessID' # -1
  BY <1>2 DEF Current, x, getProcess
<1>9. OnlyCurrentRuns'
  BY <1>2, <1>5, <1>8 DEF OnlyCurrentRuns, SoundMemory, SoundTable
<1>10. PidsInPlace'
  BY <1>2, <1>5 DEF PidsInPlace, Used, SoundMemory, SoundTable, getProcess
<1> QED
  BY <1>6, <1>7, <1>8, <1>9, <1>10 DEF CoreInv, Boot

\* The dispatcher, wherever it is called from: it switches, or returns.
LEMMA DispatcherKeeps ==
    ASSUME CoreInv, runningProcessID # -1,
           NEW m, SoundMemory(m, pidCounter), NEW c \in SoundContexts,
           dispatcher(m, c)
    PROVE  CoreInv'
<1> DEFINE x == NextToRun(m)
<1>1. Current \in Slots /\ pidCounter' = pidCounter
  BY CurrentType DEF CoreInv, dispatcher
<1>2. m.table \in [Slots -> Process]
  BY DEF SoundMemory, Memory
<1>3. CASE x = NULL
  <2>1. /\ Store(m)
        /\ ctx' = [c EXCEPT ![Current].int = FALSE]
        /\ intOn' = (intOn \/ c[Current].int)
        /\ UNCHANGED runningProcessID
    BY <1>3 DEF dispatcher
  <2>2. intOn \in BOOLEAN /\ c[Current].int \in BOOLEAN
    BY <1>1 DEF CoreInv, TypeOK, SoundContexts, Context
  <2>3. intOn' \in BOOLEAN
    BY <2>1, <2>2
  <2>5. ctx' \in SoundContexts
    BY <2>1, <1>1, IntKeeps
  <2> QED
    BY <1>1, <2>1, <2>3, <2>5, StoreStep DEF CoreInv, TypeOK
<1>4. CASE /\ x # NULL /\ x \in Decisive(m) /\ m.table[x].state = "Runnable"
           /\ HasContext(m, m.table[x].PID)
  <2> DEFINE pid == m.table[x].PID
  <2>1. runProcess(m, c, pid)
    BY <1>4 DEF dispatcher
  <2>2. x \in Slots
    BY <1>4 DEF Decisive
  <2> HIDE DEF x
  <2>3. pid \in Nat
    BY <1>2, <2>2 DEF Process
  <2> HIDE DEF pid
  <2>4. getProcess(pid) \in Slots
    BY <2>3, SlotOfPid
  <2>5. OldState(m) \in States \ {"Running"}
    BY <1>1, <1>2 DEF OldState, Process, States
  <2>6. ResumeInt(c, pid) \in BOOLEAN
    BY <2>4 DEF ResumeInt, SoundContexts, Context
  <2>7. SwitchTo(m, c, pid, OldState(m), ResumeInt(c, pid))
    BY <2>1 DEF runProcess
  <2> QED
    BY <1>1, <2>3, <2>5, <2>6, <2>7, SwitchKeeps
<1>5. CASE /\ x # NULL
           /\ ~(/\ x \in Decisive(m) /\ m.table[x].state = "Runnable"
                /\ HasContext(m, m.table[x].PID))
  <2>1. /\ machine' \in {"crashed", "hung"}
        /\ UNCHANGED <<processTable, runQueues, runningProcessID, intOn, ctx>>
    BY <1>5 DEF dispatcher
  <2> QED
    BY <2>1, <1>1, QuietStep DEF CoreInv, TypeOK
<1> QED
  BY <1>3, <1>4, <1>5

-----------------------------------------------------------------------------
(***************************************************************************)
(* The actions, one after the other.                                       *)
(***************************************************************************)
LEMMA EndKeeps ==
    ASSUME CoreInv, runningProcessID # -1,
           NEW kind \in {"halted", "deadlock", "crashed", "hung"}, End(kind)
    PROVE  CoreInv'
  BY QuietStep DEF End, CoreInv, TypeOK

\* A step from one pc to another that leaves the shared state alone.
LEMMA MoveKeeps ==
    ASSUME CoreInv, runningProcessID # -1, ctx' \in SoundContexts,
           UNCHANGED <<processTable, runQueues, runningProcessID, pidCounter,
                       intOn, machine>>
    PROVE  CoreInv'
  BY QuietStep DEF CoreInv, TypeOK

\* A step that stores a sound memory and moves on to pc.
LEMMA StoreAndGoto ==
    ASSUME CoreInv, runningProcessID # -1,
           NEW m, SoundMemory(m, pidCounter), Store(m),
           NEW pc \in PCs, pc \in Follows => ctx[Current].arg \in Slots,
           Goto(pc), UNCHANGED <<runningProcessID, pidCounter, intOn>>
    PROVE  CoreInv'
<1>1. ctx' \in SoundContexts
  BY OwnContext, GotoKeeps DEF Goto
<1> QED
  BY <1>1, StoreStep DEF CoreInv, TypeOK

\* The current process goes on to pc.
LEMMA GotoStep ==
    ASSUME CoreInv, runningProcessID # -1, NEW pc \in PCs \ Follows, Goto(pc)
    PROVE  ctx' \in SoundContexts
  BY OwnContext, GotoKeeps DEF Goto

\* A step that rewrites the table in a sound way and moves on.
LEMMA TableKeeps ==
    ASSUME CoreInv, runningProcessID # -1, ctx' \in SoundContexts,
           SoundTable(processTable', pidCounter),
           UNCHANGED <<runQueues, runningProcessID, pidCounter, intOn, machine>>
    PROVE  CoreInv'
<1>1. /\ pidCounter' \in Nat
      /\ runQueues' \in [Priorities -> Link]
      /\ intOn' \in BOOLEAN
      /\ machine' \in {"on", "halted", "deadlock", "crashed", "hung"}
  BY DEF CoreInv, TypeOK
<1> QED
  BY <1>1, TableStep

\* createProcess: the new process gets a slot that no process holds.
LEMMA CreateStep ==
    ASSUME CoreInv, runningProcessID # -1,
           NEW pr \in Priorities, NEW f \in StartFuncs,
           NEW ok \in PCs \ Follows, NEW fail \in PCs \ Follows,
           NEW ret \in PCs \ Follows,
           createProcess(pr, f, ok, fail, ret)
    PROVE  CoreInv'
<1> DEFINE caller(pc) == [ctx EXCEPT ![Current].pc = pc, ![Current].ret = ret]
<1>1. caller(ok) \in SoundContexts /\ caller(fail) \in SoundContexts
  BY OwnContext, CreateKeeps
<1>2. pidCounter \in Nat /\ MAXPROC \in Nat
  BY MaxprocAssumption DEF CoreInv, TypeOK
<1>3. CASE tableFull(caller(fail))
  <2>1. SoundTable(processTable, pidCounter)
    BY MemIsSound DEF SoundMemory, Mem
  <2>2. /\ pidCounter' = pidCounter + MAXPROC
        /\ intOn' = FALSE
        /\ ctx' = caller(fail)
        /\ UNCHANGED <<processTable, runQueues, runningProcessID, machine>>
    BY <1>3 DEF tableFull
  <2> HIDE DEF caller
  <2>3. SoundTable(processTable', pidCounter')
    BY <1>2, <2>1, <2>2 DEF SoundTable, Process
  <2> QED
    <3>1. /\ runQueues' \in [Priorities -> Link]
          /\ machine' \in {"on", "halted", "deadlock", "crashed", "hung"}
      BY <2>2 DEF CoreInv, TypeOK
    <3>2. intOn' \in BOOLEAN
      BY <2>2
    <3>3. pidCounter' \in Nat
      BY <1>2, <2>2
    <3> QED
      BY <1>1, <2>2, <2>3, <3>1, <3>2, <3>3, TableStep
<1>4. ASSUME NEW k \in 0 .. MAXPROC - 1, FirstFree(k),
             newProcess(pidCounter + k, pr, f, caller(ok))
      PROVE  CoreInv'
  <2> DEFINE pid  == pidCounter + k
             slot == getProcess(pid)
             p == [Blank EXCEPT !.isInitialized = TRUE, !.PID = pid,
                                !.priority = pr, !.state = "Runnable",
                                !.startFunc = f]
             made == [Mem EXCEPT !.table[slot] = p]
  <2>1. pid \in Nat /\ slot \in Slots
    BY <1>2, SlotOfPid
  <2>2. /\ Store(addToQueue(made, slot))
        /\ pidCounter' = pid + 1
        /\ ctx' = [caller(ok) EXCEPT ![slot] = Start(EntryPoint(f))]
        /\ UNCHANGED <<runningProcessID, intOn>>
    BY <1>4 DEF newProcess
  <2> HIDE DEF caller, pid
  <2>3. slot = getProcess(pid)
    OBVIOUS
  <2> HIDE DEF slot
  <2>4. /\ p \in Process
        /\ p.PID = pid
        /\ p.state = "Runnable"
    BY <2>1, BlankType DEF Process, States
  <2> HIDE DEF p
  <2>5. /\ made \in Memory
        /\ made.table = [processTable EXCEPT ![slot] = p]
    BY <2>1, <2>4 DEF Mem, Memory, CoreInv, TypeOK
  <2>6. SoundTable(made.table, pid + 1)
    <3>1. SoundTable(processTable, pidCounter)
      BY MemIsSound DEF SoundMemory, Mem
    <3>2. pidCounter <= pid
      BY <1>2 DEF pid
    <3>3. /\ made.table[slot] = p
          /\ \A y \in Slots \ {slot} : made.table[y] = processTable[y]
          /\ made.table \in [Slots -> Process]
      BY <2>1, <2>5 DEF CoreInv, TypeOK, Memory
    <3>4. \A y \in Slots : processTable[y].PID \in Nat
      BY DEF CoreInv, TypeOK, Process
    <3> HIDE DEF made
    <3> QED
      BY <1>2, <2>1, <2>3, <2>4, <3>1, <3>2, <3>3, <3>4 DEF SoundTable
  <2> HIDE DEF made
  <2>7. SoundMemory(addToQueue(made, slot), pidCounter')
    BY <2>1, <2>2, <2>5, <2>6, AddToQueueKeeps, LinksStaySound DEF SoundMemory
  <2>8. ctx' \in SoundContexts
    BY <1>1, <2>1, <2>2, StartKeeps
  <2>9. pidCounter' \in Nat /\ intOn' \in BOOLEAN
    BY <2>1, <2>2 DEF CoreInv, TypeOK
  <2> QED
    BY <2>2, <2>7, <2>8, <2>9, StoreStep
<1> QED
  BY <1>3, <1>4 DEF createProcess

\* fork1's start, up to the slot and the PID of the child.
LEMMA ForkKeeps ==
    ASSUME CoreInv,
           \/ \E a \in ForkArgs : Fork1(a)
           \/ InitForksSentinel
           \/ InitForksTestcase
    PROVE  CoreInv'
<1>1. \A pc \in {"fork_pid", "user", "init_testcase", "join"} :
            pc \in PCs \ Follows
  BY DEF PCs, Follows
<1>2. \A i \in {3, 7} : i \in Priorities
  BY DEF Priorities
<1>3. {"sentinel", "testcase_main", "NULL", "user"} \subseteq StartFuncs
  BY DEF StartFuncs
<1>4. CASE \E a \in ForkArgs : Fork1(a)
  <2>1. PICK a \in ForkArgs : Fork1(a)
    BY <1>4
  <2>2. a.priority \in Priorities /\ a.startFunc \in StartFuncs
    BY <1>3, KernelAssumption
  <2> DEFINE ok == IF ValidArgs(a) THEN "fork_pid" ELSE "user"
  <2>3. ok \in PCs \ Follows
    BY <1>1
  <2>4. /\ runningProcessID # -1
        /\ createProcess(a.priority, a.startFunc, ok, "user", "user")
    BY <2>1 DEF Fork1, At
  <2> HIDE DEF ok
  <2> QED
    BY <1>1, <2>2, <2>3, <2>4, CreateStep
<1>5. CASE InitForksSentinel
  <2>1. /\ runningProcessID # -1
        /\ createProcess(7, "sentinel", "fork_pid", "init_testcase",
                         "init_testcase")
    BY <1>5 DEF InitForksSentinel, At
  <2> QED
    BY <1>1, <1>2, <1>3, <2>1, CreateStep
<1>6. CASE InitForksTestcase
  <2>1. /\ runningProcessID # -1
        /\ createProcess(3, "testcase_main", "fork_pid", "join", "join")
    BY <1>6 DEF InitForksTestcase, At
  <2> QED
    BY <1>1, <1>2, <1>3, <2>1, CreateStep
<1> QED
  BY <1>4, <1>5, <1>6

\* fork1 from createProcess's return to the links of the child.
LEMMA ForkReturnsKeeps ==
    ASSUME CoreInv, ForkPid \/ ForkParent \/ ForkLink
    PROVE  CoreInv'
<1>1. runningProcessID # -1
  BY DEF ForkPid, ForkParent, ForkLink, At
<1>2. Current \in Slots /\ Current \in Link
  BY <1>1, CurrentType DEF CoreInv, Link
<1>3. \A pc \in {"fork_parent", "fork_link", "dispatch"} : pc \in PCs \ Follows
  BY DEF PCs, Follows
<1>4. CASE ForkPid
  <2> DEFINE slot == getProcess(pidCounter - 1)
  <2>1. slot \in Link
    BY SlotOfPid DEF CoreInv, TypeOK, Link
  <2>2. ctx[Current].ret \in PCs \ Follows
    BY <1>1, OwnContext DEF SoundContext, Context
  <2>3. Call("fork_parent", slot, ctx[Current].ret)
    BY <1>4 DEF ForkPid
  <2> HIDE DEF slot
  <2>4. ctx' \in SoundContexts
    BY <1>1, <1>3, <2>1, <2>2, <2>3, OwnContext, CallKeeps DEF Call
  <2> QED
    BY <1>1, <1>4, <2>4, MoveKeeps DEF ForkPid
<1>5. CASE ForkParent
  <2> DEFINE t == [processTable EXCEPT ![ctx[Current].arg].parent = Current]
             m == [Mem EXCEPT !.table = t]
  <2>1. t \in [Slots -> Process]
    <3>1. \A p \in Process, v \in Link : [p EXCEPT !.parent = v] \in Process
      BY DEF Process
    <3> QED
      BY <1>2, <3>1 DEF CoreInv, TypeOK
  <2>2. \A x \in Slots : /\ t[x].isInitialized = processTable[x].isInitialized
                         /\ t[x].PID = processTable[x].PID
                         /\ t[x].state = processTable[x].state
    BY DEF CoreInv, TypeOK, Process
  <2>3. /\ processTable' = t
        /\ Goto("fork_link")
        /\ UNCHANGED <<runQueues, runningProcessID, pidCounter, intOn, machine>>
    BY <1>5 DEF ForkParent
  <2> HIDE DEF t
  <2>4. SoundTable(t, pidCounter)
    BY <2>1, <2>2, MemIsSound DEF SoundMemory, Mem, SoundTable
  <2>5. ctx' \in SoundContexts
    BY <1>1, <1>3, <2>3, GotoStep
  <2> QED
    BY <1>1, <2>3, <2>4, <2>5, TableKeeps
<1>6. CASE ForkLink
  <2> DEFINE child == ctx[Current].arg
             first == processTable[Current].firstChild
             Linked(x) ==
                [processTable[x] EXCEPT
                    !.firstChild = IF x = Current THEN child ELSE @,
                    !.state = IF x = Current THEN "Runnable" ELSE @,
                    !.prevSibling = IF x = first THEN child ELSE @,
                    !.nextSibling = IF x = child /\ first # NULL
                                    THEN first ELSE @]
             t == [x \in Slots |-> Linked(x)]
  <2>1. /\ child \in Link
        /\ first \in Link
        /\ "Runnable" \in States
    BY <1>1, <1>2, OwnContext DEF CoreInv, TypeOK, Process, Context, States
  <2>2. ASSUME NEW x \in Slots
        PROVE  /\ Linked(x) \in Process
               /\ Linked(x).isInitialized = processTable[x].isInitialized
               /\ Linked(x).PID = processTable[x].PID
               /\ Linked(x).state = "Running" =>
                        processTable[x].state = "Running"
    <3>1. processTable[x] \in Process
      BY DEF CoreInv, TypeOK
    <3> HIDE DEF child, first
    <3> QED
      BY <2>1, <3>1 DEF Process
  <2>3. /\ processTable' = t
        /\ Goto("dispatch")
        /\ UNCHANGED <<runQueues, runningProcessID, pidCounter, intOn, machine>>
    BY <1>6 DEF ForkLink
  <2> HIDE DEF Linked
  <2>4. SoundTable(t, pidCounter)
    BY <2>2, MemIsSound DEF SoundMemory, Mem, SoundTable
  <2> HIDE DEF t
  <2>5. ctx' \in SoundContexts
    BY <1>1, <1>3, <2>3, GotoStep
  <2> QED
    BY <1>1, <2>3, <2>4, <2>5, TableKeeps
<1> QED
  BY <1>4, <1>5, <1>6

\* A reaped child leaves a blank slot; links change elsewhere.
LEMMA ReapStaysSound ==
    ASSUME CoreInv, runningProcessID # -1, NEW child \in Slots, Reap(child)
    PROVE  SoundTable(processTable', pidCounter)
<1> DEFINE c == processTable[child]
           Unlinked(x) ==
            [processTable[x] EXCEPT
                !.nextSibling = IF x = c.prevSibling THEN c.nextSibling ELSE @,
                !.firstChild = IF x = Current /\ c.prevSibling = NULL
                               THEN c.nextSibling ELSE @,
                !.prevSibling = IF x = c.nextSibling THEN c.prevSibling ELSE @]
           t == [x \in Slots |-> IF x = child THEN Blank ELSE Unlinked(x)]
<1>1. processTable' = t
  BY DEF Reap
<1>2. c.nextSibling \in Link /\ c.prevSibling \in Link
  BY DEF CoreInv, TypeOK, Process
<1>3. ASSUME NEW x \in Slots
      PROVE  /\ Unlinked(x) \in Process
             /\ Unlinked(x).isInitialized = processTable[x].isInitialized
             /\ Unlinked(x).PID = processTable[x].PID
             /\ Unlinked(x).state = processTable[x].state
  <2>1. processTable[x] \in Process
    BY DEF CoreInv, TypeOK
  <2> HIDE DEF c
  <2> QED
    BY <1>2, <2>1 DEF Process
<1>4. Blank.isInitialized = FALSE /\ Blank.state = ""
  BY DEF Blank
<1> HIDE DEF Unlinked
<1> QED
  BY <1>1, <1>3, <1>4, BlankType, MemIsSound DEF SoundMemory, Mem, SoundTable

\* join, called by a user program or by init's loop.
LEMMA JoinKeeps ==
    ASSUME CoreInv, CallJoin \/ Join \/ InitLoop
    PROVE  CoreInv'
<1>1. runningProcessID # -1
  BY DEF CallJoin, Join, InitLoop, At
<1>2. Current \in Slots /\ NULL \in Link
  BY <1>1, CurrentType DEF CoreInv, Link
<1>3. \A pc \in {"join", "user", "dead", "init_loop", "dispatch"} :
            pc \in PCs \ Follows
  BY DEF PCs, Follows
<1>4. JoinBlocked \in BlockStates
  BY DEF BlockStates
<1>5. CASE CallJoin
  <2>1. ctx' \in SoundContexts
    BY <1>1, <1>2, <1>3, <1>5, OwnContext, CallKeeps DEF CallJoin, Call
  <2> QED
    BY <1>1, <1>5, <2>1, MoveKeeps DEF CallJoin
<1>6. CASE InitLoop
  <2> DEFINE init == getProcess(1)
             m == SetState(Mem, init, "Runnable")
  <2>1. init \in Slots /\ "Runnable" \in States
    BY SlotOfPid DEF States
  <2> HIDE DEF init
  <2>2. SoundMemory(m, pidCounter)
    BY <2>1, MemIsSound, StateStaysSound
  <2>3. processTable' = m.table
    BY <1>6 DEF InitLoop, SetState, Mem, init
  <2>4. ctx' \in SoundContexts
    BY <1>1, <1>2, <1>3, <1>6, OwnContext, CallKeeps DEF InitLoop, Call
  <2>5. SoundTable(processTable', pidCounter)
    BY <2>2, <2>3 DEF SoundMemory
  <2> QED
    BY <1>1, <1>6, <2>4, <2>5, TableKeeps DEF InitLoop
<1>7. CASE Join
  <2> DEFINE found == FirstDeadChild
  <2>1. UNCHANGED <<runQueues, runningProcessID, pidCounter, intOn>>
    BY <1>7 DEF Join
  <2>2. \A pc \in {"user", "dead", "init_loop"} :
            Goto(pc) => ctx' \in SoundContexts
    BY <1>1, <1>3, GotoStep
  <2>3. CASE processTable[Current].firstChild = NULL
    <3>1. /\ Goto(IF AfterJoin(Current) = "init_loop" THEN "dead" ELSE "user")
          /\ UNCHANGED <<processTable, machine>>
      BY <1>7, <2>3 DEF Join
    <3>2. ctx' \in SoundContexts
      BY <2>2, <3>1
    <3> QED
      BY <1>1, <2>1, <3>1, <3>2, MoveKeeps
  <2>4. CASE processTable[Current].firstChild # NULL /\ found = NULL
    <3>1. /\ ctx' = [ctx EXCEPT ![Current].pc = "block_state",
                                ![Current].block = JoinBlocked,
                                ![Current].ret = "join"]
          /\ UNCHANGED <<processTable, machine>>
      BY <1>7, <2>4 DEF Join
    <3>2. ctx' \in SoundContexts
      <4>1. TRUE \in BOOLEAN
        OBVIOUS
      <4> QED
        BY <1>1, <1>3, <1>4, <3>1, <4>1, OwnContext, BlockKeeps
    <3> QED
      BY <1>1, <2>1, <3>1, <3>2, MoveKeeps
  <2>5. CASE /\ processTable[Current].firstChild # NULL
             /\ found # NULL
             /\ found \in JoinStops /\ processTable[found].state = "Terminated"
    <3>1. /\ Reap(found)
          /\ Goto(AfterJoin(Current))
          /\ UNCHANGED machine
      BY <1>7, <2>5 DEF Join
    <3>2. found \in Slots
      BY <2>5 DEF JoinStops
    <3>3. SoundTable(processTable', pidCounter)
      BY <1>1, <3>1, <3>2, ReapStaysSound
    <3>4. ctx' \in SoundContexts
      BY <2>2, <3>1 DEF AfterJoin
    <3> QED
      BY <1>1, <2>1, <3>1, <3>3, <3>4, TableKeeps
  <2>6. CASE /\ processTable[Current].firstChild # NULL
             /\ found # NULL
             /\ ~(/\ found \in JoinStops
                  /\ processTable[found].state = "Terminated")
    <3>1. /\ machine' \in {"crashed", "hung"}
          /\ UNCHANGED <<processTable, ctx>>
      BY <1>7, <2>6 DEF Join
    <3>2. intOn' \in BOOLEAN /\ ctx' \in SoundContexts
      BY <2>1, <3>1 DEF CoreInv, TypeOK
    <3> QED
      BY <1>1, <2>1, <3>1, <3>2, QuietStep
  <2> QED
    BY <2>3, <2>4, <2>5, <2>6
<1> QED
  BY <1>5, <1>6, <1>7

\* blockMe and unblockProc.
LEMMA BlockStepKeeps ==
    ASSUME CoreInv,
           \/ BlockMe \/ BlockMeError \/ BlockState \/ BlockRemove
           \/ \E x \in Slots : UnblockProc(x)
           \/ UnblockState \/ UnblockAdd
    PROVE  CoreInv'
<1>1. runningProcessID # -1
  BY DEF BlockMe, BlockMeError, BlockState, BlockRemove, UnblockProc,
         UnblockState, UnblockAdd, At
<1>2. Current \in Slots /\ ctx[Current] \in Context
      /\ SoundContext(ctx[Current]) /\ SoundMemory(Mem, pidCounter)
  BY <1>1, OwnContext, MemIsSound
<1>3. "user" \in PCs \ Follows /\ "block_remove" \in PCs \ Follows
      /\ "dispatch" \in PCs \ Follows /\ "unblock_state" \in PCs
      /\ "unblock_add" \in PCs
  BY DEF PCs, Follows
<1>4. CASE BlockMe
  <2>1. ctx' = [ctx EXCEPT ![Current].pc = "block_state",
                           ![Current].block = "Blocked",
                           ![Current].ret = "user"]
    BY <1>4 DEF BlockMe
  <2>2. "Blocked" \in BlockStates /\ TRUE \in BOOLEAN
    BY DEF BlockStates
  <2>3. ctx' \in SoundContexts
    BY <1>1, <1>3, <2>1, <2>2, OwnContext, BlockKeeps
  <2> QED
    BY <1>1, <1>4, <2>3, MoveKeeps DEF BlockMe
<1>5. CASE BlockMeError
  BY <1>1, <1>5, EndKeeps DEF BlockMeError
<1>6. CASE BlockState
  <2> DEFINE s == ctx[Current].block
             m == SetState(Mem, Current, s)
  <2>1. SoundMemory(m, pidCounter)
    <3>1. s \in States \ {"Running"}
      BY <1>2 DEF Context, BlockStates, States, ZapBlocked, JoinBlocked
    <3> QED
      BY <1>2, <3>1, StateStaysSound
  <2> QED
    BY <1>1, <1>3, <1>6, <2>1, StoreAndGoto DEF BlockState
<1>7. CASE BlockRemove
  <2>1. SoundMemory(removeNode(Mem, Current), pidCounter)
    BY <1>2, RemoveNodeKeeps, LinksStaySound DEF SoundMemory
  <2> QED
    BY <1>1, <1>3, <1>7, <2>1, StoreAndGoto DEF BlockRemove
<1>8. CASE \E x \in Slots : UnblockProc(x)
  <2>1. PICK x \in Slots : UnblockProc(x)
    BY <1>8
  <2>2. x \in Link
    BY DEF Link
  <2>3. ctx' \in SoundContexts
    BY <1>1, <1>3, <2>1, <2>2, OwnContext, CallKeeps DEF UnblockProc, Call
  <2> QED
    BY <1>1, <2>1, <2>3, MoveKeeps DEF UnblockProc
<1>9. CASE UnblockState
  <2>1. ctx[Current].arg \in Slots /\ "Runnable" \in States \ {"Running"}
    BY <1>2, <1>9 DEF UnblockState, At, SoundContext, Follows, States
  <2>2. SoundMemory(SetState(Mem, ctx[Current].arg, "Runnable"), pidCounter)
    BY <1>2, <2>1, StateStaysSound
  <2> QED
    BY <1>1, <1>3, <1>9, <2>1, <2>2, StoreAndGoto DEF UnblockState
<1>10. CASE UnblockAdd
  <2>1. ctx[Current].arg \in Slots
    BY <1>2, <1>10 DEF UnblockAdd, At, SoundContext, Follows
  <2>2. SoundMemory(addToQueue(Mem, ctx[Current].arg), pidCounter)
    BY <1>2, <2>1, AddToQueueKeeps, LinksStaySound DEF SoundMemory
  <2> QED
    BY <1>1, <1>3, <1>10, <2>1, <2>2, StoreAndGoto DEF UnblockAdd
<1> QED
  BY <1>4, <1>5, <1>6, <1>7, <1>8, <1>9, <1>10

\* quit, from its checks to the wakeup of zappers and parent.
LEMMA QuitKeeps ==
    ASSUME CoreInv,
           Quit \/ QuitError \/ QuitRemove \/ QuitWake \/ WakeState \/ WakeAdd
    PROVE  CoreInv'
<1>1. runningProcessID # -1
  BY DEF Quit, QuitError, QuitRemove, QuitWake, WakeState, WakeAdd, At
<1>2. Current \in Slots /\ ctx[Current] \in Context /\ ctx \in SoundContexts
      /\ SoundContext(ctx[Current]) /\ SoundMemory(Mem, pidCounter)
  BY <1>1, OwnContext, MemIsSound
<1>3. \A pc \in {"quit_remove", "quit_wake", "dead"} : pc \in PCs \ Follows
  BY DEF PCs, Follows
<1>4. \A pc \in {"wake_state", "wake_add", "unblock_state"} : pc \in PCs
  BY DEF PCs
<1>5. \A x \in Slots : /\ processTable[x].zapHead \in Link
                       /\ processTable[x].nextZapNode \in Link
                       /\ processTable[x].PID \in Nat
                       /\ processTable[x].parent \in Link
  BY DEF CoreInv, TypeOK, Process
<1>6. CASE Quit
  <2>1. SoundMemory(SetState(Mem, Current, "Terminated"), pidCounter)
    <3>1. "Terminated" \in States \ {"Running"}
      BY DEF States
    <3> QED
      BY <1>2, <3>1, StateStaysSound
  <2> QED
    BY <1>1, <1>3, <1>6, <2>1, StoreAndGoto DEF Quit
<1>7. CASE QuitError
  BY <1>1, <1>7, EndKeeps DEF QuitError
<1>8. CASE QuitRemove
  <2>1. CASE processTable[Current].parent = NULL
    BY <1>1, <1>8, <2>1, EndKeeps DEF QuitRemove
  <2>2. CASE processTable[Current].parent # NULL
    <3> DEFINE head == processTable[Current].zapHead
               par  == getProcess(processTable[processTable[Current].parent].PID)
               k == [ctx[Current] EXCEPT !.pc = "quit_wake", !.arg = head,
                                         !.parent = par]
    <3>1. /\ Store(removeNode(Mem, Current))
          /\ ctx' = [ctx EXCEPT ![Current].pc = "quit_wake",
                                ![Current].arg = head,
                                ![Current].parent = par]
          /\ UNCHANGED <<runningProcessID, pidCounter, intOn>>
      BY <1>8, <2>2 DEF QuitRemove
    <3>2. SoundMemory(removeNode(Mem, Current), pidCounter)
      BY <1>2, RemoveNodeKeeps, LinksStaySound DEF SoundMemory
    <3>3. processTable[Current].parent \in Slots
      BY <1>2, <1>5, <2>2 DEF Link
    <3>4. par \in Slots /\ head \in Link
      BY <1>2, <1>5, <3>3, SlotOfPid
    <3> HIDE DEF par, head
    <3>5. SoundContext(k)
      <4>1. k \in Context /\ k.pc = "quit_wake" /\ k.ret = ctx[Current].ret
        BY <1>2, <1>3, <3>4 DEF Context
      <4> HIDE DEF k
      <4> QED
        BY <1>2, <1>3, <4>1 DEF SoundContext
    <3>6. ctx' = [ctx EXCEPT ![Current] = k]
      BY <1>2, <3>1 DEF SoundContexts
    <3> HIDE DEF k
    <3>7. ctx' \in SoundContexts
      BY <1>2, <3>5, <3>6, ContextReplaced
    <3>8. pidCounter' \in Nat /\ intOn' \in BOOLEAN
          /\ SoundMemory(removeNode(Mem, Current), pidCounter')
      BY <3>1, <3>2 DEF CoreInv, TypeOK
    <3> QED
      BY <1>1, <3>1, <3>7, <3>8, StoreStep
  <2> QED
    BY <2>1, <2>2
<1>9. CASE QuitWake
  <2> DEFINE z == ctx[Current].arg
  <2>1. UNCHANGED <<processTable, runQueues, runningProcessID, pidCounter, intOn>>
    BY <1>9 DEF QuitWake
  <2>2. z \in Link
    BY <1>2 DEF Context
  <2>3. CASE z = NULL
    <3>1. Call("unblock_state", ctx[Current].parent, "dead") /\ UNCHANGED machine
      BY <1>9, <2>3 DEF QuitWake
    <3>2. ctx[Current].parent \in Slots /\ ctx[Current].parent \in Link
      BY <1>2 DEF Context, Link
    <3>3. ctx' \in SoundContexts
      BY <1>2, <1>3, <1>4, <3>1, <3>2, CallKeeps DEF Call
    <3> QED
      BY <1>1, <2>1, <3>1, <3>3, MoveKeeps
  <2>4. CASE z # NULL /\ processTable[z].state = ""
    <3>1. machine' = "crashed" /\ UNCHANGED ctx
      BY <1>9, <2>4 DEF QuitWake
    <3>2. intOn' \in BOOLEAN /\ ctx' \in SoundContexts
      BY <2>1, <3>1 DEF CoreInv, TypeOK
    <3> QED
      BY <1>1, <2>1, <3>1, <3>2, QuietStep
  <2>5. CASE z # NULL /\ processTable[z].state = "Terminated"
    <3>1. /\ Call("quit_wake", processTable[z].nextZapNode, "dead")
          /\ UNCHANGED machine
      BY <1>9, <2>5 DEF QuitWake
    <3>2. processTable[z].nextZapNode \in Link
      BY <1>5, <2>2, <2>5 DEF Link
    <3>3. ctx' \in SoundContexts
      BY <1>2, <1>3, <3>1, <3>2, CallKeeps DEF Call
    <3> QED
      BY <1>1, <2>1, <3>1, <3>3, MoveKeeps
  <2>6. CASE z # NULL /\ processTable[z].state \notin {"", "Terminated"}
    <3>1. Goto("wake_state") /\ UNCHANGED machine
      BY <1>9, <2>6 DEF QuitWake
    <3>2. ctx[Current].arg \in Slots
      BY <2>2, <2>6 DEF Link
    <3>3. ctx' \in SoundContexts
      BY <1>2, <1>4, <3>1, <3>2, GotoKeeps DEF Goto
    <3> QED
      BY <1>1, <2>1, <3>1, <3>3, MoveKeeps
  <2> QED
    BY <2>3, <2>4, <2>5, <2>6
<1>10. CASE WakeState
  <2>1. ctx[Current].arg \in Slots /\ "Runnable" \in States \ {"Running"}
    BY <1>2, <1>10 DEF WakeState, At, SoundContext, Follows, States
  <2>2. SoundMemory(SetState(Mem, ctx[Current].arg, "Runnable"), pidCounter)
    BY <1>2, <2>1, StateStaysSound
  <2> QED
    BY <1>1, <1>4, <1>10, <2>1, <2>2, StoreAndGoto DEF WakeState
<1>11. CASE WakeAdd
  <2> DEFINE z == ctx[Current].arg
  <2>1. z \in Slots
    BY <1>2, <1>11 DEF WakeAdd, At, SoundContext, Follows
  <2>2. SoundMemory(addToQueue(Mem, z), pidCounter)
    BY <1>2, <2>1, AddToQueueKeeps, LinksStaySound DEF SoundMemory
  <2>3. /\ Store(addToQueue(Mem, z))
        /\ Call("quit_wake", processTable[z].nextZapNode, "dead")
        /\ UNCHANGED <<runningProcessID, pidCounter, intOn>>
    BY <1>11 DEF WakeAdd
  <2> HIDE DEF z
  <2>4. ctx' \in SoundContexts
    BY <1>2, <1>3, <1>5, <2>1, <2>3, CallKeeps DEF Call
  <2>5. pidCounter' \in Nat /\ intOn' \in BOOLEAN
        /\ SoundMemory(addToQueue(Mem, z), pidCounter')
    BY <2>2, <2>3 DEF CoreInv, TypeOK
  <2> QED
    BY <1>1, <2>3, <2>4, <2>5, StoreStep
<1> QED
  BY <1>6, <1>7, <1>8, <1>9, <1>10, <1>11

\* zap, refused or not.
LEMMA ZapKeeps ==
    ASSUME CoreInv, NEW pid \in 1 .. pidCounter, Zap(pid) \/ ZapError(pid)
    PROVE  CoreInv'
<1>1. runningProcessID # -1
  BY DEF Zap, ZapError, At
<1>2. Current \in Slots /\ ctx \in SoundContexts
  BY <1>1, OwnContext
<1>3. CASE ZapError(pid)
  BY <1>1, <1>3, EndKeeps DEF ZapError
<1>4. CASE Zap(pid)
  <2> DEFINE target == getProcess(pid)
             head   == processTable[target].zapHead
             t == [processTable EXCEPT
                    ![target].zapHead = Current,
                    ![Current].nextZapNode = IF head = NULL THEN @ ELSE head]
  <2>1. /\ processTable' = t
        /\ ctx' = [ctx EXCEPT ![Current].pc = "block_state",
                              ![Current].block = ZapBlocked,
                              ![Current].ret = "user",
                              ![Current].int = intOn]
        /\ intOn' = FALSE
        /\ UNCHANGED <<runQueues, runningProcessID, pidCounter, machine>>
    BY <1>4 DEF Zap
  <2>2. target \in Slots
    <3>1. pid \in Int
      BY DEF CoreInv, TypeOK
    <3> QED
      BY <3>1, SlotOfPid
  <2> HIDE DEF target
  <2>3. head \in Link /\ Current \in Link
    BY <1>2, <2>2 DEF CoreInv, TypeOK, Process, Link
  <2> HIDE DEF head
  <2>4. \A v \in Link, p \in Process :
            /\ [p EXCEPT !.zapHead = v] \in Process
            /\ [p EXCEPT !.nextZapNode = v] \in Process
    BY DEF Process
  <2> DEFINE t1 == [processTable EXCEPT ![target].zapHead = Current]
             v  == IF head = NULL THEN t1[Current].nextZapNode ELSE head
  <2>5. t1 \in [Slots -> Process]
    BY <1>2, <2>2, <2>3, <2>4 DEF CoreInv, TypeOK
  <2>6. \A x \in Slots : /\ t1[x].isInitialized = processTable[x].isInitialized
                         /\ t1[x].PID = processTable[x].PID
                         /\ t1[x].state = processTable[x].state
    BY DEF CoreInv, TypeOK, Process
  <2>7. t = [t1 EXCEPT ![Current].nextZapNode = v]
    BY DEF CoreInv, TypeOK
  <2> HIDE DEF t1, t
  <2>8. v \in Link
    BY <1>2, <2>3, <2>5 DEF Process
  <2> HIDE DEF v
  <2>9. t \in [Slots -> Process]
    BY <1>2, <2>4, <2>5, <2>7, <2>8
  <2>10. \A x \in Slots : /\ t[x].isInitialized = t1[x].isInitialized
                          /\ t[x].PID = t1[x].PID
                          /\ t[x].state = t1[x].state
    BY <2>5, <2>7 DEF Process
  <2>11. SoundTable(t, pidCounter)
    BY <2>6, <2>9, <2>10, MemIsSound DEF SoundMemory, Mem, SoundTable
  <2>12. ctx' \in SoundContexts
    <3>1. ZapBlocked \in BlockStates /\ "user" \in PCs \ Follows
      BY DEF BlockStates, PCs, Follows
    <3>2. intOn \in BOOLEAN
      BY DEF CoreInv, TypeOK
    <3> QED
      BY <1>2, <2>1, <3>1, <3>2, BlockKeeps
  <2>13. /\ pidCounter' \in Nat
         /\ runQueues' \in [Priorities -> Link]
         /\ machine' \in {"on", "halted", "deadlock", "crashed", "hung"}
    BY <2>1 DEF CoreInv, TypeOK
  <2>14. intOn' \in BOOLEAN
    BY <2>1
  <2> QED
    BY <1>1, <2>1, <2>11, <2>12, <2>13, <2>14, TableStep
<1> QED
  BY <1>3, <1>4

\* The two places that call the dispatcher with no more to do.
LEMMA SwitchPointsKeep ==
    ASSUME CoreInv, Dispatch \/ ClockInterrupt
    PROVE  CoreInv'
<1>1. runningProcessID # -1
  BY DEF Dispatch, ClockInterrupt, At
<1>2. Current \in Slots /\ ctx \in SoundContexts /\ ctx[Current] \in Context
      /\ SoundContext(ctx[Current]) /\ SoundMemory(Mem, pidCounter)
  BY <1>1, OwnContext, MemIsSound
<1>3. CASE Dispatch
  <2> DEFINE c == [ctx EXCEPT ![Current].pc = ctx[Current].ret]
  <2>1. c \in SoundContexts
    BY <1>2, GotoKeeps DEF SoundContext, Context
  <2>2. dispatcher(Mem, c)
    BY <1>3 DEF Dispatch
  <2> HIDE DEF c
  <2> QED
    BY <1>1, <1>2, <2>1, <2>2, DispatcherKeeps
<1>4. CASE ClockInterrupt
  <2> DEFINE m == rotate(Mem, Current)
             c == [ctx EXCEPT ![Current].int = TRUE]
  <2>1. SoundMemory(m, pidCounter)
    BY <1>2, RotateKeeps, LinksStaySound DEF SoundMemory
  <2>2. c \in SoundContexts
    BY <1>2, IntKeeps
  <2>3. m.fault # "none" => m.fault \in {"halted", "deadlock", "crashed", "hung"}
    BY <2>1 DEF SoundMemory, Memory
  <2>4. IF m.fault # "none" THEN End(m.fault) ELSE dispatcher(m, c)
    BY <1>4 DEF ClockInterrupt
  <2> HIDE DEF m, c
  <2> QED
    BY <1>1, <2>1, <2>2, <2>3, <2>4, EndKeeps, DispatcherKeeps
<1> QED
  BY <1>3, <1>4

\* The ends of the simulation, and dumpProcesses.
LEMMA HaltKeeps ==
    ASSUME CoreInv,
           Sentinel \/ MainReturns \/ NullFunc \/ QuitReturns \/ DumpProcesses
    PROVE  CoreInv'
<1>1. runningProcessID # -1
  BY DEF Sentinel, MainReturns, NullFunc, QuitReturns, DumpProcesses, At
<1> QED
  BY <1>1, EndKeeps DEF Sentinel, MainReturns, NullFunc, QuitReturns,
                          DumpProcesses

\* The first dispatch: nothing was Running before, and what runs now owns its
\* slot.
LEMMA StartKeepsInv ==
    ASSUME CoreInv, StartProcesses
    PROVE  CoreInv'
<1>1. PICK x \in Slots :
        /\ processTable[x].state = "Runnable"
        /\ processTable' = [processTable EXCEPT ![x].state = "Running"]
        /\ runningProcessID' = processTable[x].PID
        /\ intOn' = ctx[x].int
        /\ ctx' = [ctx EXCEPT ![x].int = FALSE]
  BY DEF StartProcesses
<1>2. /\ runningProcessID = -1
      /\ UNCHANGED <<runQueues, pidCounter, machine>>
  BY DEF StartProcesses
<1>3. processTable[x].PID \in Nat /\ getProcess(processTable[x].PID) = x
  BY <1>1, <1>2 DEF CoreInv, TypeOK, Process, Boot, PidsInPlace
<1>4. /\ processTable' \in [Slots -> Process]
      /\ \A y \in Slots :
            /\ processTable'[y].isInitialized = processTable[y].isInitialized
            /\ processTable'[y].PID = processTable[y].PID
            /\ processTable'[y].state = "Running" =>
                    y = x \/ processTable[y].state = "Running"
  <2>1. "Running" \in States
    BY DEF States
  <2> QED
    BY <1>1, <2>1 DEF CoreInv, TypeOK, Process
<1>5. ctx' \in SoundContexts
  BY <1>1, IntKeeps DEF CoreInv
<1>6. intOn' \in BOOLEAN
  BY <1>1 DEF CoreInv, TypeOK, Context
<1>7. TypeOK'
  BY <1>1, <1>2, <1>3, <1>4, <1>5, <1>6 DEF CoreInv, TypeOK, SoundContexts
<1>8. Current' = x /\ runningProcessID' # -1
  BY <1>1, <1>3 DEF Current, getProcess
<1>9. OnlyCurrentRuns'
  BY <1>2, <1>4, <1>8 DEF CoreInv, OnlyCurrentRuns
<1>10. PidsInPlace'
  BY <1>2, <1>4 DEF CoreInv, PidsInPlace, Used, getProcess
<1> QED
  BY <1>5, <1>7, <1>8, <1>9, <1>10 DEF CoreInv, Boot

-----------------------------------------------------------------------------
\* phase1_init leaves init, Runnable, and nothing that runs.
LEMMA InitEstablishes == Init => CoreInv
<1> SUFFICES ASSUME Init PROVE CoreInv
  OBVIOUS
<1> DEFINE init == getProcess(1)
           p == [Blank EXCEPT !.isInitialized = TRUE, !.PID = 1,
                              !.priority = 6, !.state = "Runnable",
                              !.startFunc = "init_main"]
<1>1. init \in Slots /\ NULL \in Link /\ init \in Link
  BY SlotOfPid DEF Link
<1>2. /\ p \in Process
      /\ p.PID = 1
      /\ p.state = "Runnable"
      /\ p.isInitialized
  <2>1. "Runnable" \in States /\ "init_main" \in StartFuncs /\ 6 \in Priorities
    BY DEF States, StartFuncs, Priorities
  <2> QED
    BY <2>1, BlankType DEF Process
<1>3. Blank.isInitialized = FALSE /\ Blank.state = ""
  BY DEF Blank
<1>4. /\ processTable = [x \in Slots |-> IF x = init THEN p ELSE Blank]
      /\ runQueues = [i \in Priorities |-> IF i = 6 THEN init ELSE NULL]
      /\ runningProcessID = -1
      /\ pidCounter = 2
      /\ intOn = FALSE
      /\ ctx = [x \in Slots |-> Start("init_sentinel")]
      /\ machine = "on"
  BY DEF Init
<1> HIDE DEF p
<1>5. SoundContext(Start("init_sentinel"))
  <2>1. "init_sentinel" \in PCs \ Follows
    BY DEF PCs, Follows
  <2>2. 0 \in Slots /\ "" \in BlockStates
    BY MaxprocAssumption DEF Slots, BlockStates
  <2> QED
    BY <1>1, <2>1, <2>2 DEF Start, Context, SoundContext
<1>6. ctx \in SoundContexts
  BY <1>4, <1>5 DEF SoundContexts, SoundContext
<1>7. PidsInPlace
  <2> SUFFICES ASSUME NEW x \in Slots, processTable[x].isInitialized
               PROVE  /\ getProcess(processTable[x].PID) = x
                      /\ processTable[x].PID < pidCounter
    BY DEF PidsInPlace, Used
  <2>1. x = init /\ processTable[x] = p
    BY <1>3, <1>4
  <2>2. processTable[x].PID = 1
    BY <1>2, <2>1
  <2> QED
    BY <1>4, <2>1, <2>2
<1> HIDE DEF init
<1>8. TypeOK
  BY <1>1, <1>2, <1>4, <1>6, BlankType DEF TypeOK, SoundContexts
<1>9. Boot
  BY <1>2, <1>3, <1>4 DEF Boot, Used
<1>10. OnlyCurrentRuns
  BY <1>2, <1>3, <1>4 DEF OnlyCurrentRuns
<1> QED
  BY <1>6, <1>7, <1>8, <1>9, <1>10 DEF CoreInv

\* Every step of the kernel, of a user program or of the clock.
LEMMA StepKeeps == CoreInv /\ [Next]_vars => CoreInv'
<1> SUFFICES ASSUME CoreInv, [Next]_vars
             PROVE  CoreInv'
  OBVIOUS
<1>1. CASE StartProcesses
  BY <1>1, StartKeepsInv
<1>2. CASE KernelCall
  BY <1>2, ForkKeeps, JoinKeeps, BlockStepKeeps, QuitKeeps, ZapKeeps, HaltKeeps
     DEF KernelCall
<1>3. CASE KernelStep
  BY <1>3, ForkKeeps, ForkReturnsKeeps, JoinKeeps, BlockStepKeeps, QuitKeeps,
     SwitchPointsKeep, HaltKeeps
     DEF KernelStep
<1>4. CASE ClockInterrupt
  BY <1>4, SwitchPointsKeep
<1>5. CASE Ended \/ UNCHANGED vars
  BY <1>5 DEF Ended, vars, CoreInv, TypeOK, Boot, OnlyCurrentRuns, PidsInPlace,
              Used, Current, getProcess
<1> QED
  BY <1>1, <1>2, <1>3, <1>4, <1>5 DEF Next

\* The invariant holds in every reachable state of every instance.
LEMMA Invariance == Spec => []CoreInv
  BY InitEstablishes, StepKeeps, PTL DEF Spec

\* Every variable of the kernel keeps its type: no slot number, PID, queue head
\* or saved context ever leaves the range that the code relies on.
THEOREM TypeCorrect == Spec => []TypeOK
<1>1. CoreInv => TypeOK
  BY DEF CoreInv
<1> QED
  BY <1>1, Invariance, PTL

\* Whatever user programs call and whenever the clock strikes, only the current
\* process is marked Running.
THEOREM OneRunning == Spec => []OnlyCurrentRuns
<1>1. CoreInv => OnlyCurrentRuns
  BY DEF CoreInv
<1> QED
  BY <1>1, Invariance, PTL

\* A slot in use holds the PID that getProcess looks up there, however often
\* pidCounter has gone around the table.
THEOREM PidsStayInPlace == Spec => []PidsInPlace
<1>1. CoreInv => PidsInPlace
  BY DEF CoreInv
<1> QED
  BY <1>1, Invariance, PTL

=============================================================================
