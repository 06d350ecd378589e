# process_control: verification project

`process_control` is a teaching operating system written in C for the USLOSS
machine simulator. It is built in phases, each on the one below:

| phase | source | what it adds |
|---|---|---|
| 1a | `src/phase1a/phase1.c` | processes without a scheduler: every context switch is made by hand |
| 1b | `src/phase1b/phase1.c` | the process kernel: scheduler, `blockMe`, `zap`, time slices |
| 2 | `src/phase2/phase2.c` | mailboxes, interrupt handlers, `waitDevice` |
| 3 | `src/phase3/phase3.c` | system calls for user mode: `Spawn`, `Wait`, `Terminate`, semaphores |
| 4a | `src/phase4a/phase4.c` | drivers: clock (`Sleep`), terminals, disks |

This directory holds TLA+ modules of the parts that carry the system's own logic,
configurations that check them with TLC, and proofs that TLAPS checks. Line
numbers below refer to the files in the table.

## 1. Inventory

### Process kernel (phase 1b) — modelled

* State: `processTable[MAXPROC]` of `struct Process` (46-82): PID, priority,
  `state` (a string), parent/child/sibling links, `nextQueueNode`/`prevQueueNode`,
  the zap list (`firstZapper`, `nextZapNode`); `runQueues[7]`, heads of intrusive
  lists; `pidCounter`; `runningProcessID`; the saved contexts and the interrupt bit.
* Operations: `fork1`/`createProcess`, `join`, `quit`, `zap`, `blockMe`,
  `unblockProc`, `dumpProcesses`, the dispatcher, `clockHandler`/`timeSlice`,
  `init_main`, `sentinel`, `testcase_main_local`, `trampoline`.
* Hard: the kernel turns interrupts off in few places (`createProcess`, and
  `runProcess` around the context switch), so the clock interrupt can rotate a
  queue and switch away between almost any two statements; queues are linked
  through the process table itself, and slots are reused; `quit`, `join` and `zap`
  hand work to each other over a context switch.
* Nothing protects `unblockProc`: it takes any PID, and makes what it finds there
  `Runnable`, be it running, waiting for a child, dead or gone.
* Right if: a slot in use keeps its identity; only one process is `Running`; the
  child lists agree with the parent links; no wakeup of `join` is lost; the
  dispatcher serves the best priority; the sentinel's "deadlock" is one; the dead
  stay dead.

### Cooperative kernel (phase 1a) — modelled

* State: the process table with its tree (links by pointers into the table, slots by
  PID modulo `MAXPROC`), `runningProcessID`, `pidCounter`; no queues.
* Operations: `fork1`/`createProcess`, `join`, `quit`, `TEMP_switchTo`,
  `dumpProcesses`, `init_main`, `sentinel`, `trampoline`.
* Hard: nothing runs concurrently, but a process goes on only when another names it,
  and any order of calls is legal: children die in any order, parents look for them
  late, PIDs come round, and a child that `fork1` rejects after making it stays in
  the table without a parent.
* Right if `getProcess` finds the process of a PID; the lists of children agree in all
  directions; it implements the same process tree as phase 1b.

### Mailboxes (phase 2) — partly modelled

* State: `mbTable[MAXMBOX]`, a pool `messageSlots[MAXSLOTS]` that all mailboxes
  share, `messageIDCounter`, and a *shadow* process table, because phase 2 is built
  against a prebuilt `libphase1.a` and cannot see the kernel's. Each mailbox has
  three intrusive lists: messages, waiting consumers, waiting producers.
* Operations: `MboxCreate`, `MboxRelease`, `MboxSend`, `MboxRecv`,
  `MboxCondSend`, `MboxCondRecv`, `waitDevice`, `phase2_check_io`, the clock and
  terminal interrupt handlers (which call `MboxSend`).
* Interacts with the kernel through `blockMe`, `unblockProc` and `getpid` only.
* Hard: a call decides on what it has read, gives the CPU away in `blockMe` or
  `unblockProc`, and goes on without looking again; nothing turns interrupts off;
  queue links survive in the shadow table.
* Right if: a mailbox is a queue that neither loses, duplicates nor reorders; a
  sleeper's message or room does not lie there unused; message slots are in one
  list only; a release wakes everybody; the sentinel can tell I/O from deadlock.

### Semaphores and system calls (phase 3) — modelled

* State: `semaphoreTable`, `semCounter`, a shadow process table indexed by a PID
  counter of its own (13, 55-66).
* Operations: `kernSpawn`/`tramp`, `kernWait`, `kernTerminate`, `kernSemCreate`,
  `kernSemP`, `kernSemV`, `kernGetTimeofDay`, `kernCPUTime`, `kernGetPID`, each behind a stub in
  `phase3_usermode.c`. Semaphores block on zero-slot mailboxes.
* Interacts with the kernel through `fork1`, `join`, `quit`, `getpid` and with the
  mailboxes through `MboxCreate`, `MboxSend`, `MboxRecv`, all of them in the
  prebuilt libraries that phase 3 is linked with.
* Hard: `tramp` finds its function through the real PID in a table filled by a
  guessed one, counted on even if `fork1` then refuses the arguments; the number of those who wait is kept in `value` and in the mailbox's
  queue, changed on two sides of a context switch; `Terminate` joins any number of
  children before it quits.
* Right if a process runs the function it was spawned with; it ends with its own
  status, after its children; a semaphore is a counting semaphore.

### Clock, terminal and disk drivers (phase 4a) — partly modelled

* State: `GLOBAL_CLOCK_TICKS`, the sleep queue (shadow processes linked by
  wakeup time), the terminals' line buffers, `READ_BUFFER_SIZE`, `disks[2]`,
  `DISK_TRACK`, and a mailbox per lock, per sleeper and per completion.
* Operations: seven daemons in `waitDevice` loops; `ourSleep`, `ourTermRead`,
  `ourTermWrite`, `ourDiskRead`, `ourDiskWrite`, `ourDiskSize`.
* Interacts with devices through `waitDevice` and `USLOSS_DeviceOutput`, with the
  phases below through mailboxes only. The drivers share no state, but for the third
  word of a disk request, which is written past the entry of `disks` it lies over (2).
* Hard: sleepers are queued in user calls and woken by a daemon; a failed seek
  returns with the drive locked (614-618, 683-687); completions are conditional
  sends that carry no name and are dropped when nobody took the last one; the
  request is written over the fields that report on the last one (622).
* Right if: nobody wakes up early or late; what is typed is read in order; a text
  is shown whole; a transfer moves the sectors it was asked for; locks come back;
  every call ends.

### Testcases — partly modelled

* The testcases of phases 1a, 1b and 3 are programs of calls with a recorded output
  (`testcases/*.c`, `*.out`). They are run by the models, as evidence that the models
  do what the program does: the same lines in the same order, with the same PIDs,
  states and statuses in them.

### Left out altogether

The stubs of phase 4a (`phase4_usermode.c` marshals arguments), the prebuilt libraries
(no source), the testcases of phases 2 and 4a and the build files (read for what
they expect of the code).

## 2. Modules

| module | models |
|---|---|
| `RunQueues` | the intrusive run queues as pure operators: `addToQueue`, `removeNode`, `rotate` (in `timeSlice`), the dispatcher's choice, the search for a process slot |
| `Kernel` | the process kernel of phase 1b over `RunQueues` |
| `KernelProperties` | its properties, and the refinement mapping to `ProcessTree` |
| `MCKernel` | small instances for TLC |
| `ProcessTree` | abstract: what `fork1`, `quit`, `join` promise together |
| `KernelProofs`, `KernelTreeProofs`, `ProcessTreeProofs` | theorems |
| `Mailbox` | the mailboxes of phase 2 |
| `MailboxProperties` | their properties, and the refinement mapping to `MailQueue` |
| `MCMailbox` | small instances for TLC |
| `MailQueue` | abstract: what mailboxes promise to those who use them |
| `MailboxProofs` | theorems |
| `Cooperative` | the kernel of phase 1a, its properties, and the refinement mapping to `ProcessTree` |
| `CooperativeProofs` | theorems |
| `Semaphores` | the semaphores of phase 3, and the refinement mapping to `CountingSemaphore` |
| `CountingSemaphore` | abstract: what semaphores promise |
| `SystemCalls` | the system calls of phase 3 with their stubs, over `Semaphores` and the kernel below |
| `MCSystemCalls` | small instances for TLC |
| `SystemCallProofs` | theorems |
| `SleepQueue` | the clock driver: `Sleep`, the sorted queue, its daemon |
| `Terminal` | the terminal driver: `TermRead`, `TermWrite`, the daemon's line buffer |
| `Disk` | the disk driver, one unit: `DiskRead`, `DiskWrite`, `DiskSize`, its daemon |
| `Drivers` | the three drivers together, as phase 4 starts them; small instances for TLC |
| `TerminalProofs`, `DriverProofs` | theorems |
| `Programs` | the notation in which testcases are written |
| `Testcases1a`, `Testcases1b`, `Testcases3` | the testcases and their recorded outputs |
| `TestRun1a`, `TestRun1b`, `TestRun3` | a testcase run by `Cooperative`, `Kernel`, `SystemCalls` |
| `TestRuns` | any one of them, with the code's constants, for TLC |

A definition whose comment says *Slip* is a plausible programming error in the
operator that follows it. No specification uses it; it exists to see that the
property it concerns can fail.

### How `Kernel` corresponds to the code

The variables carry the names of the C globals. Slot `x` of the table is `x` (0 is
the null pointer, slot 0 is written as `MAXPROC`), so a `struct Process *` is a slot.
`Mem`, the table with the queues, is passed to the operators of `RunQueues` and
stored back, as the C functions work on the two globals. `ctx[x]` is the context
`USLOSS_ContextSwitch` saves: where the process goes on, its argument, its interrupt
bit. One action is the code between two points where a clock interrupt makes a
difference: `Fork1`, `ForkPid`, `ForkParent`, `ForkLink` are the stages of `fork1`;
`Join` is the scan of the children; `BlockState`, `BlockRemove`, `Dispatch` are
`blockMe`; `Quit`, `QuitRemove`, `QuitWake`, `WakeState`, `WakeAdd` are `quit`.
`ClockInterrupt` may come between any two of them while the current interrupt bit is
set, and does the whole of `clockHandler`: rotate the queue, then dispatch. The one
statement that runs with interrupts off for long is what follows `createProcess`'s
dispatcher call, and the model keeps that as the code has it.

A walk along a list of links can meet a cycle or a null pointer. The model notes
that in `machine` (`"hung"`, `"crashed"`) and stops, as the program does.

Grain: `addToQueue` and `removeNode` are one step each. User code is `Ops`, the
set of kernel calls any user process may make at any time. `unblockProc` tests nothing,
and neither does `UnblockProc`: `WokenStates` says which processes the programs
pass to it, those in any state (`States`) if need be. A dead process woken that way gets the
CPU behind the end of `quit`, which does not return, and crashes (`QuitReturns`); so does
a switch to a slot that nobody has (`HasContext`).

### How `Cooperative` corresponds to the code

The variables are the C globals, with `resume[x]`, where a process goes on when it gets
the CPU, for its saved context. A pointer is a slot, or `NULL`. Interrupts change
nothing in phase 1a, so a call is one step, but for `join`, which looks at one child
per step (`curChild` is its local variable):

| code | actions |
|---|---|
| `fork1` 226-262 with `createProcess`, `findOpenProcessTableSlot` | `Fork1`: `Create` or `CreateFails` |
| `join` 273-314 | `CallJoin`, `JoinNext` per living child, `JoinReaps` |
| `quit` | `Quit`, `QuitError` |
| `TEMP_switchTo` | `TEMP_switchTo` |
| `dumpProcesses`, which reads the parent of every process but init | `DumpCrashes` (otherwise it changes nothing) |
| `init_main`, `sentinel`, `testcase_main_local` | `StartProcesses`, `InitForksSentinel`, `InitForksTestcase`, `InitSwitches`, `InitHalts`, `Sentinel`, `MainReturns` |

A program may name a PID that it can know, of a process that has not quit: any other
would make the kernel resume a slot that nobody is in, which no testcase does. A child that
`fork1` rejects (239) keeps its slot for ever and is nobody's child; `dumpProcesses`
then follows its null parent, and that ends the behaviour in `"crashed"`.

### How `SystemCalls` corresponds to the code

Each call is an action with the name of its stub, and what the stub returns out of
`USLOSS_Sysargs` is an operator beside it (`SpawnAnswer`, `WaitAnswer`, ...). A handler
runs with interrupts off, so a call is one step unless it joins:

| code | actions |
|---|---|
| `kernSpawn` with `createShadowProcess` | `Spawn` |
| `tramp` with `getProcess` | `tramp` |
| `kernWait` | `Wait`, `kernWait` |
| `kernTerminate` | `Terminate`, `kernTerminate` per child, and its `quit` |
| `kernSemCreate` with `semCreate`, `kernSemP`, `kernSemV` | `SemCreate`, `SemP`, `SemV` |
| `kernGetPID`, `kernGetTimeofDay`, `kernCPUTime` | the actions of these names |
| no handler for `SYS_SEMFREE` (`phase3_init`) | `SemFree`, which halts the machine |

Phase 3 is linked with the prebuilt `libphase1.a` and `libphase2.a`, not with the
phases of this repository. They are external, and modelled as this file uses them and the
recorded outputs show them: `fork1` gives the first PID from its counter on whose slot is
free, `join` takes the youngest dead child, the best priority that is ready longest
runs, and a zero-slot mailbox passes the first of those who wait on one side on to the
first who comes on the other. `Semaphores` has the calls' effect on semaphores and
mailboxes, and `SystemCalls` adds who may make them and what they do to
processes (`Rescheduled`).

`fork1` refuses a stack that is too small, a priority out of range and a name too long or
missing; `kernSpawn` passes the caller's on unchecked, after it has made and counted the
shadow entry. A `Spawn` of the model has an argument `refusal`, what `fork1` says to those it was
called with: 0, or one of `Refusals`. What the library itself counts when it refuses is not
in the source: it is taken to count nothing, as it makes nothing.

As the code has it: `Spawn` returns the priority it was given as its error
code, for `arg4` is not written; `MboxCreate`'s failure is not looked at
(`phase3.c:218`), so a semaphore may have no mailbox, and its `P` then fails where it
would wait and gives back what it took; a negative value is refused after an entry and
a mailbox have been taken. `semCreate` leaves with `return;` where it has made the entry (201);
the register then holds the counter that was just written, which is not -1, and the model
assumes that. Left out: the values of times, the names and
argument strings of processes, and semaphore ids that `SemCreate` has not returned.

### How the testcases are written

A program is a record of functions, each a sequence of items (`Fork("XXp1", 2)`,
`JoinOne`, `CallSpawn("Child1", 4)`), and an output the sequence of lines, each the
function that prints it and the number in it. Lines whose text is all they say
are kept by who prints them and when. A process table among the lines is a set of
rows: PID, parent, priority, state. Where a testcase says that processes of one priority
race, each function's lines are compared and the interleaving is left open.
Left out: tests 18 (a race against the clock) and 22 (priorities that index outside
`runQueues`) of phase 1b, `test.c` of phase 1a, `test27` and `test.c` of phase 3; and
`test26` of phase 3 counts to 50.

### How `Mailbox` corresponds to the code

`mbTable`, `messageSlots`, `messageIDCounter`, `shadowProcessTable` are the C
globals; slot `s` stands for `messageSlots[s - 1]`, a mailbox id for its entry. An
entry of the shadow table is `isCurrent` when its PID is that of the process that
now has the slot: the code compares PIDs for nothing else, so PIDs themselves are
left out, and the counter is kept modulo `MAXSLOTS` because it is only used so.
`frames[p]` is the stack of mailbox calls in progress: an interrupt handler's
`MboxSend` lies on top of the call it interrupted. An action is one stage of a
call between the points where somebody else can get the CPU or where a handler can
come between a test and its use:

| code | actions |
|---|---|
| `MboxSend` 386-464 | `MboxSend`, `FindSlot`, `TakeSlot`, `addToProducerQueue`, (`BlockMe`, `Resumed`), `addToMailQueue`, `WakeConsumer`; for zero slots `HandOver` |
| `MboxCondSend` 615-656 | `MboxCondSend`, `FindSlot`, `TakeSlot`, `WakeConsumer`, `addToMailQueue` |
| `MboxRecv` 551-600 | `MboxRecv`, `addToConsumerQueue`, (`BlockMe`, `Resumed`), `CopyMail`, `PopMail`, `WakeProducer`, `ReturnSize`; for zero slots `Leave` |
| `MboxCondRecv` 671-701 | the same without blocking |
| `MboxRelease` 348-373 | `MboxRelease`, `FreeConsumers`, `FreeProducers` (each `FreeQueue`, `FreeNext`) |
| `waitDevice` 717-745 | `waitDevice`, then as `MboxRecv` |
| the handlers 96-105, 194-199 | `Handler`, then as `MboxSend` |

The kernel below (`BlockMe`, `unblockProc`, `Dispatch`) is external: a blocked
process does not run, `unblockProc` makes it ready, and the dispatcher picks any
ready process, the sentinel only when there is no other. `Yield` and `Replace`
stand for what user code does outside this file: other kernel calls, and the end of
a process whose table slot goes to another.

Abstracted: message contents (a letter with a size), priorities, all mailboxes have
one `slotSize`, `malloc` succeeds, null-pointer arguments. Not modelled: release of
a device's mailbox, `syscallHandler` and `nullsys` (print and halt),
`enableInterrupts`/`disableInterrupts` (never called). There are no time slices in
phase 2: line 151 replaces the kernel's clock handler.

### How the drivers correspond to the code

System calls run with interrupts off, and the daemons have priority 1, above all
users. So a process in a call goes on until it blocks or returns, and an interrupt
with all that the daemon does about it is one step. In `SleepQueue` a call is one
step; in `Terminal` and `Disk` it is one step per blocking point:

| code | actions |
|---|---|
| `ourSleep` 485-494 with `getProcess`, `addToPriorityQueue` | `ourSleep` |
| `daemonProcessMain`, `removeFromPriorityQueue` 111-121, 211-219 | `daemonProcessMain`, `removeFromPriorityQueue` (one entry each), `waitDevice` |
| `ourTermWrite` 451-470 | `ourTermWrite`, `Transmit` or `AwaitTransmit` and `ResumeTransmit` per character, `WriteReturns` |
| `ourTermRead` 509-526 | `ourTermRead`; a reader that waits is let go by `Interrupt` |
| `termMain2` 163-198 | `Interrupt` |
| `ourDiskRead`, `ourDiskWrite` 590-723 | `BeginTransfer`; per sector `Seek`, `Sought`, `ReadMoved` or `WriteMoved`; `TransferReturns` |
| `ourDiskSize` 726-765 | `ourDiskSize`, `SizeReturns` |
| `diskDaemon` 529-552 | `diskDaemon` |

Time is counted in ticks (the code multiplies both sides of its comparison by
100). Text and sectors carry only what tells them apart: a shown character its
writer, its call and its place in the text; a typed one its number; a transfer
where the head was and which sector was asked for. `reg1` of the disk request lies
over `status` and `isComplete` (`&disks[unit].request` is taken as a request), which
`Transfer` does. `Seek` for track 0 executes `return;` in a function that returns a
value; the register then holds the last comparison's value, 0, which is not
`USLOSS_DEV_ERROR`, and the model assumes that.

External: mailboxes are queues that serve in turn, as `MailQueue` promises, with
the refusal of messages that are too large (`phase2.c:580`); the prebuilt
`libphase2.a` is what the code links. A terminal loses a character that comes while
it sends; the disk ignores a request that comes while it is busy. `DiskSize`
takes no lock; with `Shared = FALSE` it is called only while nobody uses the disk.
Not modelled: calls that an argument check ends at once, a number of sectors below
one, errors the devices raise themselves, a full mailbox table, and where
`request->reg2` (626, 694) goes: the request is laid over `disks` from the second word of an entry on, so
that its last word lies behind the entry, on `currentTrack` of the next one (which nothing
reads) or behind the array.

The three drivers have no variable in common. `Drivers` chooses one in its initial
state and lets only that one move: since none can see another, what holds in each of
these behaviours holds when they interleave.

## 3. Checks

| run | question | what it shows |
|---|---|---|
| `kernel_zap` | `fork1`, `join`, `quit`, `zap`, `blockMe`, and `unblockProc` of the blocked, of those that wait for a child and of the dead; no time slices, no slot used twice | no lost `join`, a reported deadlock is one, the dispatcher serves the best priority of the whole table, no zap list or `quit` revives the dead |
| `kernel_clock` | time slices between any two steps, and arguments that `fork1` rejects | types, slots keep their identity, one process runs, the dead stay dead |
| `kernel_tree` | slots that wrap around, rejected children that fill the table; liveness | child lists are sound; the kernel implements `ProcessTree`; every `join` whose child has died returns |
| `cooperative` | any program on phase 1a's kernel, a table that is full and beyond | PIDs find their processes, child lists are sound, the kernel implements `ProcessTree` |
| `testcases` | the recorded testcases of three phases: 14 of 1a, 35 of 1b, 24 of 3 | the models print what the `.out` files record |
| `mailbox_queue` | any sends and receives, release and reuse | free slots are counted right; `Mailbox` implements `MailQueue` |
| `mailbox_wakeup` | one receiver and two senders, or one sender and two receivers | nobody sleeps beside a message or beside room, nobody goes on without a message, release wakes everybody unless a table slot changes hands with several waiting |
| `mailbox_device` | two mailboxes on one pool, zero slots too; or interrupts between any two steps; liveness | no slot in two lists, a receiver is woken for its message, `phase2_check_io` is right whenever the sentinel asks |
| `system_calls` | three processes that make any system calls, with time slices, arguments that `fork1` refuses, a full process table and more semaphores than mailboxes | each runs its own function while the PID counters agree, and ends with its own status; `Semaphores` implements `CountingSemaphore` |
| `drivers` | each driver with two processes and interrupts at any moment; liveness | sleepers wake up at their tick, input is read in order, texts are shown whole, no character is lost where nothing is typed, a transfer moves the right sectors, requests are not lost, the lock comes back unless a seek fails; every call ends |
| `find_sleep`, `find_spawn` | what a comment says and the code does not do | counterexamples, see 5 |

Some properties of the mailboxes are stated for one receiver or for one sender
(`OneReceives`, `OneSends`): that is where the line between what the code
guarantees and what it does not runs. With two, a woken process can be overtaken.

**Bounds.** Kernel: `MAXPROC` is 6 (50 in the code), of which three slots go to init,
the sentinel and testcase_main. That leaves three user processes, enough for a parent
with two children, a grandchild, and a process that zaps one of them; `MaxPid` ends
`fork1` after so many PIDs: 7 is past `MAXPROC`, where slots must wrap around, and 5, for
all operations together, is two children and keeps every slot from being used twice (5 says
what `DispatchByPriority` and `DeadlockIsReal` come to otherwise). `WokenStates` has the
states of `blockMe`, of `join` and of the dead there; wakeups from `zap` as well are more than 5
million states, and those of a running process or a blank slot are counterexamples (5). Two priorities of children, above and below
their parent, give both orders of running after a fork. Phase 1a: a table of 6 and 13 PIDs go
round the table twice, and a rejected child can fill each of its slots. Testcases:
the code's own constants, 50 processes, 200 semaphores, 100 mailboxes. System calls:
a process table of 6, which three processes fill, with their parents in every shape, two
priorities, two functions, two
semaphores that start at zero, one of them without a mailbox, and a value of at most one
(`MaxValue`); two answers of `fork1` to bad arguments (`Refusals`), and no `Spawn` once phase 3 has counted
to 9 (`MaxCount`), so that up to four of them fail. PIDs do not come round there (`Users`), and do in
`find_spawn`, where no arguments are refused. Mailboxes: two or three processes and the sentinel,
one or two mailboxes, two or three message slots, mailboxes of zero, one or two
slots: full, empty and overfull mailboxes, an exhausted pool and a counter that
wraps all happen. Three message slots are what it takes to see a message added
behind the wrong one. Drivers: `MAXPROC = 4` gives the sleep queue three entries,
so that one can be added at the head, in the middle and at the end, and `MaxPid = 5` lets
one slot change hands; each process sleeps once, until one of four ticks. Two processes
with two calls each use one terminal, with lines of at most two characters, room for one
line, and readers whose buffers are empty, too small and larger than a line; and one
disk of two tracks and two sectors, with transfers of two sectors that start on
either track and cross from the first to the second and past the last, where the
seek fails. In the mailbox, system call and driver runs nobody is obliged to call
anything and every process may have come to its end, or the bound on calls be
reached, so they run without deadlock checking; the runs of the kernels and of the
testcases check it, except that the machine may halt.

**Fairness.** `KernelProperties!FairSpec` (`kernel_tree`) has weak fairness of
`KernelStep`, the steps of kernel code by whoever has the CPU; `Mailbox!FairSpec` (`mailbox_device`) of `CallStep`,
the steps of a call in progress; `Drivers!FairSpec` (`drivers`) of `Progress`: the clock ticks, a device finishes what it was asked, and a process
whose call can go on does; keys need not be pressed.
A CPU and devices that do not stop are all this assumes. No user program
is obliged to make its next call, no interrupt to come, no scheduler to be fair.

## 4. Proofs

`KernelProofs` proves, for every `MAXPROC`, `MaxPid`, set of user calls, fork
arguments, with time slices or without:

* `TypeCorrect`: `Spec => []TypeOK`;
* `OneRunning`: `Spec => []OnlyCurrentRuns`, only the current process is marked
  `Running`;
* `PidsStayInPlace`: `Spec => []PidsInPlace`, a slot in use holds the PID that
  `getProcess` looks up there, below `pidCounter`.

None of them is inductive. The invariant is
`CoreInv == TypeOK /\ ctx \in SoundContexts /\ Boot /\ OnlyCurrentRuns /\ PidsInPlace`:
`SoundContexts` says that a process resumed in the middle of `fork1`, `join` or
`quit` still has a slot as its argument, which is what keeps the next write inside
the table; `Boot` says what is true before the first dispatch, when nobody runs.
The argument has three layers: what the operators of `RunQueues` preserve
(`AddToQueueKeeps`, `RemoveNodeKeeps`, `RotateKeeps`: they write only links), what
a context switch preserves (`SwitchKeeps`, `DispatcherKeeps`), and one lemma per
kernel function (`ForkKeeps`, `JoinKeeps`, `QuitKeeps`, `ZapKeeps`, ...), put
together in `StepKeeps`.

`KernelTreeProofs` proves, over these, for every `MAXPROC`, `MaxPid`, set of user calls and
fork arguments, without time slices, if programs pass no dead process and no blank slot to
`unblockProc` (`WakesLiving`):

* `SlotsKeepTheirProcesses`: `Spec => []SlotIdentity`;
* `ListsHoldChildren`: `Spec => []ChildLists`;
* `JoinIsWoken`: `Spec => []NoLostJoin`;
* `TheDeadStayDead`: `Spec => DeadStayDead`;
* `TreeImplemented`: `Spec => ImplementsProcessTree`, the refinement itself, if programs give
  `fork1` priorities from 1 to 7 or a null start function (`PrioritiesValid`).

The premise `~TimeSlicing` is where the line runs in the code: with a clock interrupt between
`createProcess` and the reading of `pidCounter`, `fork1` links somebody else's child and the
lists are no longer trees (`phase1.c:435`, see 5), and a process that is `Terminated` but not
through with `quit` can be put aside for ever (`phase1.c:684`). `WakesLiving` is a line drawn for the proofs:
`unblockProc` does revive the dead, which then crash; that no other dead process is harmed
is checked by `kernel_zap`. Processes that run, are `Runnable`, or wait for a child or
a zap may be woken by anybody. `PrioritiesValid` was found by
attempting the proof: a child that `fork1` rejects for its priority is in no queue, yet a stale
queue link can run it, it may fork, and its children hang from a process that is not in
the tree (`phase1.c:722`, see 5).

`ChildLists` speaks of the slots that a walk along the sibling links reaches. As long as PIDs
fall along a list, and they do because `fork1` adds at the head, a walk neither leaves the list
nor stops short of its end: `WalkIs` gives a walk its path, `WalkFinds` says that it finds
what has ranks that fall by one, `ChildWalk` makes that of a list of children. The invariant is
`RunInv`: the lists are sound (`TableOK`) in the table `Listed`, which is the process table
without the parent of a child that `fork1` has adopted but not yet put in a list; a
process that has not been joined has a living parent or none (`ParentsLive`); init stays
(`InitStays`); what a slot's process is doing when it gets the CPU back agrees with its
state (`Places`, `Runner`), so that nobody resumes in the middle of `fork1` but the one who
created that child (`ForkInv`); a process in the middle of a call has the argument the call
needs, and one in `quit` has no children and a parent still to be woken (`CallOK`); the
parentless are those that `fork1` rejected (`Orphans`); who is `JoinBlocked` has no dead child but
the current process (`Waiting`); and init comes first (`BootPhase`). `CreatedInTable`,
`AdoptedInTable` and `UnlinkedInTable` say what `fork1` and `join` do to such a table; `CallStep`,
`BirthStep` and `ForkStep` what is left to show of a step of each kind, which a lemma per action
does (`BlockingMoves`, `QuittingMoves`, `ForkParentMoves`, `ReapMoves`, `SwitchMoves`, ...);
`Change` what a step does to the tree: nothing (`Calm`), a birth, an adoption, a death or a
collection.
The refinement reads these off: `ForkedTree`, `ExitedTree` and `ReapedTree` are
the steps of `ProcessTree`, `Attached` gives every process that can fork a place in the tree.

`CooperativeProofs` proves, for every `MAXPROC` above 3, `MaxPid` and set of priorities:

* `TypeCorrect`, `ProcessesFound` (`Spec => []RunningFound`) and `ListsOfChildren`
  (`Spec => []ChildLists`);
* `TreeImplemented`: `Spec => ImplementsProcessTree`, the refinement itself.

The invariant `Inv` adds to the three properties what a slot's contents say about the rest
of the table: a blank slot is linked by nobody, a process's PID is below `pidCounter`,
the dead have no children, the processes that run or can be named have been given
their code. Layers: what the pure operators do to a sound table
(`CreatedInTable`, `AdoptedInTable`, `UnlinkedInTable`, `SwitchedInTable`), what an action
does (`CreateEffect`, `SwitchEffect`, `ReapEffect`), preservation (`NextInv`,
`Invariance`), then the mapping: each call is the step of `ProcessTree` that
`ForkedTree`, `ExitedTree` and `ReapedTree` name, or leaves the tree as it is (`TreeStep`).

`SystemCallProofs` proves, for every set of users, number of semaphores and mailboxes, and
set of values:

* `ValuesCount`: `Spec => []ValueCountsWaiters`;
* `SemaphoresImplemented`: `Spec => ImplementsSemaphore`.

Its invariant is `Inv == Entries /\ Lines /\ Counts`: entries are taken in
order and no two have one mailbox, a mailbox not made yet is empty and no semaphore's mailbox
has senders in line, and the value counts the line. `PSteps`, `VSteps` and `CreateSteps`
show a call to be a step of `CountingSemaphore` or a stutter, `Mapped` that a call
on one semaphore leaves the others' lines alone. Both are proved for
`SemSpec`, users who call semaphores at any time; `SemaphoresUsed` (`Spec => SemSpec`) carries
them over to the system calls, whose other steps do not touch semaphores.

It also proves, for every set of users, functions and priorities, with time slices or
without:

* `StatusesKept`: `Spec => []EndsAsAsked`;
* `FunctionsKept`: `Spec => []OwnFunctionInStep`, if no user's PID is above `MAXPROC`
  (`PidsFit`), so that no slot is used twice, though the table may get full;
* `FailuresPartCounters`: while the counters agree, a step parts them just if it is a
  `Spawn` of which `fork1` makes no process (`SpawnFails`), under the same premise.

Together they are the line between what the code does and does not: a refused argument or a
full table mixes the functions up without any PID coming round, and `find_spawn` shows
what happens when one does.

`Scheduled` is what both rest on: the dispatcher finds somebody in a queue that is not
empty (`BestIsIn`, from the well-foundedness of the naturals, first for the priority and
then for the place), so the CPU goes to a user process or the machine stops. `Ending` adds
that a process in `Terminate` has its own status in `s1`. `InStep` says why a function
is found: phase 3 counts no less than the kernel, the entries of those below its counter are right
while the two agree, and as long as no slot is used twice the slot of the next PID is free if
any is, so `fork1` gives the PID that phase 3 has counted (`OwnSlots`, `ExpectedPid`) or,
with the table full or its arguments refused, leaves the kernel's counter behind
(`RefusedInStep`, `SpawnInStep`).

`MailboxProofs` proves, for every set of processes and of calls they make, number of
mailboxes and slots, and set of messages:

* `MailboxTypes`: `Spec => []MailTypes`, with interrupts between any two steps too;
* `MailAccounting`: `Spec => [](Uninterrupted => Accounting)`;
* `MailPoolSound`: `Spec => []PoolSound`, which has that premise inside;
* `MailRefinement`: `Spec /\ Uninterrupted => ImplementsMailQueue`, the refinement itself;
* `ReceiverNotLost`: `Spec => [](OneOwns /\ NoConds => NoLostReceiver)`;
* `SenderNotLost`: `Spec => [](Uninterrupted /\ OneOwns => NoLostSender)`;
* `ReleaseWakesBoth`: `Spec => [](OneReceives /\ OneSends /\ Uninterrupted /\ OneOwns =>
  ReleaseWakesAll)`;
* `SentinelKnowsDevices`: `Spec => [](OneReceives /\ OneSends /\ Uninterrupted /\ OneOwns /\
  BuffersHold => SentinelKnows)`;
* `NoNullPointer`: `Spec => [](OneOwns /\ Uninterrupted /\ Releasers \subseteq Receivers /\
  0 \notin SlotLimits /\ BuffersHold => NoCrash)`.

`Uninterrupted` says that no process is one whose calls a handler's `MboxSend` may
interrupt, as in the run `mailbox_queue`; without it two sends can be given one slot
(see 5, `phase2.c:410`). `Accounting` and `PoolSound` speak of the slots that a walk along
the links reaches, and no induction goes along such a walk. The invariant `Slotted` says
instead that there is a list `L[b]` of slots for every mailbox (`Sound`): the links are
those of the lists and no slot is in two places (`Chains`), the room and the list's length
make up the mailbox's size, every slot listed is in use, but for the first when a receiver
has just copied its message (`InBoxes`), a call that has a slot in hand has one that is in
use, in no list and in no other call's hand (`Alone`), and whoever is between a test and
its use is the one running, for nobody takes the CPU from him there (`FrameSound`). `ListsFound` shows that the
walk from a mailbox's head finds just that list, by a least step at which it might leave
it. `ChainsAppend`, `ChainsPop` and `ChainsClear` say what the links are after a message
more, one less, or none. Six actions write mail (`Writes`), with a lemma each
on the lists and one on the queues: `addToMailQueue` is the `Send`, `CopyMail` the
`Receive` and `PopMail` a stutter, which is why the mapping (`Contents`) leaves out the
first slot of a list once its message is copied. All the others keep the mail (`Quiet`).

The last five theorems are about who waits in the two queues of a mailbox, for any number
of processes, mailboxes and slots. Their premises name uses of the mailboxes; the code does
not keep the properties in all others, and here is why each premise is there:

* `OneReceives`, `OneSends` (in the properties themselves; in `ReleaseWakesAll` as one of two
  premises, the other is that no table slot gets another process, see 5, `phase2.c:359`): with
  two, one can take what the other was woken for.
* `OneOwns`: whoever releases mailboxes is the only one who does, and who makes them. Without
  it `MboxRelease`, which frees the entry before it empties the queues, can empty those of the
  mailbox made in its place (see 5, `phase2.c:362`).
* `NoConds`: nobody calls `MboxCondSend`, which wakes the receiver before the message is there
  (`phase2.c:652`).
* `BuffersHold`: every buffer holds every message. A receiver that is refused stays in its
  queue (`phase2.c:580`), and `phase2_check_io` then finds it though it waits for nothing.
* `Releasers \subseteq Receivers`: if anybody releases mailboxes it is the receiver. One whose
  mailbox is released by another, and made anew before it runs, goes on as if a message had come.
* `0 \notin SlotLimits`: on a zero-slot mailbox made anew a sender that was woken for the old
  one follows a null pointer (see 5, `phase2.c:439`).

The steps are sorted by what they do to the queues (`WaitStep`: who joins, who leaves, who
is woken), and each fact below is shown of each sort once. `Turns` says whose turn it is:
who has not given the CPU away has it, and who is blocked is in the middle of a call. `Owned`
says that a call that has just seen its mailbox open finds it so, and that one being
released is closed. `ConsumersSound` and `ProducersSound` say that who sleeps heads the
queue of a mailbox that is open or has its release under way; from them and
`WokenReceiver` and `WokenSender` (a sleeper beside a message, or beside room, is about to
be woken) follow the first three theorems (`WaitSound`). The other two need the converse:
`ConsumersExact` and `ProducersExact` say that who heads a queue is on its way to sleep,
asleep, or not yet out of the call, and that no link leads from one waiting process to
another (`WaitExact`). `Ready` says for each step that what it is about to follow is there,
so that none of the null pointers that the model lets crash (`CrashFrom`) is met.

`TerminalProofs` proves, for every set of users, line length, number of queued lines,
sizes of texts and buffers, and number of keys:

* `LinesAlwaysFit`: `Spec => []LinesFit`, the one property here that no run checks;
* `NoCharIsLost`: `Spec => []NoCharLost`;
* `TextsAreWhole`: `Spec => []TextsWhole`;
* `InputStaysInOrder`: `Spec => []InputInOrder`.

Each has an inductive invariant of its own over the one below. `InTurn` is what a call and
the rest of the state say of each other: who holds the write lock is in `writeLocked` and
in the middle of `TermWrite`, those in line for it have been put there once, and a reader
is in line for a line once (`LockInTurn`, `ReadersWait`). `OneMessage` is why no
character is lost while nothing is typed: each interrupt is spent on one message, which
lies in the mailbox or is on its way to a writer, and never while the terminal is busy.
`Whole(u)` adds to `TextsWhole` how the screen goes on (`GoesOnFrom`): after a character
that is not its text's last, its writer still has the lock and sends the next one.
`Held(u)` says of the pieces of input, what has been read, the queued lines and the line
being typed, that their characters ascend from piece to piece and leave out only those
that were dropped (`Sorted`); `LineRead`, `CharTyped`, `LineQueued` and `LineDropped` say
what an action does to such pieces.

`DriverProofs` proves, for every set of users, tracks, sectors and transfers:

* `SectorsStayInOrder`: `Spec => []SectorsInOrder`;
* `RequestsAreTaken`: `Spec => []RequestsTaken`;
* `LocksAreGivenBack`: `Spec => []LockGivenBack`,

each if `~Shared`: `DiskSize` is called only while nobody uses the disk. That line is the
code's: `DiskSize` takes no lock, and with `Shared` `RequestsTaken` fails (see 5). The invariant `DiskInv` says that the holder of the lock is the only one in the middle
of a call (`Exclusive`), those who wait are in line once (`LockInLine`), a request, its
completion and the call that waits for it belong together (`OneRequest`), and the fields
of the request, which lie over those of its answer, are those of the call in progress
(`CallsInOrder`).

It also proves, for every number of sleepers, lengths of sleep and replacements of processes:

* `SleepersWakeOnTime`: `Spec => []OnTime`,

if no process sleeps twice (`SleepsOnce`), which is again the code's line: an entry that has
been in the queue brings its old link with it (`find_sleep`, `phase4.c:400`). The daemon looks at
the head of the queue only, so the invariant `ClockInv` says that the entries are a list
`q[1], ..., q[n]`, linked and sorted by `endSleep`, of exactly those who sleep
(`QueueSound`), and that the entry of a sleeper is his and a process that has not slept yet
gets a new one (`EntriesSound`). `WalkStops` finds where the walk of
`addToPriorityQueue` ends, `ChainInsert` and `ChainRest` say what the list is with one
entry more or less, and `ChainSorted` that nobody behind the head is due before it.

`ProcessTreeProofs` proves `NoOrphans` for the abstract tree and every set of
PIDs: a process that was not joined has a living parent. Its invariant adds that
`parentOf` has an entry for exactly the known PIDs.

Assumptions: only those the modules state about their constants
(see `RunQueues`, `Kernel`, `Cooperative`, `Mailbox`, `Semaphores`, `SystemCalls`, `SleepQueue`,
`Terminal`, `Disk` and `Drivers`), `~TimeSlicing` and `WakesLiving` for the process tree of phase 1b with
`PrioritiesValid` for its refinement, `PidsFit` for `FunctionsKept`,
`Uninterrupted` for the mailboxes, with the uses of them named above for who waits, `SleepsOnce` for the sleep queue and `~Shared` for the disk.

Only model-checked: the liveness properties (fairness and `ENABLED` are out of the
prover's reach), `SlotIdentity` and `DeadStayDead` with time slices, the latter with dead processes woken by
programs (`kernel_zap`), `DispatchByPriority` and
`DeadlockIsReal` (what the run queues reach; `kernel_zap` has them where no slot is used
twice, and they are lost beyond that, see 5, so that a theorem needs
that premise), the testcases (runs of given programs), and the
properties of waiting for a mailbox beyond the premises above: `ReleaseWakesAll` with many
senders or many receivers and `SentinelKnows` with handlers, as the runs `mailbox_wakeup` and
`mailbox_device` have them.

## 5. What the code does not do

Counterexamples of the runs:

* `find_spawn` (`phase3.c:157`): phase 3 counts PIDs along with the kernel, but the
  kernel skips a slot that is in use when PIDs come round, and counts nothing when the
  table is full, while the shadow entry is made either way. The counters part for good:
  a process finds another's function in the entry for its PID, or none. A `Spawn` whose arguments
  `fork1` refuses does as much at once (`OwnFunction`, `system_calls`).
* `find_sleep` (`phase4.c:400`): an entry put into an empty sleep queue keeps its old
  `next`. With it come entries of processes that no longer sleep: the daemon takes
  one off and waits at its mailbox (217), nothing is counted or woken until that
  process sleeps again, and then its `Sleep` returns at once. `drivers` shows that
  nothing of the kind happens while each process sleeps once.

Others, which were seen by checking a property in a configuration it is not listed
with (the rest of the configuration is that of the run named):

| where | what happens | property and configuration |
|---|---|---|
| `phase1.c:702` (1b) | `quit` unblocks its parent whatever the parent waits for; the comment on line 703 says not when it is "blocked in zapped" | `ZapWaitsForTarget`, `kernel_zap` with `LowLevel` |
| `phase2.c:568` | a receive on a zero-slot mailbox does not unblock the sender that waits there, as `test23.c` expects | `ReceiveMeetsSender`, `mailbox_device` |
| `phase1.c:239` (1a) | `dumpProcesses` follows the null parent of a child that `fork1` rejected | the step `DumpCrashes`, `cooperative` |
| `phase1.c:684` | a clock interrupt takes the CPU from a process that is already `Terminated`; its parent is never woken | `NoLostJoin`, `kernel_zap` with `TimeSlicing = TRUE` and no `zap` |
| `phase1.c:297` | `unblockProc` makes a process that runs `Runnable` and queues it; the dispatcher, which does not count its caller, can then hand the CPU to the sentinel, which reports a deadlock | `DeadlockIsReal`, `kernel_zap` with `WokenStates` all states but `""` and `"Terminated"` |
| `phase1.c:297` | a dead process that is woken goes on behind the end of `quit` | the step `QuitReturns`, `kernel_zap` |
| `phase1.c:297` | a PID whose slot is blank is made `Runnable` and queued, and the switch to it crashes | `DispatchByPriority`, `kernel_zap` with `WokenStates <- States` |
| `phase1.c:722` | a removed node keeps its links and drags its old successors back into the queue | `RemovedIsOffQueue`, `kernel_zap` without `zap` |
| `phase1.c:722`, `567` | a child that `fork1` rejected for its priority is run by way of a stale link, and forks | `ImplementsProcessTree`, `kernel_tree` with priorities 0 and 3 and `MaxPid = 12` |
| `phase1.c:722`, `420` | a stale link puts a child that has quit back into the queue; `join` blanks its slot, `fork1` appends the next process behind it, and the `fork1` after that uses the slot, with null links: the process in between is `Runnable` and in no queue. It is passed over, and when the others have blocked the sentinel reports that "All of the processes have blocked" (455) | `DispatchByPriority` and `DeadlockIsReal`, `kernel_zap` without `zap`, with `LowLevel` and `MaxPid = 7` |
| `phase1.c:435` | `fork1` reads `pidCounter` after interrupts are on again and links another's child | `ForkLinksItsOwnChild`, `kernel_clock` with `fork1`, `quit` |
| `phase1.c:388` | the head of the queue, not the running process, goes to the tail | `SliceSendsRunningToTail`, `kernel_clock` with `fork1`, `blockMe`, `unblockProc` and `SameLevel` |
| `phase1.c:222` | a stale `nextZapNode` closes a zap list to a ring | `QuitLeavesZapList`, `kernel_zap` under `FairSpec` with `fork1`, `quit`, `zap`, `LowLevel`, `MAXPROC = 7`, `MaxPid = 6` |
| `phase2.c:574` | an interrupt between the test for mail and `blockMe` | `NoLostReceiver` without `Uninterrupted`, `mailbox_device` |
| `phase2.c:410` | an interrupt between the search for a slot and its use | `PoolSound` without `Uninterrupted`, `mailbox_device` |
| `phase2.c:452`, `578` | a woken sender, or receiver, is overtaken | `CapacityKept`, and `NoCrash` without its premises, `mailbox_queue` |
| `phase2.c:652` | `MboxCondSend` wakes the receiver before the message is there | `NoCrash` without its premises, `mailbox_queue` |
| `phase2.c:477` | a stale `nextProducerNode` sends a wakeup to a process that does not wait | `NoLostSender` without its premise, `mailbox_wakeup` |
| `phase2.c:599` | the size is read from a slot that is already another's | `SizeIsTheMessages`, `mailbox_queue` with letters of sizes 1 and 2 |
| `phase2.c:442` | the slot of a send to a zero-slot mailbox is never freed | `SlotsAccountedFor`, `mailbox_device` |
| `phase2.c:362` | `MboxRelease` wakes a receiver that queues itself in a mailbox made anew in the same entry, and then drops it from that queue: no send or release wakes it again | `ReleaseWakesAll` and `NoLostReceiver`, `mailbox_wakeup` where 1 receives, 2 makes and releases, 3 makes and sends |
| `phase2.c:359` | `MboxRelease` reads the next in line from the entry of one it has woken; if that process has ended, and another one in its table slot has called phase 2, `getProcess` (215) has made the entry anew without the link, and those behind sleep for ever | `ReleaseWakesAll` without its premise, `mailbox_wakeup` |
| `phase2.c:363` | a process in the queue twice makes the loop of `MboxRelease` endless | `CallsEnd` under `FairSpec`, `mailbox_wakeup` |
| `phase2.c:439` | a zero-slot mailbox released and made anew before the sender it woke runs: null producer | `NoCrash`, `mailbox_wakeup` with `SlotLimits = {0, 1}` |
| `phase1.c:169` | a clock interrupt can hand the CPU to the sentinel, which reports a deadlock, though the interrupted process has not blocked | `DeadlockIsReal`, `kernel_zap` with `TimeSlicing = TRUE` and no `zap` |
| `phase2.c:580` | a receive whose buffer is too small leaves its process in the consumer queue; queued again it points to itself, and the next walk never ends | `SearchesEnd`, `mailbox_device` with `SlotLimits = {1}`, `BufferSizes = {0, 1}` |
| `phase4.c:557` | `Seek` takes the head to be on track 0 for ever, and so does not go back there | `HeadOnTrack`, `drivers` |
| `phase4.c:176` | a key pressed while the terminal is ready sends a second message; the next character goes to a busy terminal | `NoCharLost` without its premise, `drivers` |
| `phase4.c:742` | `DiskSize` takes no lock: its request is lost at a busy disk, and it takes another's completion | `RequestsTaken`, `drivers` with `Shared = TRUE` |
| `phase4.c:460` | `TermWrite` writes up to the null character and ignores `bufferSize`, "number of characters to write" (`phase4_usermode.c:83`) | seen by reading; the model's texts have a length only |

## 6. Plan

1. Proofs: what phase 1b's run queues reach while no slot is used twice
   (`DispatchByPriority`, `DeadlockIsReal`); `ReleaseWakesAll` for a
   queue of many, by lists of processes as those of the messages.
2. `Terminal` and `Disk` over an instance of `MailQueue` in place of queues of their
   own.
3. A finer grain for `addToQueue` and `removeNode`, with a clock interrupt between
   two writes of links.
4. The testcases of phase 2, run over `Mailbox` with priorities.
