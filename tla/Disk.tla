--------------------------------- MODULE Disk ---------------------------------
(***************************************************************************)
(* The disk driver of phase4a/phase4.c, for one unit: DiskRead and         *)
(* DiskWrite hold a lock while they ask the disk for one seek and one      *)
(* transfer per sector, and wait for the daemon to say that it is done;    *)
(* DiskSize asks the disk without the lock.                                *)
(*                                                                         *)
(* System calls run with interrupts off: a process in a call (run "call")  *)
(* goes on until it blocks or returns.  The daemon has priority 1 and      *)
(* never blocks but in waitDevice: the disk's interrupt and what the       *)
(* daemon does about it are one step.  The mailboxes (the prebuilt         *)
(* libphase2.a) serve those who wait in turn.  The disk (libusloss) does   *)
(* one request at a time, ignores one that comes meanwhile, and fails only *)
(* when told to seek a track it does not have.                             *)
(***************************************************************************)
EXTENDS Integers, Sequences, FiniteSets

CONSTANTS
    Procs,
    NumTracks,
    NumSectors,     \* of a track: 16 in the code
    Tracks,         \* the tracks that DiskRead and DiskWrite are called with
    Counts,         \* their number of sectors
    Shared,         \* is DiskSize called while others use the disk?
    MaxCalls        \* bound: the calls of a process

DiskAssumption ==
    /\ NumTracks \in Nat \ {0} /\ NumSectors \in Nat \ {0}
    /\ Tracks \subseteq Int /\ Counts \subseteq Nat \ {0}
    /\ Shared \in BOOLEAN /\ MaxCalls \in Nat

VARIABLES
    diskLock,     \* DISK_LOCK: who has it, then who waits for it
    complete,     \* is there a message in DISK_MBOX?
    waiting,      \* who waits at DISK_MBOX
    status,       \* disks[unit].status: a result, or what a request left there
    isComplete,   \* disks[unit].isComplete
    disk,         \* the device
    caller,       \* process -> its call
    aborted,      \* has the assertion of ourDiskRead failed?
    seekFailed    \* has a seek failed?

diskVars == <<diskLock, complete, waiting, status, isComplete, disk, caller,
              aborted, seekFailed>>

Operations == {"read", "write", "seek", "tracks"}
Nobody == 0

\* The device: the request it is at, none if op is "idle"; where its head is.
Device == [op : Operations \cup {"idle"}, track : Int, sector : Nat,
           by : Procs \cup {Nobody}, head : 0 .. NumTracks - 1]

\* Outside; in a call; waiting for the lock, or for the disk; given one of
\* them, and about to go on.
Runs == {"user", "call", "lock", "disk", "has_lock", "has_disk"}
\* Where it is: before a turn of the loop, after a seek, after a transfer,
\* after the request for the number of tracks.
Places == {"loop", "sought", "moved", "sized"}
Caller == [run : Runs, at : Places, op : {"read", "write", "tracks"},
           track : Int, first : 0 .. NumSectors - 1, count : Nat,
           i : Nat, curTrack : Int, curSector : 0 .. NumSectors - 1,
           done : Seq(Int \X Nat), refused : BOOLEAN, calls : 0 .. MaxCalls]

Init ==
    /\ diskLock = <<>>
    /\ complete = FALSE
    /\ waiting = <<>>
    /\ status = "none"
    /\ isComplete = FALSE
    /\ disk = [op |-> "idle", track |-> 0, sector |-> 0, by |-> Nobody, head |-> 0]
    /\ caller = [p \in Procs |->
          [run |-> "user", at |-> "loop", op |-> "tracks", track |-> 0, first |-> 0,
           count |-> 0, i |-> 0, curTrack |-> 0, curSector |-> 0, done |-> <<>>,
           refused |-> FALSE, calls |-> 0]]
    /\ aborted = FALSE
    /\ seekFailed = FALSE

-----------------------------------------------------------------------------
\* Nobody is in a call: interrupts are on.
Interruptible == \A p \in Procs : caller[p].run # "call"

MayCall(p) ==
    ~aborted /\ Interruptible /\ caller[p].run = "user" /\ caller[p].calls < MaxCalls

\* p is at this place and on the CPU, or gets it.
Goes(p, place) ==
    /\ ~aborted
    /\ caller[p].at = place
    /\ \/ caller[p].run = "call"
       \/ caller[p].run \in {"has_lock", "has_disk"} /\ Interruptible

\* USLOSS_DeviceOutput of a request and MboxRecv from DISK_MBOX: p, now the
\* record c, goes on at a place if there is a message already.
Request(p, c, op, track, sector, place) ==
    LET busy == disk.op # "idle"
    IN  /\ disk' = IF busy THEN disk
                   ELSE [disk EXCEPT !.op = op, !.track = track, !.sector = sector,
                                     !.by = p]
        /\ complete' = FALSE
        /\ waiting' = IF complete THEN waiting ELSE Append(waiting, p)
        /\ caller' = [caller EXCEPT ![p] =
              [c EXCEPT !.run = IF complete THEN "call" ELSE "disk", !.at = place,
                        !.refused = @ \/ busy]]

\* Slip: no unlock.
UnlockAndReturn_NoUnlock(p) ==
    /\ caller' = [caller EXCEPT ![p].run = "user"]
    /\ UNCHANGED diskLock

\* Slip: the lock is passed on, its new owner not woken.
UnlockAndReturn_WakesNobody(p) ==
    /\ diskLock' = Tail(diskLock)
    /\ caller' = [caller EXCEPT ![p].run = "user"]

\* p gives the lock to the first who waits for it, and returns.
UnlockAndReturn(p) ==
    /\ diskLock' = Tail(diskLock)
    /\ caller' = [q \in Procs |->
          IF q = p THEN [caller[q] EXCEPT !.run = "user"]
          ELSE IF diskLock' # <<>> /\ q = Head(diskLock')
          THEN [caller[q] EXCEPT !.run = "has_lock"] ELSE caller[q]]

\* Unless the disk is shared, DiskSize has it to itself.
Asking(p) == caller[p].at = "sized" /\ caller[p].run # "user"
Using(p) == caller[p].at # "sized" /\ caller[p].run \notin {"user", "lock"}

-----------------------------------------------------------------------------
\* Slip: a conditional send.
lockDisk_NeverWaits == "call"

\* The lock is had by who has sent to its only slot.
lockDisk == IF diskLock = <<>> THEN "call" ELSE "lock"

\* What ourDiskRead and ourDiskWrite do, up to lockDisk.
BeginTransfer(p, op, track, first, count) ==
    /\ MayCall(p)
    /\ Shared \/ \A q \in Procs : ~Asking(q)
    /\ diskLock' = Append(diskLock, p)
    /\ caller' = [caller EXCEPT ![p] =
          [run |-> lockDisk, at |-> "loop",
           op |-> op, track |-> track, first |-> first, count |-> count, i |-> 0,
           curTrack |-> track, curSector |-> first, done |-> <<>>,
           refused |-> FALSE, calls |-> @.calls + 1]]
    /\ UNCHANGED <<complete, waiting, status, isComplete, disk, aborted, seekFailed>>

ourDiskRead(p, track, first, count) == BeginTransfer(p, "read", track, first, count)

ourDiskWrite(p, track, first, count) == BeginTransfer(p, "write", track, first, count)

\* The request for one sector.  Its record is laid over disks[unit]: reg1, the
\* sector, over status and isComplete.
Transfer(p) ==
    LET c == caller[p]
    IN  /\ Request(p, c, c.op, c.curTrack, c.curSector, "moved")
        /\ status' = "sector"
        /\ isComplete' = FALSE
        /\ UNCHANGED <<diskLock, aborted, seekFailed>>

\* Seek does nothing for DISK_TRACK, which is 0 and stays so; what it returns
\* then, the value compared, is not USLOSS_DEV_ERROR.
Seek(p) ==
    /\ Goes(p, "loop")
    /\ caller[p].i < caller[p].count
    /\ IF caller[p].curTrack = 0 THEN Transfer(p)
       ELSE /\ Request(p, caller[p], "seek", caller[p].curTrack, 0, "sought")
            /\ UNCHANGED <<diskLock, status, isComplete, aborted, seekFailed>>

\* A failed seek ends the call, which keeps the lock.
Sought(p) ==
    /\ Goes(p, "sought")
    /\ IF status = "error"
       THEN /\ caller' = [caller EXCEPT ![p].run = "user"]
            /\ seekFailed' = TRUE
            /\ UNCHANGED <<diskLock, complete, waiting, status, isComplete, disk, aborted>>
       ELSE Transfer(p)

\* Slip: the next track is forgotten.
Advance_SameTrack(c) ==
    [c EXCEPT !.run = "call", !.at = "loop", !.i = @ + 1,
              !.curSector = IF @ = NumSectors - 1 THEN 0 ELSE @ + 1]

\* The next sector, and after the last of a track the next track.
Advance(c) ==
    LET last == c.curSector = NumSectors - 1
    IN  [c EXCEPT !.run = "call", !.at = "loop", !.i = @ + 1,
                  !.curSector = IF last THEN 0 ELSE @ + 1,
                  !.curTrack = IF last THEN @ + 1 ELSE @]

\* After a transfer.  ourDiskRead asserts that it is complete; otherwise the
\* program ends.
ReadMoved(p) ==
    /\ Goes(p, "moved")
    /\ caller[p].op = "read"
    /\ aborted' = ~isComplete
    /\ isComplete' = FALSE
    /\ caller' = [caller EXCEPT ![p] = Advance(@)]
    /\ UNCHANGED <<diskLock, complete, waiting, status, disk, seekFailed>>

WriteMoved(p) ==
    /\ Goes(p, "moved")
    /\ caller[p].op = "write"
    /\ isComplete' = FALSE
    /\ caller' = [caller EXCEPT ![p] = Advance(@)]
    /\ UNCHANGED <<diskLock, complete, waiting, status, disk, aborted, seekFailed>>

TransferReturns(p) ==
    /\ Goes(p, "loop")
    /\ caller[p].i = caller[p].count
    /\ UnlockAndReturn(p)
    /\ UNCHANGED <<complete, waiting, status, isComplete, disk, aborted, seekFailed>>

ourDiskSize(p) ==
    /\ MayCall(p)
    /\ Shared \/ \A q \in Procs : ~Asking(q) /\ ~Using(q)
    /\ Request(p, [caller[p] EXCEPT !.op = "tracks", !.refused = FALSE, !.done = <<>>,
                                    !.calls = @ + 1], "tracks", 0, 0, "sized")
    /\ UNCHANGED <<diskLock, status, isComplete, aborted, seekFailed>>

SizeReturns(p) ==
    /\ Goes(p, "sized")
    /\ caller' = [caller EXCEPT ![p].run = "user"]
    /\ UNCHANGED <<diskLock, complete, waiting, status, isComplete, disk, aborted, seekFailed>>

-----------------------------------------------------------------------------
\* isComplete is set after a success, and left alone after a failure.
Completed(failed) == isComplete \/ ~failed

\* The disk is done with its request, and the daemon says so: to the first who
\* waits, or into the only slot of DISK_MBOX.
diskDaemon ==
    LET failed  == disk.op = "seek" /\ disk.track \notin 0 .. NumTracks - 1
        moved   == disk.op \in {"read", "write"}
        awakes(q) == waiting # <<>> /\ q = Head(waiting)
    IN  /\ ~aborted
        /\ Interruptible
        /\ disk.op # "idle"
        /\ disk' = [disk EXCEPT !.op = "idle", !.by = Nobody,
                        !.head = IF disk.op = "seek" /\ ~failed THEN disk.track ELSE @]
        /\ status' = IF failed THEN "error" ELSE "ready"
        /\ isComplete' = Completed(failed)
        /\ complete' = (complete \/ waiting = <<>>)
        /\ waiting' = IF waiting = <<>> THEN waiting ELSE Tail(waiting)
        /\ caller' = [q \in Procs |-> [caller[q] EXCEPT
              !.run = IF awakes(q) THEN "has_disk" ELSE @,
              !.done = IF moved /\ q = disk.by THEN Append(@, <<disk.head, disk.sector>>)
                       ELSE @]]
        /\ UNCHANGED <<diskLock, aborted, seekFailed>>

Next ==
    \/ \E p \in Procs, track \in Tracks, first \in 0 .. NumSectors - 1, n \in Counts :
            \/ ourDiskRead(p, track, first, n)
            \/ ourDiskWrite(p, track, first, n)
    \/ \E p \in Procs : Seek(p)
    \/ \E p \in Procs : Sought(p)
    \/ \E p \in Procs : ReadMoved(p)
    \/ \E p \in Procs : WriteMoved(p)
    \/ \E p \in Procs : TransferReturns(p)
    \/ \E p \in Procs : ourDiskSize(p)
    \/ \E p \in Procs : SizeReturns(p)
    \/ diskDaemon

\* The disk does what it is asked, and processes that can go on do.
Progress ==
    \/ diskDaemon
    \/ \E p \in Procs : Seek(p) \/ Sought(p) \/ ReadMoved(p) \/ WriteMoved(p)
                                \/ TransferReturns(p) \/ SizeReturns(p)

Spec == Init /\ [][Next]_diskVars /\ WF_diskVars(Progress)

-----------------------------------------------------------------------------
\* Where the k-th sector of a call should be, counted from the disk's first.
Address(c, k) == c.track * NumSectors + c.first + k - 1

\* Each transfer of a call moves the next sector, on the right track, whatever
\* others ask the disk for between two of them: the lock covers the seek and
\* the transfer.  Track 0 is left out, to which Seek does not go.
SectorsInOrder ==
    \A p \in Procs : \A k \in 1 .. Len(caller[p].done) :
        LET at == caller[p].done[k]
        IN  /\ at[2] = Address(caller[p], k) % NumSectors
            /\ \/ at[1] = Address(caller[p], k) \div NumSectors
               \/ Address(caller[p], k) \div NumSectors = 0

\* The disk's head is on the track that was asked for ("Seek disk head to
\* track", phase4.c:555), track 0 like any other.
HeadOnTrack ==
    \A p \in Procs : \A k \in 1 .. Len(caller[p].done) :
        caller[p].done[k][1] = Address(caller[p], k) \div NumSectors

\* No request comes while the disk is busy and is lost, and who is told that
\* the disk is done is the one whose request it was.
RequestsTaken ==
    /\ \A p \in Procs : ~caller[p].refused
    /\ Len(waiting) <= 1
    /\ disk.op # "idle" => waiting = <<disk.by>>

\* A lock whose owner is gone was left behind by a failed seek, nothing else.
LockGivenBack ==
    diskLock # <<>> /\ caller[Head(diskLock)].run = "user" => seekFailed

\* assert(disks[unit].isComplete == 1) in ourDiskRead holds, although every
\* request overwrites it.
AssertionHolds == ~aborted

\* Every call returns, as long as no seek has failed.
CallsEnd ==
    \A p \in Procs : caller[p].run # "user" ~> (caller[p].run = "user" \/ seekFailed)
=============================================================================
