----------------------------- MODULE DriverProofs -----------------------------
(***************************************************************************)
(* Proofs about the disk and the clock driver, for any number of processes *)
(* and any size of the disk: as long as DiskSize is not called while       *)
(* others use the disk, transfers are made in order and locks come back;   *)
(* as long as no process sleeps twice, sleepers wake up on time.           *)
(***************************************************************************)
EXTENDS Drivers, SequenceTheorems, FiniteSetTheorems, WellFoundedInduction, TLAPS

-----------------------------------------------------------------------------
(***************************************************************************)
(* The disk driver.                                                        *)
(***************************************************************************)
\* p is in a call, and does not wait for the lock.
Busy(p) == caller[p].run \notin {"user", "lock"}

\* It has the lock, too, unless it asks for the number of tracks.
Moving(p) == Busy(p) /\ caller[p].at # "sized"

DiskTypes ==
    /\ diskLock \in Seq(Procs)
    /\ waiting \in Seq(Procs)
    /\ complete \in BOOLEAN /\ isComplete \in BOOLEAN
    /\ disk \in Dsk!Device
    /\ caller \in [Procs -> Dsk!Caller]
    /\ aborted \in BOOLEAN /\ seekFailed \in BOOLEAN

\* DISK_LOCK: one process at a time uses the disk, the first of those who have
\* sent to the mailbox; the others wait, each in one place.
Exclusive == \A p, q \in Procs : Busy(p) /\ Busy(q) => p = q

LockInLine ==
    /\ \A p \in Procs : Moving(p) => diskLock # <<>> /\ diskLock[1] = p
    /\ diskLock # <<>> => seekFailed \/ Moving(diskLock[1])
    /\ \A i \in 2 .. Len(diskLock) : caller[diskLock[i]].run = "lock"
    /\ \A i, j \in 2 .. Len(diskLock) : diskLock[i] = diskLock[j] => i = j

\* DISK_MBOX: whoever waits there waits for its own request, and there is no
\* message that nobody waits for.
OneRequest ==
    /\ ~complete
    /\ \A p \in Procs : caller[p].run = "disk" =>
            waiting = <<p>> /\ disk.op # "idle" /\ disk.by = p
    /\ waiting # <<>> => \E p \in Procs : waiting = <<p>> /\ caller[p].run = "disk"
    /\ disk.op # "idle" => waiting # <<>>

\* The k-th transfer of the call c was that of its k-th sector.
InPlace(c, k) ==
    /\ c.done[k][2] = Dsk!Address(c, k) % NumSectors
    /\ \/ c.done[k][1] = Dsk!Address(c, k) \div NumSectors
       \/ Dsk!Address(c, k) \div NumSectors = 0

\* The loop of ourDiskRead and ourDiskWrite: what has been done of the call c,
\* and what comes next.
SoundLoop(c) ==
    /\ c.op \in {"read", "write"}
    /\ c.curTrack * NumSectors + c.curSector = Dsk!Address(c, c.i + 1)
    /\ Len(c.done) = IF c.run = "has_disk" /\ c.at = "moved" THEN c.i + 1 ELSE c.i

SoundCall(c) ==
    /\ ~c.refused
    /\ \A k \in 1 .. Len(c.done) : InPlace(c, k)
    /\ c.run \in {"call", "lock", "has_lock"} => c.at = "loop"
    /\ c.run \in {"disk", "has_disk"} => c.at # "loop"
    /\ c.run # "user" /\ c.at # "sized" => SoundLoop(c)

\* What the disk does for the call c, or has done.
Served(c) ==
    /\ c.run = "disk" =>
        /\ c.at = "sought" => disk.op = "seek" /\ disk.track = c.curTrack
        /\ c.at = "moved" => /\ disk.op = c.op /\ disk.sector = c.curSector
                             /\ disk.head = c.curTrack \/ c.curTrack = 0
        /\ c.at = "sized" => disk.op = "tracks"
    /\ c.run = "has_disk" =>
        /\ c.at = "sought" => status = "error" \/ disk.head = c.curTrack
        /\ c.at = "moved" => isComplete

CallsInOrder == \A p \in Procs : SoundCall(caller[p]) /\ Served(caller[p])

DiskInv ==
    /\ DiskTypes
    /\ Exclusive
    /\ LockInLine
    /\ OneRequest
    /\ CallsInOrder
    /\ ~aborted

-----------------------------------------------------------------------------
\* Sectors and tracks.
LEMMA DivMod ==
    ASSUME NEW N \in Nat \ {0}, NEW t \in Int, NEW s \in 0 .. N - 1
    PROVE  (t * N + s) % N = s /\ (t * N + s) \div N = t
  OBVIOUS

\* What is assumed of the constants.
LEMMA DiskConstants ==
    /\ NumTracks \in Nat \ {0} /\ NumSectors \in Nat \ {0}
    /\ Tracks \subseteq Int /\ Counts \subseteq Nat \ {0}
    /\ Shared \in BOOLEAN /\ MaxCalls \in Nat
  BY DriversAssumption DEF Dsk!DiskAssumption

\* Nobody is in a call at the start.
LEMMA DiskInit == Dsk!Init => DiskInv
<1> SUFFICES ASSUME Dsk!Init PROVE DiskInv
  OBVIOUS
<1> USE DEF Dsk!Init
<1>1. DiskTypes
  <2>1. disk \in Dsk!Device
    BY DiskConstants DEF Dsk!Device, Dsk!Operations, Dsk!Nobody
  <2>2. caller \in [Procs -> Dsk!Caller]
    BY DiskConstants, EmptySeq DEF Dsk!Caller, Dsk!Runs, Dsk!Places
  <2> QED
    BY <2>1, <2>2, EmptySeq DEF DiskTypes
<1>2. Exclusive
  BY DEF Exclusive, Busy
<1>3. LockInLine
  BY DEF LockInLine, Moving, Busy
<1>4. OneRequest
  BY DEF OneRequest
<1>5. CallsInOrder
  BY DEF CallsInOrder, SoundCall, Served
<1> QED
  BY <1>1, <1>2, <1>3, <1>4, <1>5 DEF DiskInv

-----------------------------------------------------------------------------
\* Who moves while p has the disk or the lock: nobody.
Alone(p) == \A q \in Procs : Busy(q) => q = p

\* A step of p that rewrites p's call and no other: the calls of the others,
\* who are outside or in line, are as sound as before.
LEMMA OthersKept ==
    ASSUME DiskInv, NEW p \in Procs, Alone(p),
           NEW d \in Dsk!Caller, caller' = [caller EXCEPT ![p] = d]
    PROVE  /\ caller' \in [Procs -> Dsk!Caller]
           /\ Exclusive'
           /\ caller'[p] = d
           /\ \A q \in Procs \ {p} : /\ caller'[q] = caller[q]
                                     /\ ~Busy(q) /\ ~Busy(q)'
                                     /\ SoundCall(caller[q])' /\ Served(caller[q])'
<1>1. caller' \in [Procs -> Dsk!Caller] /\ caller'[p] = d
  BY DEF DiskInv, DiskTypes
<1>2. ASSUME NEW q \in Procs \ {p}
      PROVE  /\ caller'[q] = caller[q]
             /\ ~Busy(q) /\ ~Busy(q)'
             /\ SoundCall(caller[q])' /\ Served(caller[q])'
  <2>1. caller'[q] = caller[q] /\ caller[q] \in Dsk!Caller
    BY <1>1 DEF DiskInv, DiskTypes
  <2>2. ~Busy(q) /\ ~Busy(q)'
    BY <2>1 DEF Alone, Busy
  <2>3. SoundCall(caller[q])'
    BY <2>1 DEF DiskInv, CallsInOrder, SoundCall, SoundLoop, InPlace, Dsk!Address
  <2>4. Served(caller[q])'
    BY <2>1, <2>2 DEF Busy, Served
  <2> QED
    BY <2>1, <2>2, <2>3, <2>4
<1>3. Exclusive'
  BY <1>2 DEF Exclusive
<1> QED
  BY <1>1, <1>2, <1>3

\* The invariant after such a step.
LEMMA OwnStep ==
    ASSUME DiskInv, NEW p \in Procs, Alone(p),
           NEW d \in Dsk!Caller, caller' = [caller EXCEPT ![p] = d],
           DiskTypes', LockInLine', OneRequest', ~aborted',
           SoundCall(caller[p])', Served(caller[p])'
    PROVE  DiskInv'
<1>1. CallsInOrder'
  BY OthersKept DEF CallsInOrder
<1> QED
  BY <1>1, OthersKept DEF DiskInv

\* A request of p, which uses the disk already or is about to, is taken: the disk
\* is idle, and p waits for it alone.
LEMMA RequestTaken ==
    ASSUME DiskInv, NEW p \in Procs, Alone(p),
           caller[p].run \notin {"disk", "lock"},
           NEW c \in Dsk!Caller, ~c.refused,
           NEW op \in Dsk!Operations, NEW track \in Int, NEW sector \in Nat,
           NEW place \in {"sought", "moved", "sized"},
           place # "sized" <=> Moving(p),
           Dsk!Request(p, c, op, track, sector, place),
           UNCHANGED <<diskLock, aborted, seekFailed>>, isComplete' \in BOOLEAN
    PROVE  LET d == [c EXCEPT !.run = "disk", !.at = place]
           IN  /\ d \in Dsk!Caller
               /\ caller' = [caller EXCEPT ![p] = d]
               /\ disk' = [disk EXCEPT !.op = op, !.track = track, !.sector = sector,
                                       !.by = p]
               /\ DiskTypes' /\ LockInLine' /\ OneRequest'
<1> DEFINE d == [c EXCEPT !.run = "disk", !.at = place]
<1>1. disk.op = "idle" /\ waiting = <<>> /\ ~complete
  <2>1. \A q \in Procs : caller[q].run # "disk"
    BY DEF Alone, Busy
  <2> QED
    BY <2>1 DEF DiskInv, OneRequest
<1>2. d \in Dsk!Caller /\ d.run = "disk" /\ d.at = place
  BY DEF Dsk!Caller, Dsk!Runs, Dsk!Places
<1>3. caller' = [caller EXCEPT ![p] = d]
  <2>1. d = [c EXCEPT !.run = "disk", !.at = place, !.refused = c.refused \/ FALSE]
    BY DEF Dsk!Caller
  <2> QED
    BY <1>1, <2>1 DEF Dsk!Request
<1>4. /\ disk' = [disk EXCEPT !.op = op, !.track = track, !.sector = sector, !.by = p]
      /\ ~complete' /\ waiting' = <<p>>
  BY <1>1 DEF Dsk!Request
<1> HIDE DEF d
<1>5. DiskTypes'
  <2>1. disk' \in Dsk!Device
    BY <1>4 DEF DiskInv, DiskTypes, Dsk!Device
  <2>2. waiting' \in Seq(Procs)
    BY <1>4
  <2>3. caller' \in [Procs -> Dsk!Caller]
    BY <1>2, <1>3 DEF DiskInv, DiskTypes
  <2>4. complete' \in BOOLEAN
    BY DEF DiskInv, DiskTypes, Dsk!Request
  <2> QED
    BY <2>1, <2>2, <2>3, <2>4 DEF DiskInv, DiskTypes
<1>6. LockInLine'
  <2>1. \A i \in 2 .. Len(diskLock) : diskLock[i] \in Procs \ {p}
    BY ElementOfSeq, LenProperties DEF DiskInv, DiskTypes, LockInLine
  <2>2. Moving(p)' <=> place # "sized"
    BY <1>2, <1>3, OthersKept DEF Moving, Busy
  <2>3. \A q \in Procs \ {p} : ~Moving(q) /\ ~Moving(q)' /\ caller'[q] = caller[q]
    BY <1>2, <1>3, OthersKept DEF Moving
  <2>4. diskLock # <<>> => diskLock[1] \in Procs
    BY ElementOfSeq, LenProperties, EmptySeq DEF DiskInv, DiskTypes
  <2> QED
    BY <2>1, <2>2, <2>3, <2>4 DEF DiskInv, LockInLine
<1>7. OneRequest'
  <2>1. \A q \in Procs : caller'[q].run = "disk" => q = p
    BY <1>2, <1>3, OthersKept DEF Busy
  <2>2. caller'[p].run = "disk"
    BY <1>2, <1>3, OthersKept
  <2>3. disk'.op = op /\ disk'.by = p /\ op # "idle"
    BY <1>4 DEF DiskInv, DiskTypes, Dsk!Device, Dsk!Operations
  <2> QED
    BY <1>4, <2>1, <2>2, <2>3 DEF OneRequest
<1> QED
  BY <1>2, <1>3, <1>4, <1>5, <1>6, <1>7 DEF d


\* BeginTransfer: the caller becomes the owner of a free lock, or the last in line.
LEMMA BeginKeeps ==
    ASSUME DiskInv, ~Shared, NEW p \in Procs, NEW op \in {"read", "write"},
           NEW track \in Tracks, NEW first \in 0 .. NumSectors - 1, NEW n \in Counts,
           Dsk!BeginTransfer(p, op, track, first, n)
    PROVE  DiskInv'
<1> DEFINE d == [run |-> Dsk!lockDisk, at |-> "loop",
                 op |-> op, track |-> track, first |-> first, count |-> n, i |-> 0,
                 curTrack |-> track, curSector |-> first, done |-> <<>>,
                 refused |-> FALSE, calls |-> caller[p].calls + 1]
<1>1. /\ caller[p].run = "user" /\ caller[p].calls < MaxCalls
      /\ \A q \in Procs : ~Dsk!Asking(q)
      /\ diskLock' = Append(diskLock, p)
      /\ caller' = [caller EXCEPT ![p] = d]
      /\ UNCHANGED <<complete, waiting, status, isComplete, disk, aborted, seekFailed>>
  BY DEF Dsk!BeginTransfer, Dsk!MayCall
<1>2. d \in Dsk!Caller /\ d.run = (IF diskLock = <<>> THEN "call" ELSE "lock")
  <2>1. caller[p] \in Dsk!Caller
    BY DEF DiskInv, DiskTypes
  <2>2. caller[p].calls + 1 \in 0 .. MaxCalls
    <3>1. caller[p].calls \in 0 .. MaxCalls /\ caller[p].calls < MaxCalls
      BY <1>1, <2>1 DEF Dsk!Caller
    <3>2. MaxCalls \in Nat
      BY DiskConstants
    <3> QED
      BY <3>1, <3>2
  <2>3. <<>> \in Seq(Int \X Nat)
    BY EmptySeq
  <2> QED
    BY <2>2, <2>3, DiskConstants DEF Dsk!Caller, Dsk!Runs, Dsk!Places, Dsk!lockDisk
<1>3. /\ d.at = "loop" /\ d.op = op /\ d.i = 0 /\ d.done = <<>> /\ ~d.refused
      /\ d.curTrack = d.track /\ d.curSector = d.first
  OBVIOUS
<1> HIDE DEF d
<1>4. /\ caller' \in [Procs -> Dsk!Caller]
      /\ caller'[p] = d
      /\ \A q \in Procs \ {p} : caller'[q] = caller[q]
  BY <1>1, <1>2 DEF DiskInv, DiskTypes
<1>5. \A q \in Procs : Busy(q) => Moving(q) /\ diskLock # <<>>
  BY <1>1 DEF Busy, Moving, Dsk!Asking, DiskInv, LockInLine
<1>6. DiskTypes'
  BY <1>1, <1>4 DEF DiskInv, DiskTypes
<1>7. Exclusive'
  BY <1>2, <1>3, <1>4, <1>5 DEF Busy, DiskInv, Exclusive
<1>8. LockInLine'
  <2>1. /\ diskLock \in Seq(Procs) /\ Len(diskLock) \in Nat
        /\ Len(diskLock') = Len(diskLock) + 1
        /\ \A i \in 1 .. Len(diskLock) : diskLock'[i] = diskLock[i] /\ diskLock[i] \in Procs
        /\ diskLock'[Len(diskLock) + 1] = p
        /\ diskLock' # <<>>
        /\ diskLock # <<>> <=> Len(diskLock) # 0
    BY <1>1, LenProperties, AppendProperties, ElementOfSeq, EmptySeq DEF DiskInv, DiskTypes
  <2>2. \A i \in 2 .. Len(diskLock) : diskLock[i] # p
    BY <1>1, <2>1 DEF DiskInv, LockInLine
  <2>3. ~Moving(p)
    BY <1>1 DEF Moving, Busy
  <2>4. \A q \in Procs \ {p} : Moving(q)' <=> Moving(q)
    BY <1>4 DEF Moving, Busy
  <2>5. CASE diskLock = <<>>
    <3>1. Moving(p)' /\ Len(diskLock) = 0
      BY <1>2, <1>3, <1>4, <2>1, <2>5 DEF Moving, Busy
    <3> QED
      BY <2>1, <2>4, <2>5, <3>1 DEF DiskInv, LockInLine
  <2>6. CASE diskLock # <<>>
    <3>1. caller'[p].run = "lock" /\ ~Moving(p)'
      BY <1>2, <1>4, <2>6 DEF Moving, Busy
    <3>2. Len(diskLock) >= 1 /\ diskLock'[1] = diskLock[1] /\ diskLock[1] \in Procs
      BY <2>1, <2>6
    <3>3. \A q \in Procs : Moving(q)' => diskLock'[1] = q
      BY <2>4, <3>1, <3>2 DEF DiskInv, LockInLine
    <3>4. seekFailed' \/ Moving(diskLock[1])'
      BY <1>1, <2>3, <2>4, <2>6, <3>2 DEF DiskInv, LockInLine
    <3>5. \A i \in 2 .. Len(diskLock') : caller'[diskLock'[i]].run = "lock"
      <4>1. \A i \in 2 .. Len(diskLock) : caller'[diskLock'[i]].run = "lock"
        BY <1>4, <2>1, <2>2 DEF DiskInv, LockInLine
      <4> QED
        BY <2>1, <3>1, <4>1
    <3>6. \A i, j \in 2 .. Len(diskLock') : diskLock'[i] = diskLock'[j] => i = j
      BY <2>1, <2>2 DEF DiskInv, LockInLine
    <3> QED
      BY <2>1, <3>2, <3>3, <3>4, <3>5, <3>6 DEF LockInLine, Moving, Busy
  <2> QED
    BY <2>5, <2>6
<1>9. OneRequest'
  BY <1>1, <1>2, <1>4 DEF DiskInv, OneRequest
<1>10. CallsInOrder'
  <2>1. SoundCall(caller[p])' /\ Served(caller[p])'
    <3>1. Dsk!Address(d, d.i + 1) = d.track * NumSectors + d.first
      BY <1>2, <1>3, DiskConstants DEF Dsk!Address, Dsk!Caller
    <3>2. SoundLoop(d)
      BY <1>2, <1>3, <3>1, EmptySeq DEF SoundLoop
    <3>3. SoundCall(d)
      BY <1>2, <1>3, <3>2, EmptySeq DEF SoundCall
    <3>4. SoundCall(caller[p])'
      BY <1>4, <3>3 DEF SoundCall, SoundLoop, InPlace, Dsk!Address
    <3> QED
      BY <1>2, <1>4, <3>4 DEF Served
  <2>2. ASSUME NEW q \in Procs \ {p}
        PROVE  SoundCall(caller[q])' /\ Served(caller[q])'
    <3>1. caller'[q] = caller[q] /\ SoundCall(caller[q]) /\ Served(caller[q])
      BY <1>4 DEF DiskInv, CallsInOrder
    <3>2. SoundCall(caller[q])'
      BY <3>1 DEF SoundCall, SoundLoop, InPlace, Dsk!Address
    <3>3. Served(caller[q])'
      BY <1>1, <3>1 DEF Served
    <3> QED
      BY <3>2, <3>3
  <2> QED
    BY <2>1, <2>2 DEF CallsInOrder
<1> QED
  BY <1>1, <1>6, <1>7, <1>8, <1>9, <1>10 DEF DiskInv

\* A process that goes on in a call is the only one, and its call is sound.
LEMMA GoesOn ==
    ASSUME DiskInv, NEW p \in Procs, NEW place, Dsk!Goes(p, place)
    PROVE  /\ caller[p] \in Dsk!Caller
           /\ caller[p].at = place
           /\ caller[p].run \in {"call", "has_lock", "has_disk"}
           /\ Busy(p) /\ Alone(p)
           /\ SoundCall(caller[p]) /\ Served(caller[p])
           /\ place # "sized" => Moving(p) /\ SoundLoop(caller[p])
<1>1. caller[p] \in Dsk!Caller /\ SoundCall(caller[p]) /\ Served(caller[p])
  BY DEF DiskInv, DiskTypes, CallsInOrder
<1>2. caller[p].at = place /\ caller[p].run \in {"call", "has_lock", "has_disk"}
  BY DEF Dsk!Goes
<1>3. Busy(p) /\ Alone(p)
  BY <1>2 DEF Busy, Alone, DiskInv, Exclusive
<1> QED
  BY <1>1, <1>2, <1>3 DEF Moving, SoundCall

\* What the invariant says of a call is said in terms of the record only.
LEMMA SameCall ==
    ASSUME NEW p \in Procs, NEW d, caller'[p] = d, SoundCall(d)
    PROVE  SoundCall(caller[p])'
  BY DEF SoundCall, SoundLoop, InPlace, Dsk!Address

\* A step of p that leaves the mailboxes and the device alone, p having what it
\* waited for.
LEMMA NoRequest ==
    ASSUME DiskInv, NEW p \in Procs, Alone(p), caller[p].run # "disk",
           NEW d \in Dsk!Caller, d.run # "disk", caller' = [caller EXCEPT ![p] = d],
           UNCHANGED <<complete, waiting, disk>>
    PROVE  OneRequest'
<1>1. waiting = <<>> /\ ~complete /\ disk.op = "idle"
  BY DEF DiskInv, OneRequest, Alone, Busy
<1>2. \A q \in Procs : caller'[q].run # "disk"
  BY OthersKept DEF Busy
<1> QED
  BY <1>1, <1>2 DEF OneRequest

\* p keeps the lock from one place in its loop to the next.
LEMMA LockKept ==
    ASSUME DiskInv, NEW p \in Procs, Moving(p), Alone(p),
           NEW d \in Dsk!Caller, caller' = [caller EXCEPT ![p] = d],
           d.run \notin {"user", "lock"}, d.at # "sized",
           UNCHANGED <<diskLock, seekFailed>>
    PROVE  LockInLine'
<1>1. caller'[p] = d /\ \A q \in Procs \ {p} : caller'[q] = caller[q]
  BY OthersKept
<1>2. \A q \in Procs : Moving(q)' <=> Moving(q)
  BY <1>1 DEF Moving, Busy
<1>3. \A i \in 2 .. Len(diskLock) : diskLock[i] \in Procs \ {p}
  BY ElementOfSeq, LenProperties DEF DiskInv, DiskTypes, LockInLine, Moving, Busy
<1>4. diskLock # <<>> => diskLock[1] \in Procs
  BY ElementOfSeq, LenProperties, EmptySeq DEF DiskInv, DiskTypes
<1> QED
  BY <1>1, <1>2, <1>3, <1>4 DEF DiskInv, LockInLine

-----------------------------------------------------------------------------
\* The request for a sector, when the head is where it should be.
LEMMA TransferKeeps ==
    ASSUME DiskInv, NEW p \in Procs, NEW place \in {"loop", "sought"},
           Dsk!Goes(p, place),
           disk.head = caller[p].curTrack \/ caller[p].curTrack = 0,
           Dsk!Transfer(p)
    PROVE  DiskInv'
<1> DEFINE c == caller[p]
           d == [c EXCEPT !.run = "disk", !.at = "moved"]
<1>1. /\ c \in Dsk!Caller /\ Alone(p) /\ Moving(p) /\ c.run \notin {"disk", "lock"}
      /\ SoundCall(c) /\ SoundLoop(c) /\ c.at = place
  BY GoesOn
<1>2. /\ c.op \in Dsk!Operations /\ c.curTrack \in Int /\ c.curSector \in Nat /\ ~c.refused
      /\ Len(c.done) = c.i
  BY SMTT(30), <1>1, DiskConstants DEF SoundCall, SoundLoop, Dsk!Operations, Dsk!Caller
<1>3. /\ Dsk!Request(p, c, c.op, c.curTrack, c.curSector, "moved")
      /\ isComplete' = FALSE
      /\ UNCHANGED <<diskLock, aborted, seekFailed>>
  BY DEF Dsk!Transfer
<1>4. /\ d \in Dsk!Caller
      /\ caller' = [caller EXCEPT ![p] = d]
      /\ disk' = [disk EXCEPT !.op = c.op, !.track = c.curTrack,
                              !.sector = c.curSector, !.by = p]
      /\ DiskTypes' /\ LockInLine' /\ OneRequest'
  BY <1>1, <1>2, <1>3, RequestTaken
<1>5. caller'[p] = d
  BY <1>4 DEF DiskInv, DiskTypes
<1>6. /\ d.run = "disk" /\ d.at = "moved" /\ d.op = c.op /\ d.i = c.i /\ d.done = c.done
      /\ d.curTrack = c.curTrack /\ d.curSector = c.curSector /\ d.refused = c.refused
      /\ d.track = c.track /\ d.first = c.first
  BY <1>1 DEF Dsk!Caller
<1>7. disk \in Dsk!Device
  BY DEF DiskInv, DiskTypes
<1>8. disk'.op = c.op /\ disk'.sector = c.curSector /\ disk'.head = disk.head
  BY <1>4, <1>7 DEF Dsk!Device
<1> HIDE DEF d
<1>9. SoundCall(d)
  BY <1>1, <1>2, <1>6 DEF SoundCall, SoundLoop, InPlace, Dsk!Address
<1>10. Served(caller[p])'
  BY <1>5, <1>6, <1>8 DEF Served
<1> QED
  BY <1>1, <1>3, <1>4, <1>5, <1>9, <1>10, OwnStep, SameCall DEF DiskInv

\* The arm is asked to seek, by who has the lock.
LEMMA SeekKeeps ==
    ASSUME DiskInv, NEW p \in Procs, Dsk!Seek(p)
    PROVE  DiskInv'
<1>1. Dsk!Goes(p, "loop")
  BY DEF Dsk!Seek
<1>2. CASE caller[p].curTrack = 0
  BY <1>1, <1>2, TransferKeeps DEF Dsk!Seek
<1>3. CASE caller[p].curTrack # 0
  <2> DEFINE c == caller[p]
             d == [c EXCEPT !.run = "disk", !.at = "sought"]
  <2>1. /\ c \in Dsk!Caller /\ Alone(p) /\ Moving(p) /\ c.run \notin {"disk", "lock"}
        /\ SoundCall(c) /\ SoundLoop(c) /\ c.at = "loop"
    BY <1>1, GoesOn
  <2>2. /\ "seek" \in Dsk!Operations /\ c.curTrack \in Int /\ 0 \in Nat /\ ~c.refused
        /\ Len(c.done) = c.i
    BY <2>1, DiskConstants DEF SoundCall, SoundLoop, Dsk!Operations, Dsk!Caller
  <2>3. /\ Dsk!Request(p, c, "seek", c.curTrack, 0, "sought")
        /\ UNCHANGED <<diskLock, status, isComplete, aborted, seekFailed>>
    BY <1>3 DEF Dsk!Seek
  <2>4. isComplete' \in BOOLEAN
    BY <2>3 DEF DiskInv, DiskTypes
  <2>5. /\ d \in Dsk!Caller
        /\ caller' = [caller EXCEPT ![p] = d]
        /\ disk' = [disk EXCEPT !.op = "seek", !.track = c.curTrack, !.sector = 0, !.by = p]
        /\ DiskTypes' /\ LockInLine' /\ OneRequest'
    BY <2>1, <2>2, <2>3, <2>4, RequestTaken
  <2>6. caller'[p] = d
    BY <2>5 DEF DiskInv, DiskTypes
  <2>7. /\ d.run = "disk" /\ d.at = "sought" /\ d.op = c.op /\ d.i = c.i /\ d.done = c.done
        /\ d.curTrack = c.curTrack /\ d.curSector = c.curSector /\ d.refused = c.refused
        /\ d.track = c.track /\ d.first = c.first
    BY <2>1 DEF Dsk!Caller
  <2>8. disk'.op = "seek" /\ disk'.track = c.curTrack
    BY <2>5 DEF DiskInv, DiskTypes, Dsk!Device
  <2> HIDE DEF d
  <2>9. SoundCall(d)
    BY <2>1, <2>2, <2>7 DEF SoundCall, SoundLoop, InPlace, Dsk!Address
  <2>10. Served(caller[p])'
    BY <2>6, <2>7, <2>8 DEF Served
  <2> QED
    BY <2>1, <2>3, <2>5, <2>6, <2>9, <2>10, OwnStep, SameCall DEF DiskInv
<1> QED
  BY <1>2, <1>3

\* After the seek: the head is on its track, or the call fails and keeps the lock.
LEMMA SoughtKeeps ==
    ASSUME DiskInv, NEW p \in Procs, Dsk!Sought(p)
    PROVE  DiskInv'
<1> DEFINE c == caller[p]
<1>1. Dsk!Goes(p, "sought")
  BY DEF Dsk!Sought
<1>2. /\ c \in Dsk!Caller /\ Alone(p) /\ Moving(p) /\ c.at = "sought" /\ c.run = "has_disk"
      /\ SoundCall(c) /\ Served(c)
  BY <1>1, GoesOn DEF SoundCall
<1>3. CASE status # "error"
  BY <1>1, <1>2, <1>3, TransferKeeps DEF Dsk!Sought, Served
<1>4. CASE status = "error"
  <2> DEFINE d == [c EXCEPT !.run = "user"]
  <2>1. /\ caller' = [caller EXCEPT ![p] = d] /\ seekFailed' = TRUE
        /\ UNCHANGED <<diskLock, complete, waiting, status, isComplete, disk, aborted>>
    BY <1>4 DEF Dsk!Sought, DiskInv, DiskTypes
  <2>2. /\ d \in Dsk!Caller /\ d.run = "user" /\ d.done = c.done /\ d.refused = c.refused
        /\ d.track = c.track /\ d.first = c.first
    BY <1>2 DEF Dsk!Caller, Dsk!Runs
  <2> HIDE DEF d
  <2>3. caller'[p] = d /\ \A q \in Procs \ {p} : caller'[q] = caller[q]
    BY <1>2, <2>1, <2>2, OthersKept
  <2>4. DiskTypes'
    BY <1>2, <2>1, <2>2, OthersKept DEF DiskInv, DiskTypes
  <2>5. LockInLine'
    <3>1. \A i \in 2 .. Len(diskLock) : diskLock[i] \in Procs \ {p}
      BY <1>2, ElementOfSeq, LenProperties DEF DiskInv, DiskTypes, LockInLine
    <3>2. \A q \in Procs : ~Moving(q)'
      BY <1>2, <2>2, <2>3 DEF Moving, Busy, Alone
    <3> QED
      BY <2>1, <2>3, <3>1, <3>2 DEF DiskInv, LockInLine
  <2>6. OneRequest'
    BY <1>2, <2>1, <2>2, NoRequest
  <2>7. SoundCall(d)
    BY <1>2, <2>2 DEF SoundCall, InPlace, Dsk!Address
  <2>8. Served(caller[p])'
    BY <2>2, <2>3 DEF Served
  <2> QED
    BY <1>2, <2>1, <2>2, <2>3, <2>4, <2>5, <2>6, <2>7, <2>8, OwnStep, SameCall DEF DiskInv
<1> QED
  BY <1>3, <1>4

\* The next sector of a call, on the next track after the last one.
LEMMA AdvanceInOrder ==
    ASSUME NEW c \in Dsk!Caller, SoundCall(c), c.run = "has_disk", c.at = "moved"
    PROVE  /\ Dsk!Advance(c) \in Dsk!Caller
           /\ Dsk!Advance(c).run = "call" /\ Dsk!Advance(c).at = "loop"
           /\ SoundCall(Dsk!Advance(c))
<1> DEFINE last == c.curSector = NumSectors - 1
           d == Dsk!Advance(c)
<1>1. d = [c EXCEPT !.run = "call", !.at = "loop", !.i = c.i + 1,
                    !.curSector = IF last THEN 0 ELSE c.curSector + 1,
                    !.curTrack = IF last THEN c.curTrack + 1 ELSE c.curTrack]
  BY DEF Dsk!Advance, Dsk!Caller
<1>2. /\ c.curSector \in 0 .. NumSectors - 1 /\ c.curTrack \in Int /\ c.i \in Nat
      /\ c.track \in Int /\ c.first \in 0 .. NumSectors - 1 /\ NumSectors \in Nat \ {0}
  BY DiskConstants DEF Dsk!Caller
<1>3. d \in Dsk!Caller
  <2>1. /\ (IF last THEN 0 ELSE c.curSector + 1) \in 0 .. NumSectors - 1
        /\ (IF last THEN c.curTrack + 1 ELSE c.curTrack) \in Int
        /\ c.i + 1 \in Nat
    BY <1>2
  <2> HIDE DEF last, d
  <2> QED
    BY <1>1, <2>1 DEF Dsk!Caller, Dsk!Runs, Dsk!Places
<1>4. /\ d.run = "call" /\ d.at = "loop" /\ d.i = c.i + 1 /\ d.op = c.op
      /\ d.curSector = (IF last THEN 0 ELSE c.curSector + 1)
      /\ d.curTrack = (IF last THEN c.curTrack + 1 ELSE c.curTrack)
      /\ d.track = c.track /\ d.first = c.first /\ d.done = c.done /\ d.refused = c.refused
  BY <1>1 DEF Dsk!Caller
<1> HIDE DEF d
<1>5. c.curTrack * NumSectors + c.curSector = c.track * NumSectors + c.first + c.i
  BY <1>2 DEF SoundCall, SoundLoop, Dsk!Address
<1>6. d.curTrack * NumSectors + d.curSector = d.track * NumSectors + d.first + d.i
  <2> DEFINE x == c.curTrack * NumSectors
             y == c.track * NumSectors
  <2>1. x \in Int /\ y \in Int /\ x + c.curSector = y + c.first + c.i
    BY <1>2, <1>5
  <2>2. (c.curTrack + 1) * NumSectors = x + NumSectors
    BY <1>2
  <2>3. d.curTrack * NumSectors = IF last THEN x + NumSectors ELSE x
    BY <1>4, <2>2
  <2>4. d.track * NumSectors = y
    BY <1>4
  <2> HIDE DEF x, y
  <2>5. (IF last THEN x + NumSectors ELSE x) + (IF last THEN 0 ELSE c.curSector + 1)
            = y + c.first + (c.i + 1)
    <3>1. /\ c.first \in Int /\ c.i \in Int /\ c.curSector \in Int /\ NumSectors \in Int
          /\ x \in Int /\ y \in Int
      BY <1>2, <2>1
    <3>2. CASE last
      BY <2>1, <3>1, <3>2
    <3>3. CASE ~last
      BY <2>1, <3>1, <3>3
    <3> QED
      BY <3>2, <3>3
  <2> HIDE DEF last
  <2> QED
    BY <1>4, <2>3, <2>4, <2>5
<1>7. SoundLoop(d)
  <2>1. Dsk!Address(d, d.i + 1) = d.track * NumSectors + d.first + d.i
    <3>1. d.track * NumSectors \in Int /\ d.first \in Int /\ d.i \in Int
      BY <1>2, <1>4
    <3> QED
      BY <3>1 DEF Dsk!Address
  <2> QED
    BY <1>4, <1>6, <2>1 DEF SoundCall, SoundLoop
<1>8. SoundCall(d)
  BY <1>4, <1>7 DEF SoundCall, InPlace, Dsk!Address
<1> QED
  BY <1>3, <1>4, <1>8 DEF d

\* After a transfer: it is complete, as ourDiskRead asserts.
LEMMA MovedKeeps ==
    ASSUME DiskInv, NEW p \in Procs, Dsk!ReadMoved(p) \/ Dsk!WriteMoved(p)
    PROVE  DiskInv'
<1> DEFINE c == caller[p]
           d == Dsk!Advance(c)
<1>1. Dsk!Goes(p, "moved")
  BY DEF Dsk!ReadMoved, Dsk!WriteMoved
<1>2. /\ c \in Dsk!Caller /\ Alone(p) /\ Moving(p) /\ c.at = "moved" /\ c.run = "has_disk"
      /\ SoundCall(c) /\ Served(c)
  BY <1>1, GoesOn DEF SoundCall
<1>3. isComplete
  BY <1>2 DEF Served
<1>4. /\ caller' = [caller EXCEPT ![p] = d] /\ isComplete' = FALSE /\ aborted' = FALSE
      /\ UNCHANGED <<diskLock, complete, waiting, status, disk, seekFailed>>
  BY <1>3 DEF Dsk!ReadMoved, Dsk!WriteMoved, DiskInv, DiskTypes
<1>5. d \in Dsk!Caller /\ d.run = "call" /\ d.at = "loop" /\ SoundCall(d)
  BY <1>2, AdvanceInOrder
<1> HIDE DEF d
<1>6. caller'[p] = d
  BY <1>2, <1>4, <1>5, OthersKept
<1>7. DiskTypes'
  BY <1>2, <1>4, <1>5, OthersKept DEF DiskInv, DiskTypes
<1>8. LockInLine'
  BY <1>2, <1>4, <1>5, LockKept
<1>9. OneRequest'
  BY <1>2, <1>4, <1>5, NoRequest
<1>10. Served(caller[p])'
  BY <1>5, <1>6 DEF Served
<1> QED
  BY <1>2, <1>4, <1>5, <1>6, <1>7, <1>8, <1>9, <1>10, OwnStep, SameCall DEF DiskInv

\* DiskSize begins, while nobody uses the disk.
LEMMA SizeKeeps ==
    ASSUME DiskInv, ~Shared, NEW p \in Procs, Dsk!ourDiskSize(p)
    PROVE  DiskInv'
<1> DEFINE c == [caller[p] EXCEPT !.op = "tracks", !.refused = FALSE, !.done = <<>>,
                                  !.calls = @ + 1]
           d == [c EXCEPT !.run = "disk", !.at = "sized"]
<1>1. /\ caller[p].run = "user" /\ caller[p].calls < MaxCalls
      /\ \A q \in Procs : ~Dsk!Asking(q) /\ ~Dsk!Using(q)
      /\ Dsk!Request(p, c, "tracks", 0, 0, "sized")
      /\ UNCHANGED <<diskLock, status, isComplete, aborted, seekFailed>>
  BY DEF Dsk!ourDiskSize, Dsk!MayCall
<1>2. /\ Alone(p) /\ ~Moving(p) /\ caller[p].run \notin {"disk", "lock"}
  BY <1>1 DEF Dsk!Asking, Dsk!Using, Alone, Moving, Busy
<1>3. c \in Dsk!Caller /\ c.refused = FALSE /\ c.done = <<>>
  <2>1. caller[p] \in Dsk!Caller
    BY DEF DiskInv, DiskTypes
  <2>2. caller[p].calls + 1 \in 0 .. MaxCalls
    <3>1. caller[p].calls \in 0 .. MaxCalls /\ caller[p].calls < MaxCalls
      BY <1>1, <2>1 DEF Dsk!Caller
    <3>2. MaxCalls \in Nat
      BY DiskConstants
    <3> QED
      BY <3>1, <3>2
  <2>3. <<>> \in Seq(Int \X Nat)
    BY EmptySeq
  <2> QED
    BY <2>1, <2>2, <2>3 DEF Dsk!Caller
<1>4. /\ "tracks" \in Dsk!Operations /\ 0 \in Int /\ 0 \in Nat
      /\ isComplete' \in BOOLEAN
  BY <1>1 DEF Dsk!Operations, DiskInv, DiskTypes
<1> HIDE DEF c
<1>5. /\ d \in Dsk!Caller
      /\ caller' = [caller EXCEPT ![p] = d]
      /\ disk' = [disk EXCEPT !.op = "tracks", !.track = 0, !.sector = 0, !.by = p]
      /\ DiskTypes' /\ LockInLine' /\ OneRequest'
  BY <1>1, <1>2, <1>3, <1>4, RequestTaken
<1>6. d.run = "disk" /\ d.at = "sized" /\ d.done = <<>> /\ ~d.refused
  BY <1>3 DEF Dsk!Caller
<1>7. caller'[p] = d
  BY <1>5 DEF DiskInv, DiskTypes
<1>8. disk'.op = "tracks"
  BY <1>5 DEF DiskInv, DiskTypes, Dsk!Device
<1> HIDE DEF d
<1>9. SoundCall(d)
  BY <1>6, EmptySeq DEF SoundCall
<1>10. Served(caller[p])'
  BY <1>6, <1>7, <1>8 DEF Served
<1> QED
  BY <1>1, <1>2, <1>5, <1>7, <1>9, <1>10, OwnStep, SameCall DEF DiskInv

\* A call of DiskSize that has its answer gives the lock back.
LEMMA SizeReturnsKeeps ==
    ASSUME DiskInv, NEW p \in Procs, Dsk!SizeReturns(p)
    PROVE  DiskInv'
<1> DEFINE c == caller[p]
           d == [c EXCEPT !.run = "user"]
<1>1. Dsk!Goes(p, "sized") /\ caller' = [caller EXCEPT ![p] = d]
      /\ UNCHANGED <<diskLock, complete, waiting, status, isComplete, disk, aborted, seekFailed>>
  BY DEF Dsk!SizeReturns, DiskInv, DiskTypes
<1>2. /\ c \in Dsk!Caller /\ Alone(p) /\ Busy(p) /\ c.at = "sized" /\ SoundCall(c)
      /\ c.run \notin {"disk", "lock"}
  BY <1>1, GoesOn
<1>3. /\ d \in Dsk!Caller /\ d.run = "user" /\ d.done = c.done /\ d.refused = c.refused
      /\ d.track = c.track /\ d.first = c.first
  BY <1>2 DEF Dsk!Caller, Dsk!Runs
<1> HIDE DEF d
<1>4. caller'[p] = d /\ \A q \in Procs \ {p} : caller'[q] = caller[q]
  BY <1>1, <1>2, <1>3, OthersKept
<1>5. DiskTypes'
  BY <1>1, <1>2, <1>3, OthersKept DEF DiskInv, DiskTypes
<1>6. LockInLine'
  <2>1. \A i \in 2 .. Len(diskLock) : diskLock[i] \in Procs \ {p}
    BY <1>2, ElementOfSeq, LenProperties DEF DiskInv, DiskTypes, LockInLine
  <2>2. \A q \in Procs : ~Moving(q)' /\ ~Moving(q)
    BY <1>2, <1>3, <1>4 DEF Moving, Busy, Alone
  <2>3. diskLock # <<>> => diskLock[1] \in Procs
    BY ElementOfSeq, LenProperties, EmptySeq DEF DiskInv, DiskTypes
  <2> QED
    BY <1>1, <1>4, <2>1, <2>2, <2>3 DEF DiskInv, LockInLine
<1>7. OneRequest'
  BY <1>1, <1>2, <1>3, NoRequest
<1>8. SoundCall(d)
  BY <1>2, <1>3 DEF SoundCall, InPlace, Dsk!Address
<1>9. Served(caller[p])'
  BY <1>3, <1>4 DEF Served
<1> QED
  BY <1>1, <1>2, <1>3, <1>4, <1>5, <1>6, <1>7, <1>8, <1>9, OwnStep, SameCall DEF DiskInv

\* A call that goes on somewhere else, or is over.
LEMMA RunSet ==
    ASSUME NEW c \in Dsk!Caller, NEW r \in Dsk!Runs
    PROVE  /\ [c EXCEPT !.run = r] \in Dsk!Caller
           /\ [c EXCEPT !.run = r].run = r
           /\ [c EXCEPT !.run = r].at = c.at
  BY DEF Dsk!Caller

\* The end of a transfer: the lock goes to the first who waits for it.
LEMMA ReturnKeeps ==
    ASSUME DiskInv, NEW p \in Procs, Dsk!TransferReturns(p)
    PROVE  DiskInv'
<1> DEFINE next == IF Len(diskLock) > 1 THEN {diskLock[2]} ELSE {}
<1>1. /\ Dsk!Goes(p, "loop")
      /\ diskLock' = Tail(diskLock)
      /\ UNCHANGED <<complete, waiting, status, isComplete, disk, aborted, seekFailed>>
  BY DEF Dsk!TransferReturns, Dsk!UnlockAndReturn
<1>2. /\ caller[p] \in Dsk!Caller /\ Alone(p) /\ Moving(p) /\ SoundCall(caller[p])
      /\ caller[p].run \notin {"disk", "lock"}
  BY <1>1, GoesOn
<1>3. /\ diskLock \in Seq(Procs) /\ Len(diskLock) \in Nat \ {0} /\ diskLock[1] = p
      /\ Len(diskLock') = Len(diskLock) - 1 /\ diskLock' \in Seq(Procs)
      /\ \A i \in 1 .. Len(diskLock') : diskLock'[i] = diskLock[i + 1]
      /\ \A i \in 1 .. Len(diskLock) : diskLock[i] \in Procs
  BY <1>1, <1>2, EmptySeq, LenProperties, HeadTailProperties, ElementOfSeq
     DEF DiskInv, DiskTypes, LockInLine
<1>4. /\ next \subseteq Procs \ {p}
      /\ \A q \in next : caller[q].run = "lock"
      /\ \A q, r \in next : q = r
      /\ \A i \in 2 .. Len(diskLock') : diskLock'[i] \in Procs \ ({p} \cup next)
      /\ diskLock' # <<>> <=> next # {}
      /\ next # {} => diskLock'[1] \in next
  <2>1. \A i \in 2 .. Len(diskLock) : diskLock[i] # p
    BY <1>2, <1>3 DEF DiskInv, LockInLine
  <2>2. \A q \in next : q = diskLock[2] /\ 2 \in 2 .. Len(diskLock)
    BY <1>3
  <2>3. diskLock' # <<>> <=> Len(diskLock) > 1
    BY <1>3, EmptySeq
  <2>4. \A i \in 2 .. Len(diskLock') : i + 1 \in 2 .. Len(diskLock) /\ i + 1 # 2
    BY <1>3
  <2>5. \A i \in 2 .. Len(diskLock') : 2 \in 2 .. Len(diskLock)
    BY <1>3
  <2>6. \A i \in 2 .. Len(diskLock') :
            diskLock'[i] \in Procs /\ diskLock'[i] # p /\ diskLock'[i] # diskLock[2]
    BY <1>3, <2>1, <2>4, <2>5 DEF DiskInv, LockInLine
  <2>7. \A q \in next : q \in Procs \ {p} /\ caller[q].run = "lock"
    BY <1>3, <2>1, <2>2 DEF DiskInv, LockInLine
  <2>8. next # {} => diskLock'[1] \in next
    BY <1>3
  <2>9. next # {} <=> Len(diskLock) > 1
    OBVIOUS
  <2>10. \A i \in 2 .. Len(diskLock') : diskLock'[i] \notin next
    BY <2>2, <2>6
  <2> HIDE DEF next
  <2> QED
    BY <2>2, <2>3, <2>6, <2>7, <2>8, <2>9, <2>10
<1>5. caller' = [q \in Procs |->
          IF q = p THEN [caller[q] EXCEPT !.run = "user"]
          ELSE IF q \in next THEN [caller[q] EXCEPT !.run = "has_lock"] ELSE caller[q]]
  <2>1. \A q \in Procs : diskLock' # <<>> /\ q = Head(diskLock') <=> q \in next
    <3>1. diskLock' # <<>> => Head(diskLock') = diskLock'[1]
      OBVIOUS
    <3>2. \A q \in next : next # {} /\ q = diskLock'[1]
      BY <1>4
    <3> HIDE DEF next
    <3> QED
      BY <1>4, <3>1, <3>2
  <2> HIDE DEF next
  <2> QED
    BY <2>1 DEF Dsk!TransferReturns, Dsk!UnlockAndReturn
<1> HIDE DEF next
<1>6. \A q \in Procs :
        /\ caller[q] \in Dsk!Caller
        /\ [caller[q] EXCEPT !.run = "user"] \in Dsk!Caller
        /\ [caller[q] EXCEPT !.run = "has_lock"] \in Dsk!Caller
  BY RunSet DEF DiskInv, DiskTypes, Dsk!Runs
<1>7. /\ caller' \in [Procs -> Dsk!Caller]
      /\ caller'[p] = [caller[p] EXCEPT !.run = "user"]
      /\ \A q \in next : caller'[q] = [caller[q] EXCEPT !.run = "has_lock"]
      /\ \A q \in Procs \ ({p} \cup next) : caller'[q] = caller[q]
  BY <1>4, <1>5, <1>6
<1>8. \A q \in Procs : /\ Busy(q)' <=> q \in next
                       /\ Moving(q)' <=> q \in next
                       /\ caller'[q].run # "disk"
  <2>1. caller'[p].run = "user"
    BY <1>2, <1>7 DEF Dsk!Caller
  <2>2. \A q \in next : caller'[q].run = "has_lock" /\ caller'[q].at = "loop"
    <3> SUFFICES ASSUME NEW q \in next
                 PROVE  caller'[q].run = "has_lock" /\ caller'[q].at = "loop"
      OBVIOUS
    <3>1. q \in Procs /\ caller[q].run = "lock" /\ "has_lock" \in Dsk!Runs
      BY <1>4 DEF Dsk!Runs
    <3>2. caller[q] \in Dsk!Caller /\ caller'[q] = [caller[q] EXCEPT !.run = "has_lock"]
      BY <1>6, <1>7, <3>1
    <3>3. SoundCall(caller[q])
      BY <3>1 DEF DiskInv, CallsInOrder
    <3>4. caller[q].at = "loop"
      BY <3>1, <3>3 DEF SoundCall
    <3> QED
      BY <3>1, <3>2, <3>4, RunSet
  <2>3. \A q \in Procs \ ({p} \cup next) : ~Busy(q)'
    BY <1>2, <1>7 DEF Alone, Busy
  <2>4. ~Busy(p)' /\ p \notin next
    BY <1>4, <2>1 DEF Busy
  <2>5. \A q \in next : Busy(q)' /\ Moving(q)' /\ caller'[q].run # "disk"
    BY <2>2 DEF Busy, Moving
  <2> QED
    BY <2>3, <2>4, <2>5 DEF Moving, Busy
<1>9. DiskTypes'
  BY <1>1, <1>3, <1>7 DEF DiskInv, DiskTypes
<1>10. Exclusive'
  BY <1>4, <1>8 DEF Exclusive
<1>11. LockInLine'
  <2>1. \A q \in Procs : Moving(q)' => diskLock' # <<>> /\ diskLock'[1] = q
    BY <1>4, <1>8
  <2>2. diskLock' # <<>> => Moving(diskLock[1])'
    BY <1>4, <1>8
  <2>3. \A i \in 2 .. Len(diskLock') : i + 1 \in 2 .. Len(diskLock)
    BY <1>3
  <2>4. \A i \in 2 .. Len(diskLock') : caller'[diskLock'[i]].run = "lock"
    BY <1>3, <1>4, <1>7, <2>3 DEF DiskInv, LockInLine
  <2>5. \A i, j \in 2 .. Len(diskLock') : diskLock'[i] = diskLock'[j] => i = j
    <3> SUFFICES ASSUME NEW i \in 2 .. Len(diskLock'), NEW j \in 2 .. Len(diskLock'),
                        diskLock'[i] = diskLock'[j]
                 PROVE  i = j
      OBVIOUS
    <3>1. diskLock[i + 1] = diskLock[j + 1]
      BY <1>3
    <3>2. i + 1 = j + 1
      BY <2>3, <3>1 DEF DiskInv, LockInLine
    <3> QED
      BY <3>2
  <2> QED
    BY <2>1, <2>2, <2>4, <2>5 DEF LockInLine
<1>12. OneRequest'
  <2>1. waiting = <<>> /\ ~complete /\ disk.op = "idle"
    BY <1>2 DEF DiskInv, OneRequest, Alone, Busy
  <2> QED
    BY <1>1, <1>8, <2>1 DEF OneRequest
<1>13. CallsInOrder'
  <2> SUFFICES ASSUME NEW q \in Procs
               PROVE  SoundCall(caller[q])' /\ Served(caller[q])'
    BY DEF CallsInOrder
  <2>1. SoundCall(caller[q]) /\ Served(caller[q]) /\ caller[q] \in Dsk!Caller
    BY <1>6 DEF DiskInv, CallsInOrder
  <2>2. CASE q = p
    <3> DEFINE d == [caller[p] EXCEPT !.run = "user"]
    <3>1. /\ d.run = "user" /\ d.done = caller[p].done /\ d.refused = caller[p].refused
          /\ d.track = caller[p].track /\ d.first = caller[p].first
      BY <1>2 DEF Dsk!Caller
    <3> HIDE DEF d
    <3>2. SoundCall(d)
      BY <1>2, <3>1 DEF SoundCall, InPlace, Dsk!Address
    <3>3. caller'[p] = d
      BY <1>7 DEF d
    <3> QED
      BY <2>2, <3>1, <3>2, <3>3, SameCall DEF Served
  <2>3. CASE q \in next
    <3> DEFINE d == [caller[q] EXCEPT !.run = "has_lock"]
    <3>1. /\ d.run = "has_lock" /\ d.at = caller[q].at /\ d.op = caller[q].op
          /\ d.done = caller[q].done /\ d.refused = caller[q].refused
          /\ d.track = caller[q].track /\ d.first = caller[q].first
          /\ d.curTrack = caller[q].curTrack /\ d.curSector = caller[q].curSector
          /\ d.i = caller[q].i
      BY <2>1 DEF Dsk!Caller
    <3> HIDE DEF d
    <3>2. caller[q].run = "lock"
      BY <1>4, <2>3
    <3>3. SoundCall(d) /\ d.at = "loop"
      BY <2>1, <3>1, <3>2 DEF SoundCall, SoundLoop, InPlace, Dsk!Address
    <3>4. caller'[q] = d
      BY <1>7, <2>3 DEF d
    <3> QED
      BY <3>1, <3>3, <3>4, SameCall DEF Served
  <2>4. CASE q \notin {p} \cup next
    <3>1. caller'[q] = caller[q] /\ ~Busy(q)'
      BY <1>7, <1>8, <2>4
    <3> QED
      BY <2>1, <3>1, SameCall DEF Served, Busy
  <2> QED
    BY <2>2, <2>3, <2>4
<1> QED
  BY <1>1, <1>9, <1>10, <1>11, <1>12, <1>13 DEF DiskInv

-----------------------------------------------------------------------------
\* The daemon: the disk has done what it was asked, and who asked is told.
LEMMA DaemonKeeps ==
    ASSUME DiskInv, Dsk!diskDaemon
    PROVE  DiskInv'
<1>1. PICK p \in Procs : waiting = <<p>> /\ caller[p].run = "disk" /\ disk.op # "idle"
  BY DEF DiskInv, OneRequest, Dsk!diskDaemon
<1> DEFINE c      == caller[p]
           failed == disk.op = "seek" /\ disk.track \notin 0 .. NumTracks - 1
           moved  == disk.op \in {"read", "write"}
           done   == IF moved THEN Append(c.done, <<disk.head, disk.sector>>) ELSE c.done
           d      == [c EXCEPT !.run = "has_disk", !.done = done]
<1>2. /\ c \in Dsk!Caller /\ SoundCall(c) /\ Served(c) /\ disk \in Dsk!Device
      /\ Busy(p) /\ Alone(p) /\ disk.by = p /\ c.at # "loop" /\ ~complete
  BY <1>1 DEF DiskInv, DiskTypes, CallsInOrder, Busy, Alone, Exclusive, OneRequest, SoundCall
<1>3. /\ waiting # <<>> /\ Head(waiting) = p /\ Tail(waiting) = <<>>
  BY <1>1
<1>4. /\ disk' = [disk EXCEPT !.op = "idle", !.by = Dsk!Nobody,
                     !.head = IF disk.op = "seek" /\ ~failed THEN disk.track ELSE disk.head]
      /\ status' = IF failed THEN "error" ELSE "ready"
      /\ isComplete' = (isComplete \/ ~failed)
      /\ complete' = FALSE /\ waiting' = <<>>
      /\ UNCHANGED <<diskLock, aborted, seekFailed>>
  BY <1>2, <1>3 DEF Dsk!diskDaemon, Dsk!Completed, DiskInv, DiskTypes
<1>5. disk' \in Dsk!Device
  <2>1. (IF disk.op = "seek" /\ ~failed THEN disk.track ELSE disk.head) \in 0 .. NumTracks - 1
    BY <1>2 DEF Dsk!Device
  <2> HIDE DEF failed
  <2> QED
    BY <1>2, <1>4, <2>1 DEF Dsk!Device
<1>6. /\ disk'.op = "idle"
      /\ disk'.head = IF disk.op = "seek" /\ ~failed THEN disk.track ELSE disk.head
  <2> HIDE DEF failed
  <2> QED
    BY <1>2, <1>4 DEF Dsk!Device
<1>7. /\ done \in Seq(Int \X Nat) /\ Len(c.done) \in Nat
      /\ Len(done) = IF moved THEN Len(c.done) + 1 ELSE Len(c.done)
      /\ \A k \in 1 .. Len(c.done) : done[k] = c.done[k]
      /\ moved => done[Len(c.done) + 1] = <<disk.head, disk.sector>>
  <2>1. c.done \in Seq(Int \X Nat) /\ <<disk.head, disk.sector>> \in Int \X Nat
    BY <1>2, DiskConstants DEF Dsk!Caller, Dsk!Device
  <2> HIDE DEF c
  <2>2. CASE moved
    <3> DEFINE e == Append(c.done, <<disk.head, disk.sector>>)
    <3>1. done = e
      BY <2>2
    <3>2. /\ e \in Seq(Int \X Nat) /\ Len(c.done) \in Nat /\ Len(e) = Len(c.done) + 1
          /\ \A k \in 1 .. Len(c.done) : e[k] = c.done[k]
          /\ e[Len(c.done) + 1] = <<disk.head, disk.sector>>
      BY <2>1, AppendProperties, LenProperties
    <3> HIDE DEF e, moved, done
    <3> QED
      BY <2>2, <3>1, <3>2
  <2>3. CASE ~moved
    BY <2>1, <2>3, LenProperties
  <2> QED
    BY <2>2, <2>3
<1>8. /\ d \in Dsk!Caller /\ d.run = "has_disk" /\ d.done = done /\ d.at = c.at
      /\ d.op = c.op /\ d.i = c.i /\ d.refused = c.refused
      /\ d.track = c.track /\ d.first = c.first
      /\ d.curTrack = c.curTrack /\ d.curSector = c.curSector
  <2> HIDE DEF done
  <2> QED
    BY <1>2, <1>7 DEF Dsk!Caller, Dsk!Runs
<1>9. caller' = [caller EXCEPT ![p] = d]
  <2>1. caller' = [q \in Procs |-> [caller[q] EXCEPT
              !.run = IF q = p THEN "has_disk" ELSE @,
              !.done = IF moved /\ q = p THEN Append(@, <<disk.head, disk.sector>>)
                       ELSE @]]
    BY <1>2, <1>3 DEF Dsk!diskDaemon
  <2>2. ASSUME NEW q \in Procs \ {p}
        PROVE  caller'[q] = caller[q]
    <3>1. caller'[q] = [caller[q] EXCEPT !.run = caller[q].run, !.done = caller[q].done]
      BY <2>1
    <3>2. caller[q] \in Dsk!Caller
      BY DEF DiskInv, DiskTypes
    <3> QED
      BY <3>1, <3>2 DEF Dsk!Caller
  <2>3. caller'[p] = d
    <3>1. caller'[p] = [caller[p] EXCEPT
              !.run = "has_disk",
              !.done = IF moved THEN Append(caller[p].done, <<disk.head, disk.sector>>)
                       ELSE caller[p].done]
      <4> HIDE DEF moved
      <4> QED
        BY <2>1
    <3> QED
      BY <3>1
  <2>4. DOMAIN caller' = Procs /\ DOMAIN caller = Procs
    BY <2>1 DEF DiskInv, DiskTypes
  <2> HIDE DEF d
  <2>5. \A q \in Procs : caller'[q] = [caller EXCEPT ![p] = d][q]
    BY <2>2, <2>3, <2>4
  <2> QED
    BY <2>1, <2>4, <2>5
<1> HIDE DEF d, done
<1>10. caller' \in [Procs -> Dsk!Caller] /\ caller'[p] = d
       /\ \A q \in Procs \ {p} : caller'[q] = caller[q] /\ ~Busy(q) /\ ~Busy(q)'
  BY <1>2, <1>8, <1>9, OthersKept
<1>11. DiskTypes'
  BY <1>4, <1>5, <1>10, EmptySeq DEF DiskInv, DiskTypes
<1>12. LockInLine'
  <2>1. \A q \in Procs : Moving(q)' <=> Moving(q)
    BY <1>1, <1>8, <1>10 DEF Moving, Busy
  <2>2. \A i \in 2 .. Len(diskLock) : diskLock[i] \in Procs \ {p}
    BY <1>1, ElementOfSeq, LenProperties DEF DiskInv, DiskTypes, LockInLine
  <2>3. diskLock # <<>> => diskLock[1] \in Procs
    BY ElementOfSeq, LenProperties, EmptySeq DEF DiskInv, DiskTypes
  <2> QED
    BY <1>4, <1>10, <2>1, <2>2, <2>3 DEF DiskInv, LockInLine
<1>13. OneRequest'
  <2>1. \A q \in Procs : caller'[q].run # "disk"
    BY <1>8, <1>10 DEF Busy
  <2> QED
    BY <1>4, <1>6, <2>1 DEF OneRequest
<1>14. /\ c.at \in {"sought", "moved", "sized"}
       /\ c.at = "sought" => disk.op = "seek" /\ ~moved
       /\ c.at = "sized" => ~moved
       /\ c.at = "moved" => moved /\ ~failed /\ SoundLoop(c)
  BY <1>1, <1>2 DEF Served, SoundCall, SoundLoop, Dsk!Caller, Dsk!Places
<1>15. SoundCall(d)
  <2>1. c.at = "moved" => InPlace(d, Len(c.done) + 1)
    <3> SUFFICES ASSUME c.at = "moved"
                 PROVE  InPlace(d, Len(c.done) + 1)
      OBVIOUS
    <3>1. /\ Len(c.done) = c.i
          /\ Dsk!Address(c, c.i + 1) = c.curTrack * NumSectors + c.curSector
      BY <1>1, <1>14 DEF SoundLoop
    <3>2. Dsk!Address(d, c.i + 1) = Dsk!Address(c, c.i + 1)
      BY <1>8 DEF Dsk!Address
    <3>3. /\ Dsk!Address(d, c.i + 1) % NumSectors = c.curSector
          /\ Dsk!Address(d, c.i + 1) \div NumSectors = c.curTrack
      <4>1. c.curTrack \in Int /\ c.curSector \in 0 .. NumSectors - 1
        BY <1>2 DEF Dsk!Caller
      <4> DEFINE t == c.curTrack
                 k == c.curSector
      <4>2. Dsk!Address(d, c.i + 1) = t * NumSectors + k
        BY <3>1, <3>2
      <4> HIDE DEF t, k
      <4>3. (t * NumSectors + k) % NumSectors = k /\ (t * NumSectors + k) \div NumSectors = t
        BY <4>1, DivMod, DiskConstants DEF t, k
      <4> QED
        BY <4>2, <4>3 DEF t, k
    <3>4. d.done[c.i + 1] = <<disk.head, disk.sector>>
      BY <1>7, <1>8, <1>14, <3>1
    <3>5. disk.sector = c.curSector /\ (disk.head = c.curTrack \/ c.curTrack = 0)
      BY <1>1, <1>2 DEF Served
    <3>6. /\ d.done[c.i + 1][1] = disk.head
          /\ d.done[c.i + 1][2] = disk.sector
      BY <3>4
    <3> QED
      BY <3>1, <3>3, <3>5, <3>6 DEF InPlace
  <2>2. ASSUME NEW k \in 1 .. Len(c.done)
        PROVE  InPlace(d, k)
    <3>1. InPlace(c, k)
      BY <1>2 DEF SoundCall
    <3>2. d.done[k] = c.done[k]
      BY <1>7, <1>8
    <3>3. Dsk!Address(d, k) = Dsk!Address(c, k)
      BY <1>8 DEF Dsk!Address
    <3> QED
      BY <3>1, <3>2, <3>3 DEF InPlace
  <2>3. ASSUME NEW k \in 1 .. Len(d.done)
        PROVE  InPlace(d, k)
    <3>1. CASE k \in 1 .. Len(c.done)
      BY <2>2, <3>1
    <3>2. CASE k \notin 1 .. Len(c.done)
      <4>1. moved /\ k = Len(c.done) + 1
        <5> DEFINE n == Len(c.done)
        <5>1. n \in Nat /\ Len(d.done) = IF moved THEN n + 1 ELSE n
          BY <1>7, <1>8
        <5> HIDE DEF moved, n
        <5>2. k \in 1 .. Len(d.done) /\ k \notin 1 .. n
          BY <3>2 DEF n
        <5>3. moved /\ k = n + 1
          BY <5>1, <5>2
        <5> QED
          BY <5>3 DEF n
      <4>2. c.at = "moved"
        BY <1>14, <4>1
      <4> QED
        BY <2>1, <4>1, <4>2
    <3> QED
      BY <3>1, <3>2
  <2>4. d.at # "sized" => SoundLoop(d)
    <3> SUFFICES ASSUME c.at # "sized"
                 PROVE  SoundLoop(d)
      BY <1>8
    <3>1. SoundLoop(c) /\ Len(c.done) = c.i
      BY <1>1, <1>2 DEF SoundCall, SoundLoop
    <3>2. Len(d.done) = IF c.at = "moved" THEN c.i + 1 ELSE c.i
      <4>1. moved <=> c.at = "moved"
        BY <1>14
      <4> HIDE DEF moved
      <4> QED
        BY <1>7, <1>8, <3>1, <4>1
    <3>3. Dsk!Address(d, d.i + 1) = Dsk!Address(c, c.i + 1)
      BY <1>8 DEF Dsk!Address
    <3> QED
      BY <1>8, <3>1, <3>2, <3>3 DEF SoundLoop
  <2>5. ~d.refused /\ d.at # "loop"
    BY <1>2, <1>8 DEF SoundCall
  <2> QED
    BY <1>8, <2>3, <2>4, <2>5 DEF SoundCall
<1>16. Served(caller[p])'
  <2>1. c.at = "sought" => status' = "error" \/ disk'.head = c.curTrack
    BY <1>1, <1>2, <1>4, <1>6 DEF Served
  <2>2. c.at = "moved" => isComplete'
    BY <1>4, <1>14
  <2> QED
    BY <1>8, <1>10, <2>1, <2>2 DEF Served
<1>17. SoundCall(caller[p])'
  BY <1>10, <1>15, SameCall
<1>18. ~aborted'
  BY <1>4 DEF DiskInv
<1> QED
  BY <1>2, <1>8, <1>9, <1>11, <1>12, <1>13, <1>16, <1>17, <1>18, OwnStep

-----------------------------------------------------------------------------
\* Every step of a program that uses the disk, and every other.
LEMMA DiskStep ==
    ASSUME DiskInv, ~Shared, [Next]_vars
    PROVE  DiskInv'
<1>1. CASE UNCHANGED diskVars
  BY <1>1 DEF diskVars, DiskInv, DiskTypes, Exclusive, Busy, LockInLine, Moving, OneRequest,
              CallsInOrder, SoundCall, SoundLoop, InPlace, Served, Dsk!Address
<1>2. CASE Dsk!Next
  <2>1. ASSUME NEW p \in Procs, NEW track \in Tracks, NEW first \in 0 .. NumSectors - 1,
               NEW n \in Counts,
               Dsk!ourDiskRead(p, track, first, n) \/ Dsk!ourDiskWrite(p, track, first, n)
        PROVE  DiskInv'
    BY <2>1, BeginKeeps DEF Dsk!ourDiskRead, Dsk!ourDiskWrite
  <2> QED
    BY <1>2, <2>1, SeekKeeps, SoughtKeeps, MovedKeeps, ReturnKeeps, SizeKeeps,
       SizeReturnsKeeps, DaemonKeeps DEF Dsk!Next
<1> QED
  BY <1>1, <1>2 DEF Next, vars

\* The inductive invariant holds.
LEMMA DiskInvariance ==
    ASSUME ~Shared
    PROVE  Spec => []DiskInv
<1>1. DiskInv /\ [Next]_vars => DiskInv'
  BY DiskStep
<1>2. Init => DiskInv
  BY DiskInit DEF Init
<1> QED
  BY <1>1, <1>2, PTL DEF Spec

-----------------------------------------------------------------------------
\* DiskRead and DiskWrite move the sectors they were asked for, in order, each on
\* the right track, whatever requests of others come between two of them
\* (ourDiskRead, ourDiskWrite and lockDisk).
THEOREM SectorsStayInOrder ==
    ASSUME ~Shared
    PROVE  Spec => []SectorsInOrder
<1>1. DiskInv => SectorsInOrder
  BY DEF DiskInv, CallsInOrder, SoundCall, InPlace, SectorsInOrder, Dsk!SectorsInOrder
<1> QED
  BY <1>1, DiskInvariance, PTL

\* No request comes to a busy disk, and the daemon's message goes to the process
\* whose request is done (DISK_LOCK and DISK_MBOX).
THEOREM RequestsAreTaken ==
    ASSUME ~Shared
    PROVE  Spec => []RequestsTaken
<1>1. DiskInv => RequestsTaken
  <2> SUFFICES ASSUME DiskInv PROVE Dsk!RequestsTaken
    BY DEF RequestsTaken
  <2>1. \A p \in Procs : ~caller[p].refused
    BY DEF DiskInv, CallsInOrder, SoundCall
  <2>2. waiting = <<>> \/ \E p \in Procs : waiting = <<p>>
    BY DEF DiskInv, OneRequest
  <2>3. Len(waiting) <= 1
    BY <2>2
  <2>4. disk.op # "idle" => waiting = <<disk.by>>
    BY DEF DiskInv, OneRequest
  <2> QED
    BY <2>1, <2>3, <2>4 DEF Dsk!RequestsTaken
<1> QED
  BY <1>1, DiskInvariance, PTL

\* Only a call whose seek has failed returns with the lock (the early return of
\* ourDiskRead and ourDiskWrite).
THEOREM LocksAreGivenBack ==
    ASSUME ~Shared
    PROVE  Spec => []LockGivenBack
<1>1. DiskInv => LockGivenBack
  BY DEF DiskInv, LockInLine, Moving, Busy, LockGivenBack, Dsk!LockGivenBack
<1> QED
  BY <1>1, DiskInvariance, PTL

\* ourDiskRead's assert(disks[unit].isComplete == 1) never fails.
THEOREM ReadsAreComplete ==
    ASSUME ~Shared
    PROVE  Spec => []AssertionHolds
<1>1. DiskInv => AssertionHolds
  BY DEF DiskInv, AssertionHolds, Dsk!AssertionHolds
<1> QED
  BY <1>1, DiskInvariance, PTL

-----------------------------------------------------------------------------
(***************************************************************************)
(* The clock driver: the queue of sleepers is a list, sorted by the time   *)
(* at which they are to wake up, of exactly those who sleep.               *)
(***************************************************************************)
\* No process sleeps twice: an entry that was taken off the queue is not put
\* into it again.
SleepsOnce == MaxSleeps <= 1

\* An entry of the table of shadow processes.
Entry == [PID : Nat, endSleep : Nat, next : Clock!Slots \cup {Clock!NULL}]

\* The n entries q[1], ..., q[n] are the queue that begins with h in table t.
Chain(t, h, q, n) ==
    /\ q \in [1 .. n -> Clock!Slots]
    /\ \A i, j \in 1 .. n : q[i] = q[j] => i = j
    /\ h = IF n = 0 THEN Clock!NULL ELSE q[1]
    /\ \A i \in 1 .. n : t[q[i]].next = IF i = n THEN Clock!NULL ELSE q[i + 1]
    /\ \A i \in 1 .. n - 1 : t[q[i]].endSleep <= t[q[i + 1]].endSleep

\* q lists just those who sleep.
Lists(q, n) == \A s \in Clock!Slots : sleeper[s].asleep <=> \E i \in 1 .. n : q[i] = s

ClockTypes ==
    /\ GLOBAL_CLOCK_TICKS \in Nat
    /\ shadowProcessTable \in [Clock!Slots -> Entry]
    /\ priorityQueueHead \in Clock!Slots \cup {Clock!NULL}
    /\ sleeper \in [Clock!Slots -> [PID : Nat \ {0}, asleep : BOOLEAN, since : Nat,
                                    until : Nat, calls : Nat]]
    /\ cpu \in {"users", "daemon"}
    /\ receivesFrom = Clock!NULL

QueueSound ==
    \E n \in Nat : \E q \in [1 .. n -> Clock!Slots] :
        Chain(shadowProcessTable, priorityQueueHead, q, n) /\ Lists(q, n)

\* The entry of one who sleeps is his; nobody has slept on the entry that a new
\* process of the slot is going to get.
EntriesSound ==
    \A s \in Clock!Slots :
        /\ sleeper[s].asleep =>
            /\ shadowProcessTable[s].PID = sleeper[s].PID
            /\ shadowProcessTable[s].endSleep = sleeper[s].until
        /\ shadowProcessTable[s].PID <= sleeper[s].PID
        /\ sleeper[s].calls = 0 => shadowProcessTable[s].PID < sleeper[s].PID

ClockInv == ClockTypes /\ QueueSound /\ EntriesSound /\ OnTime

-----------------------------------------------------------------------------
\* A set of natural numbers that is not empty has a least element.
LEMMA Least ==
    ASSUME NEW T \in SUBSET Nat, T # {}
    PROVE  \E x \in T : \A y \in T : x <= y
<1> DEFINE R == {r \in Nat \X Nat : r[1] < r[2]}
<1>1. R = OpToRel(<, Nat)
  BY DEF OpToRel
<1>2. IsWellFoundedOn(R, Nat)
  BY <1>1, NatLessThanWellFounded
<1>3. PICK x \in T : \A y \in T : ~ (<<y, x>> \in R)
  BY <1>2, WFMin
<1>4. ASSUME NEW y \in T, ~(x <= y)
      PROVE  <<y, x>> \in R
  BY <1>4
<1> QED
  BY <1>3, <1>4

\* What is assumed of the constants.
LEMMA ClockConstants ==
    /\ MAXPROC \in Nat \ {0} /\ TicksPerSecond \in Nat \ {0}
    /\ Seconds \subseteq Nat /\ MaxSleeps \in Nat
  BY DriversAssumption DEF Clock!SleepAssumption

\* The cardinality that the walk counts with.
LEMMA SameCardinality == \A S : Clock!Cardinality(S) = Cardinality(S)
  BY DEF Clock!Cardinality, Cardinality

\* There is a place in the table for each entry of a queue.
LEMMA ChainFits ==
    ASSUME NEW t, NEW h, NEW n \in Nat, NEW q, Chain(t, h, q, n)
    PROVE  Clock!Cardinality(Clock!Slots) \in Nat /\ n <= Clock!Cardinality(Clock!Slots)
<1>1. MAXPROC - 1 \in Int /\ 1 \in Int /\ n \in Int
  BY ClockConstants
<1>2. IsFiniteSet(Clock!Slots) /\ Cardinality(Clock!Slots) \in Nat
  <2>1. IsFiniteSet(1 .. MAXPROC - 1)
    BY <1>1, FS_Interval
  <2>2. IsFiniteSet(Clock!Slots)
    BY <2>1 DEF Clock!Slots
  <2>3. Cardinality(Clock!Slots) \in Nat
    BY <2>2, FS_CardinalityType
  <2> QED
    BY <2>2, <2>3
<1>3. q \in Injection(1 .. n, Clock!Slots)
  BY DEF Chain, Injection, IsInjective
<1>4. Cardinality(1 .. n) <= Cardinality(Clock!Slots)
  BY <1>2, <1>3, FS_Injection
<1>5. Cardinality(1 .. n) = n
  BY <1>1, FS_Interval
<1> QED
  BY <1>2, <1>4, <1>5, SameCardinality

\* The walk along a queue stops behind the last entry that is not later.
LEMMA WalkStops ==
    ASSUME NEW t, NEW n \in Nat \ {0}, NEW q,
           Chain(t, priorityQueueHead, q, n),
           \A s \in Clock!Slots : t[s].endSleep \in Nat,
           NEW priority \in Nat, ~(priority <= t[priorityQueueHead].endSleep)
    PROVE  \E k \in 1 .. n : /\ Clock!Walk(t, priority) = q[k]
                             /\ t[q[k]].endSleep <= priority
                             /\ ~Clock!GoesOn(t, q[k], priority)
<1> DEFINE C == Clock!Cardinality(Clock!Slots)
           goes(x) == Clock!GoesOn(t, x, priority)
           next(x) == t[x].next
           K == {k \in 1 .. n : ~goes(q[k])}
<1>1. C \in Nat /\ n <= C
  BY ChainFits
<1>2. /\ q \in [1 .. n -> Clock!Slots] /\ priorityQueueHead = q[1]
      /\ \A i \in 1 .. n : next(q[i]) = IF i = n THEN Clock!NULL ELSE q[i + 1]
      /\ \A i \in 1 .. n : q[i] # Clock!NULL
  BY ClockConstants DEF Chain, Clock!NULL, Clock!Slots
<1>3. PICK k \in K : \A j \in K : k <= j
  <2>1. K \in SUBSET Nat
    OBVIOUS
  <2>2. n \in K
    BY <1>2 DEF Clock!GoesOn
  <2> HIDE DEF K
  <2> QED
    BY <2>1, <2>2, Least
<1>4. k \in 1 .. n /\ ~goes(q[k])
  OBVIOUS
<1>5. ASSUME NEW j \in 1 .. n, j < k
      PROVE  goes(q[j]) /\ next(q[j]) = q[j + 1] /\ t[q[j + 1]].endSleep <= priority
  <2>1. j \notin K
    BY <1>3, <1>5
  <2>2. goes(q[j])
    BY <2>1
  <2>3. next(q[j]) = q[j + 1]
    BY <1>2, <1>4, <1>5
  <2> QED
    BY <2>2, <2>3 DEF Clock!GoesOn
<1>6. t[q[k]].endSleep <= priority
  <2>1. CASE k = 1
    BY <2>1, <1>2
  <2>2. CASE k # 1
    <3>1. k - 1 \in 1 .. n /\ k - 1 < k /\ (k - 1) + 1 = k
      BY <1>4, <2>2
    <3> HIDE DEF goes, next
    <3> QED
      BY <3>1, <1>5
  <2> QED
    BY <2>1, <2>2
<1> HIDE DEF K
<1> DEFINE step(x) == IF goes(x) THEN next(x) ELSE x
           Walks(f) == f = [m \in 0 .. C |-> IF m = 0 THEN priorityQueueHead
                                             ELSE step(f[m - 1])]
           g == [m \in 0 .. C |-> IF m < k THEN q[m + 1] ELSE q[k]]
<1>7. ASSUME NEW m \in 0 .. C, m # 0
      PROVE  g[m] = step(g[m - 1])
  <2>1. m - 1 \in 0 .. C /\ (m - 1) + 1 = m
    BY <1>1, <1>7
  <2>2. CASE m < k
    <3>1. g[m] = q[m + 1] /\ g[m - 1] = q[m]
      BY <2>1, <2>2, <1>4
    <3>2. goes(q[m]) /\ next(q[m]) = q[m + 1]
      <4>1. m \in 1 .. n
        BY <2>2, <1>4, <1>7
      <4> HIDE DEF goes, next
      <4> QED
        BY <4>1, <2>2, <1>5
    <3> HIDE DEF goes, next, g
    <3> QED
      BY <3>1, <3>2
  <2>3. CASE m = k
    <3>1. g[m] = q[k] /\ g[m - 1] = q[k]
      BY <2>1, <2>3, <1>4
    <3> HIDE DEF goes, next, g
    <3> QED
      BY <3>1, <1>4
  <2>4. CASE m > k
    <3>1. g[m] = q[k] /\ g[m - 1] = q[k]
      BY <2>1, <2>4, <1>4
    <3> HIDE DEF goes, next, g
    <3> QED
      BY <3>1, <1>4
  <2> QED
    <3>1. m < k \/ m = k \/ m > k
      BY <1>4
    <3> HIDE DEF g, step
    <3> QED
      BY <3>1, <2>2, <2>3, <2>4
<1>8. Walks(g)
  <2>1. g[0] = priorityQueueHead
    BY <1>1, <1>2, <1>4
  <2>2. g = [m \in 0 .. C |-> g[m]]
    OBVIOUS
  <2> HIDE DEF g, step
  <2> QED
    BY <2>1, <2>2, <1>7
<1> DEFINE f == CHOOSE w : Walks(w)
<1>9. Walks(f)
  <2> HIDE DEF Walks, g
  <2> QED
    BY <1>8
<1>10. Clock!Walk(t, priority) = f[C]
  BY DEF Clock!Walk
<1> HIDE DEF f, step
<1>11. \A m \in 0 .. C : f[m] = IF m = 0 THEN priorityQueueHead ELSE step(f[m - 1])
  BY <1>9
<1>12. \A m \in 0 .. C : g[m] = IF m = 0 THEN priorityQueueHead ELSE step(g[m - 1])
  BY <1>8
<1>13. g[C] = q[k]
  BY <1>1, <1>4
<1> HIDE DEF Walks, g
<1>14. f[C] = g[C]
  <2> DEFINE Bad == {m \in 0 .. C : f[m] # g[m]}
  <2> SUFFICES ASSUME Bad # {} PROVE FALSE
    BY <1>1
  <2>1. PICK m \in Bad : \A j \in Bad : m <= j
    <3>1. Bad \in SUBSET Nat
      OBVIOUS
    <3> HIDE DEF Bad
    <3> QED
      BY <3>1, Least
  <2>2. m \in 0 .. C /\ f[m] # g[m] /\ m # 0
    BY <1>11, <1>12
  <2>3. m - 1 \in 0 .. C /\ ~(m <= m - 1)
    BY <2>2, <1>1
  <2>4. f[m - 1] = g[m - 1]
    BY <2>1, <2>3
  <2> QED
    BY <2>2, <2>4, <1>11, <1>12
<1> QED
  BY <1>4, <1>6, <1>10, <1>13, <1>14

\* q with s behind its first k entries.
Inserted(q, n, k, s) ==
    [i \in 1 .. n + 1 |-> IF i <= k THEN q[i] ELSE IF i = k + 1 THEN s ELSE q[i - 1]]

\* What to link for that.
LEMMA ChainInsert ==
    ASSUME NEW t, NEW h, NEW n \in Nat, NEW q, Chain(t, h, q, n),
           NEW s \in Clock!Slots, \A i \in 1 .. n : q[i] # s,
           NEW k \in 0 .. n,
           k > 0 => t[q[k]].endSleep <= t[s].endSleep,
           k < n => t[s].endSleep <= t[q[k + 1]].endSleep,
           NEW u, \A x \in Clock!Slots : u[x].endSleep = t[x].endSleep,
           u[s].next = IF k = n THEN Clock!NULL ELSE q[k + 1],
           k > 0 => u[q[k]].next = s,
           \A i \in 1 .. n : i # k => u[q[i]].next = t[q[i]].next
    PROVE  Chain(u, IF k = 0 THEN s ELSE h, Inserted(q, n, k, s), n + 1)
<1> DEFINE r == Inserted(q, n, k, s)
<1>1. /\ q \in [1 .. n -> Clock!Slots]
      /\ \A i, j \in 1 .. n : q[i] = q[j] => i = j
      /\ h = IF n = 0 THEN Clock!NULL ELSE q[1]
      /\ \A i \in 1 .. n : t[q[i]].next = IF i = n THEN Clock!NULL ELSE q[i + 1]
      /\ \A i \in 1 .. n - 1 : t[q[i]].endSleep <= t[q[i + 1]].endSleep
  BY DEF Chain
<1>2. \A i \in 1 .. n + 1 :
        r[i] = IF i <= k THEN q[i] ELSE IF i = k + 1 THEN s ELSE q[i - 1]
  BY DEF Inserted
<1>3. r \in [1 .. n + 1 -> Clock!Slots]
  BY <1>1 DEF Inserted
<1> HIDE DEF r
<1>4. ASSUME NEW i \in 1 .. n + 1, NEW j \in 1 .. n + 1, r[i] = r[j]
      PROVE  i = j
  BY <1>1, <1>2, <1>4
<1>5. (IF k = 0 THEN s ELSE h) = r[1]
  BY <1>1, <1>2
<1>6. ASSUME NEW i \in 1 .. n + 1
      PROVE  u[r[i]].next = IF i = n + 1 THEN Clock!NULL ELSE r[i + 1]
  <2>1. CASE i < k
    BY <2>1, <1>1, <1>2
  <2>2. CASE i = k
    BY <2>2, <1>1, <1>2
  <2>3. CASE i = k + 1
    BY <2>3, <1>1, <1>2
  <2>4. CASE i > k + 1
    <3>1. r[i] = q[i - 1] /\ i - 1 \in 1 .. n /\ i - 1 # k
      BY <2>4, <1>2
    <3>2. u[r[i]].next = IF i - 1 = n THEN Clock!NULL ELSE q[(i - 1) + 1]
      BY <3>1, <1>1
    <3>3. i # n + 1 => i + 1 \in 1 .. n + 1 /\ r[i + 1] = q[i]
      BY <2>4, <1>2
    <3> QED
      BY <3>2, <3>3
  <2> QED
    BY <2>1, <2>2, <2>3, <2>4
<1>7. ASSUME NEW i \in 1 .. n
      PROVE  u[r[i]].endSleep <= u[r[i + 1]].endSleep
  <2>1. r[i] \in Clock!Slots /\ r[i + 1] \in Clock!Slots
    BY <1>3
  <2>2. CASE i < k
    BY <2>1, <2>2, <1>1, <1>2
  <2>3. CASE i = k
    BY <2>1, <2>3, <1>1, <1>2
  <2>4. CASE i = k + 1
    BY <2>1, <2>4, <1>1, <1>2
  <2>5. CASE i > k + 1
    <3>1. r[i] = q[i - 1] /\ r[i + 1] = q[i] /\ i - 1 \in 1 .. n - 1
      BY <2>5, <1>2
    <3> QED
      BY <3>1, <2>1, <1>1
  <2> QED
    BY <2>2, <2>3, <2>4, <2>5
<1> QED
  BY <1>3, <1>4, <1>5, <1>6, <1>7 DEF Chain, r

\* The queue without its first entry.
LEMMA ChainRest ==
    ASSUME NEW t, NEW h, NEW n \in Nat \ {0}, NEW q, Chain(t, h, q, n)
    PROVE  Chain(t, t[h].next, [i \in 1 .. n - 1 |-> q[i + 1]], n - 1)
<1> DEFINE r == [i \in 1 .. n - 1 |-> q[i + 1]]
<1>1. /\ q \in [1 .. n -> Clock!Slots]
      /\ \A i, j \in 1 .. n : q[i] = q[j] => i = j
      /\ h = q[1]
      /\ \A i \in 1 .. n : t[q[i]].next = IF i = n THEN Clock!NULL ELSE q[i + 1]
      /\ \A i \in 1 .. n - 1 : t[q[i]].endSleep <= t[q[i + 1]].endSleep
  BY DEF Chain
<1>2. r \in [1 .. n - 1 -> Clock!Slots] /\ \A i \in 1 .. n - 1 : r[i] = q[i + 1]
  BY <1>1
<1> HIDE DEF r
<1>3. ASSUME NEW i \in 1 .. n - 1, NEW j \in 1 .. n - 1, r[i] = r[j]
      PROVE  i = j
  <2>1. q[i + 1] = q[j + 1] /\ i + 1 \in 1 .. n /\ j + 1 \in 1 .. n
    BY <1>2, <1>3
  <2> QED
    BY <2>1, <1>1
<1>4. t[h].next = IF n - 1 = 0 THEN Clock!NULL ELSE r[1]
  BY <1>1, <1>2
<1>5. ASSUME NEW i \in 1 .. n - 1
      PROVE  t[r[i]].next = IF i = n - 1 THEN Clock!NULL ELSE r[i + 1]
  <2>1. i + 1 \in 1 .. n /\ r[i] = q[i + 1]
    BY <1>2
  <2>2. i # n - 1 => i + 1 \in 1 .. n - 1 /\ r[i + 1] = q[(i + 1) + 1]
    BY <1>2
  <2> QED
    BY <1>1, <2>1, <2>2
<1>6. ASSUME NEW i \in 1 .. (n - 1) - 1
      PROVE  t[r[i]].endSleep <= t[r[i + 1]].endSleep
  <2>1. i + 1 \in 1 .. n - 1 /\ r[i] = q[i + 1] /\ r[i + 1] = q[(i + 1) + 1]
    BY <1>2
  <2> QED
    BY <1>1, <2>1
<1> QED
  BY <1>2, <1>3, <1>4, <1>5, <1>6 DEF Chain, r

\* The first entry of a queue is the earliest.
LEMMA ChainSorted ==
    ASSUME NEW t, \A x \in Clock!Slots : t[x].endSleep \in Nat,
           NEW h, NEW n \in Nat, NEW q, Chain(t, h, q, n), NEW i \in 1 .. n
    PROVE  t[q[1]].endSleep <= t[q[i]].endSleep
<1> DEFINE Bad == {j \in 1 .. n : ~(t[q[1]].endSleep <= t[q[j]].endSleep)}
<1> SUFFICES ASSUME Bad # {} PROVE FALSE
  OBVIOUS
<1>1. /\ \A j \in 1 .. n : t[q[j]].endSleep \in Nat
      /\ \A j \in 1 .. n - 1 : t[q[j]].endSleep <= t[q[j + 1]].endSleep
  BY DEF Chain
<1>2. PICK j \in Bad : \A k \in Bad : j <= k
  <2>1. Bad \in SUBSET Nat
    OBVIOUS
  <2> HIDE DEF Bad
  <2> QED
    BY <2>1, Least
<1>3. j \in 1 .. n /\ ~(t[q[1]].endSleep <= t[q[j]].endSleep) /\ j # 1
  BY <1>1
<1>4. j - 1 \in 1 .. n - 1 /\ j - 1 \in 1 .. n /\ ~(j <= j - 1) /\ (j - 1) + 1 = j
  BY <1>3
<1>5. t[q[1]].endSleep <= t[q[j - 1]].endSleep
  BY <1>2, <1>4
<1>6. t[q[j - 1]].endSleep <= t[q[j]].endSleep
  BY <1>1, <1>4
<1>7. 1 \in 1 .. n
  BY <1>3
<1> QED
  BY <1>1, <1>3, <1>4, <1>5, <1>6, <1>7

\* addToPriorityQueue puts an entry without a link into its place.
LEMMA QueueInsert ==
    ASSUME NEW t \in [Clock!Slots -> Entry], NEW n \in Nat, NEW q,
           Chain(t, priorityQueueHead, q, n),
           NEW s \in Clock!Slots, \A i \in 1 .. n : q[i] # s,
           t[s].next = Clock!NULL
    PROVE  /\ ~Clock!InRing(t, s)
           /\ \E u \in [Clock!Slots -> Entry], h \in Clock!Slots, k \in 0 .. n :
                /\ Clock!addToPriorityQueue(t, s) = [head |-> h, table |-> u]
                /\ \A x \in Clock!Slots : /\ u[x].PID = t[x].PID
                                          /\ u[x].endSleep = t[x].endSleep
                /\ Chain(u, h, Inserted(q, n, k, s), n + 1)
<1> DEFINE priority == t[s].endSleep
           head == priorityQueueHead
<1>1. /\ \A x \in Clock!Slots : t[x] \in Entry /\ t[x].endSleep \in Nat
      /\ Clock!NULL \notin Clock!Slots
      /\ priority \in Nat
  BY ClockConstants DEF Entry, Clock!NULL, Clock!Slots
<1>2. /\ q \in [1 .. n -> Clock!Slots]
      /\ head = IF n = 0 THEN Clock!NULL ELSE q[1]
      /\ \A i \in 1 .. n : t[q[i]].next = IF i = n THEN Clock!NULL ELSE q[i + 1]
      /\ \A i, j \in 1 .. n : q[i] = q[j] => i = j
  BY DEF Chain
<1>3. CASE n = 0
  <2>1. head = Clock!NULL
    BY <1>2, <1>3
  <2>2. /\ ~Clock!InRing(t, s)
        /\ Clock!addToPriorityQueue(t, s) = [head |-> s, table |-> t]
    BY <2>1 DEF Clock!InRing, Clock!addToPriorityQueue
  <2>3. Chain(t, IF 0 = 0 THEN s ELSE head, Inserted(q, n, 0, s), n + 1)
    BY <1>2, <1>3, ChainInsert
  <2> QED
    BY <2>2, <2>3, <1>3
<1>4. CASE n # 0 /\ priority <= t[head].endSleep
  <2> DEFINE u == [t EXCEPT ![s].next = head]
  <2>1. head \in Clock!Slots /\ head = q[1] /\ head # Clock!NULL
    BY <1>1, <1>2, <1>4
  <2>2. ~Clock!InRing(t, s)
    <3>1. ~(priority > t[head].endSleep)
      BY <1>1, <1>4, <2>1
    <3> QED
      BY <3>1 DEF Clock!InRing
  <2>3. Clock!addToPriorityQueue(t, s) = [head |-> s, table |-> u]
    BY <1>4, <2>1 DEF Clock!addToPriorityQueue
  <2>4. u \in [Clock!Slots -> Entry]
    BY <2>1 DEF Entry
  <2>5. /\ \A x \in Clock!Slots : u[x].PID = t[x].PID /\ u[x].endSleep = t[x].endSleep
        /\ u[s].next = head
        /\ \A x \in Clock!Slots : x # s => u[x] = t[x]
    BY <1>1 DEF Entry
  <2> HIDE DEF u
  <2>6. Chain(u, IF 0 = 0 THEN s ELSE head, Inserted(q, n, 0, s), n + 1)
    <3>1. /\ 0 \in 0 .. n /\ ~(0 > 0) /\ 0 # n
          /\ t[s].endSleep <= t[q[0 + 1]].endSleep
          /\ u[s].next = q[0 + 1]
      BY <1>4, <2>1, <2>5
    <3>2. \A i \in 1 .. n : u[q[i]].next = t[q[i]].next
      BY <1>2, <2>5
    <3> QED
      BY <3>1, <3>2, <2>5, ChainInsert
  <2> QED
    BY <2>2, <2>3, <2>4, <2>5, <2>6
<1>5. CASE n # 0 /\ ~(priority <= t[head].endSleep)
  <2>1. head \in Clock!Slots /\ head = q[1] /\ head # Clock!NULL
    BY <1>1, <1>2, <1>5
  <2>2. PICK k \in 1 .. n : /\ Clock!Walk(t, priority) = q[k]
                            /\ t[q[k]].endSleep <= priority
                            /\ ~Clock!GoesOn(t, q[k], priority)
    BY <1>1, <1>5, WalkStops
  <2> DEFINE c == q[k]
             u == [t EXCEPT ![s].next = t[c].next, ![c].next = s]
  <2>3. c \in Clock!Slots /\ c # s
    BY <1>2
  <2>4. ~Clock!InRing(t, s)
    BY <2>2 DEF Clock!InRing
  <2>5. Clock!addToPriorityQueue(t, s) = [head |-> head, table |-> u]
    BY <1>5, <2>1, <2>2 DEF Clock!addToPriorityQueue
  <2>6. k < n => q[k + 1] \in Clock!Slots /\ t[c].next = q[k + 1]
    BY <1>2
  <2>7. k = n => t[c].next = Clock!NULL
    BY <1>2
  <2>8. k < n => t[s].endSleep <= t[q[k + 1]].endSleep
    <3> SUFFICES ASSUME k < n PROVE t[s].endSleep <= t[q[k + 1]].endSleep
      OBVIOUS
    <3>1. t[c].next # Clock!NULL /\ ~(t[t[c].next].endSleep <= priority)
      BY <1>1, <2>2, <2>6 DEF Clock!GoesOn
    <3>2. t[q[k + 1]].endSleep \in Nat
      BY <1>1, <2>6
    <3> QED
      BY <1>1, <2>6, <3>1, <3>2
  <2>9. t[c].next \in Clock!Slots \cup {Clock!NULL}
    BY <2>6, <2>7
  <2>10. /\ u \in [Clock!Slots -> Entry]
         /\ \A x \in Clock!Slots : u[x].PID = t[x].PID /\ u[x].endSleep = t[x].endSleep
         /\ u[s].next = t[c].next /\ u[c].next = s
         /\ \A x \in Clock!Slots : x # s /\ x # c => u[x] = t[x]
    BY <2>3, <2>9 DEF Entry
  <2> HIDE DEF u
  <2>11. Chain(u, IF k = 0 THEN s ELSE head, Inserted(q, n, k, s), n + 1)
    <3>1. /\ k \in 0 .. n /\ k > 0 /\ k # 0
          /\ u[s].next = IF k = n THEN Clock!NULL ELSE q[k + 1]
      BY <2>6, <2>7, <2>10
    <3>2. \A i \in 1 .. n : i # k => u[q[i]].next = t[q[i]].next
      BY <1>2, <2>10
    <3> QED
      BY <3>1, <3>2, <2>2, <2>8, <2>10, ChainInsert
  <2>12. k \in 0 .. n /\ k # 0
    OBVIOUS
  <2> QED
    BY <2>1, <2>4, <2>5, <2>10, <2>11, <2>12
<1> QED
  BY <1>3, <1>4, <1>5

\* Nobody sleeps at the start.
LEMMA ClockInit == Clock!Init => ClockInv
<1> SUFFICES ASSUME Clock!Init PROVE ClockInv
  OBVIOUS
<1> USE DEF Clock!Init
<1>1. ClockTypes
  BY ClockConstants DEF ClockTypes, Entry, Clock!Slots, Clock!NULL
<1>2. QueueSound
  <2> DEFINE q == [i \in 1 .. 0 |-> CHOOSE s \in Clock!Slots : TRUE]
  <2>1. q \in [1 .. 0 -> Clock!Slots]
    OBVIOUS
  <2>2. Chain(shadowProcessTable, priorityQueueHead, q, 0) /\ Lists(q, 0)
    BY <2>1 DEF Chain, Lists
  <2> HIDE DEF q
  <2> QED
    BY <2>1, <2>2 DEF QueueSound
<1>3. EntriesSound
  BY ClockConstants DEF EntriesSound, Clock!Slots, Clock!NULL
<1>4. OnTime
  BY DEF OnTime, Clock!OnTime, Clock!NotTooEarly, Clock!NotTooLate
<1> QED
  BY <1>1, <1>2, <1>3, <1>4 DEF ClockInv

\* A step that leaves the links alone and wakes nobody.
LEMMA QueueStays ==
    ASSUME QueueSound, UNCHANGED <<shadowProcessTable, priorityQueueHead>>,
           \A x \in Clock!Slots : sleeper'[x].asleep = sleeper[x].asleep
    PROVE  QueueSound'
<1>1. PICK n \in Nat : \E q \in [1 .. n -> Clock!Slots] :
        Chain(shadowProcessTable, priorityQueueHead, q, n) /\ Lists(q, n)
  BY DEF QueueSound
<1>2. PICK q \in [1 .. n -> Clock!Slots] :
        Chain(shadowProcessTable, priorityQueueHead, q, n) /\ Lists(q, n)
  BY <1>1
<1>3. Chain(shadowProcessTable, priorityQueueHead, q, n)'
  BY <1>2 DEF Chain
<1>4. Lists(q, n)'
  BY <1>2 DEF Lists
<1> QED
  BY <1>3, <1>4 DEF QueueSound

\* Sleep puts its process in line and lets the daemon wait for the clock.
LEMMA SleepKeeps ==
    ASSUME SleepsOnce, ClockInv, NEW s \in Clock!Slots, NEW seconds \in Seconds,
           Clock!ourSleep(s, seconds)
    PROVE  ClockInv'
<1> DEFINE end == seconds * TicksPerSecond + GLOBAL_CLOCK_TICKS
           made == [PID |-> sleeper[s].PID, endSleep |-> end, next |-> Clock!NULL]
           t == [shadowProcessTable EXCEPT ![s] = made]
<1>1. /\ shadowProcessTable \in [Clock!Slots -> Entry]
      /\ sleeper \in [Clock!Slots -> [PID : Nat \ {0}, asleep : BOOLEAN, since : Nat,
                                      until : Nat, calls : Nat]]
      /\ GLOBAL_CLOCK_TICKS \in Nat
      /\ receivesFrom = Clock!NULL
  BY DEF ClockInv, ClockTypes
<1>2. end \in Nat
  <2>1. seconds \in Nat /\ TicksPerSecond \in Nat
    BY ClockConstants
  <2>2. seconds * TicksPerSecond \in Nat
    BY <2>1
  <2> QED
    BY <2>2, <1>1
<1> HIDE DEF end
<1>3. cpu = "users" /\ ~sleeper[s].asleep /\ sleeper[s].calls < MaxSleeps
  BY DEF Clock!ourSleep
<1>4. sleeper[s].calls = 0 /\ receivesFrom # sleeper[s].PID /\ sleeper[s].PID \in Nat
  BY <1>1, <1>3, ClockConstants DEF SleepsOnce, Clock!NULL
<1>5. shadowProcessTable[s].PID # sleeper[s].PID
  BY <1>1, <1>4 DEF ClockInv, EntriesSound, Entry
<1>6. Clock!getProcess(s, end) = t
  BY <1>5 DEF Clock!getProcess, Clock!createShadowProcess
<1>7. t \in [Clock!Slots -> Entry]
  BY <1>1, <1>2, <1>4 DEF Entry
<1>8. t[s] = made /\ \A x \in Clock!Slots : x # s => t[x] = shadowProcessTable[x]
  BY <1>1
<1> HIDE DEF t
<1>9. PICK n \in Nat : \E q \in [1 .. n -> Clock!Slots] :
        Chain(shadowProcessTable, priorityQueueHead, q, n) /\ Lists(q, n)
  BY DEF ClockInv, QueueSound
<1>10. PICK q \in [1 .. n -> Clock!Slots] :
        Chain(shadowProcessTable, priorityQueueHead, q, n) /\ Lists(q, n)
  BY <1>9
<1>11. \A i \in 1 .. n : q[i] # s
  BY <1>3, <1>10 DEF Lists
<1>12. Chain(t, priorityQueueHead, q, n)
  <2>1. \A i \in 1 .. n : t[q[i]] = shadowProcessTable[q[i]]
    BY <1>8, <1>10, <1>11
  <2>2. \A i \in 1 .. n - 1 : i \in 1 .. n /\ i + 1 \in 1 .. n
    OBVIOUS
  <2> QED
    BY <1>10, <2>1, <2>2 DEF Chain
<1>13. ~Clock!InRing(t, s)
  BY <1>7, <1>8, <1>11, <1>12, QueueInsert
<1>14. \E u \in [Clock!Slots -> Entry], h \in Clock!Slots, k \in 0 .. n :
        /\ Clock!addToPriorityQueue(t, s) = [head |-> h, table |-> u]
        /\ \A x \in Clock!Slots : /\ u[x].PID = t[x].PID
                                  /\ u[x].endSleep = t[x].endSleep
        /\ Chain(u, h, Inserted(q, n, k, s), n + 1)
  <2>1. t[s].next = Clock!NULL
    BY <1>8
  <2> QED
    BY <2>1, <1>7, <1>11, <1>12, QueueInsert
<1>15. PICK u \in [Clock!Slots -> Entry], h \in Clock!Slots, k \in 0 .. n :
        /\ Clock!addToPriorityQueue(t, s) = [head |-> h, table |-> u]
        /\ \A x \in Clock!Slots : /\ u[x].PID = t[x].PID
                                  /\ u[x].endSleep = t[x].endSleep
        /\ Chain(u, h, Inserted(q, n, k, s), n + 1)
  BY <1>14
<1>16. /\ shadowProcessTable' = u /\ priorityQueueHead' = h
       /\ receivesFrom' = receivesFrom /\ cpu' = "users"
       /\ GLOBAL_CLOCK_TICKS' = GLOBAL_CLOCK_TICKS
       /\ sleeper' = [sleeper EXCEPT ![s].asleep = TRUE, ![s].since = GLOBAL_CLOCK_TICKS,
                                     ![s].until = end, ![s].calls = @ + 1]
  <2>1. /\ shadowProcessTable' = IF Clock!InRing(Clock!getProcess(s, end), s)
                                 THEN Clock!getProcess(s, end)
                                 ELSE Clock!addToPriorityQueue(Clock!getProcess(s, end), s).table
        /\ priorityQueueHead' = IF Clock!InRing(Clock!getProcess(s, end), s)
                                THEN priorityQueueHead
                                ELSE Clock!addToPriorityQueue(Clock!getProcess(s, end), s).head
        /\ cpu' = IF Clock!InRing(Clock!getProcess(s, end), s) THEN "ring"
                  ELSE IF receivesFrom = sleeper[s].PID THEN "daemon" ELSE "users"
        /\ receivesFrom' = IF receivesFrom = sleeper[s].PID THEN Clock!NULL ELSE receivesFrom
        /\ GLOBAL_CLOCK_TICKS' = GLOBAL_CLOCK_TICKS
    BY DEF Clock!ourSleep, end
  <2>2. sleeper' = [sleeper EXCEPT ![s].asleep = ~(receivesFrom = sleeper[s].PID),
                                   ![s].since = GLOBAL_CLOCK_TICKS,
                                   ![s].until = end, ![s].calls = @ + 1]
    BY DEF Clock!ourSleep, end
  <2>3. (~(receivesFrom = sleeper[s].PID)) = TRUE
    BY <1>4
  <2>4. sleeper' = [sleeper EXCEPT ![s].asleep = TRUE, ![s].since = GLOBAL_CLOCK_TICKS,
                                   ![s].until = end, ![s].calls = @ + 1]
    BY <2>2, <2>3
  <2>5. [head |-> h, table |-> u].table = u /\ [head |-> h, table |-> u].head = h
    OBVIOUS
  <2> QED
    BY <2>1, <2>4, <2>5, <1>4, <1>6, <1>13, <1>15
<1>17. /\ sleeper' \in [Clock!Slots -> [PID : Nat \ {0}, asleep : BOOLEAN, since : Nat,
                                        until : Nat, calls : Nat]]
       /\ \A x \in Clock!Slots : x # s => sleeper'[x] = sleeper[x]
       /\ sleeper'[s].asleep /\ sleeper'[s].PID = sleeper[s].PID
       /\ sleeper'[s].since = GLOBAL_CLOCK_TICKS /\ sleeper'[s].until = end
       /\ sleeper'[s].calls = 1
  <2> DEFINE k1 == [sleeper[s] EXCEPT !.asleep = TRUE, !.since = GLOBAL_CLOCK_TICKS,
                                      !.until = end, !.calls = @ + 1]
  <2>1. /\ k1 \in [PID : Nat \ {0}, asleep : BOOLEAN, since : Nat, until : Nat, calls : Nat]
        /\ k1.asleep /\ k1.PID = sleeper[s].PID /\ k1.since = GLOBAL_CLOCK_TICKS
        /\ k1.until = end /\ k1.calls = 1
    <3>1. /\ sleeper[s] \in [PID : Nat \ {0}, asleep : BOOLEAN, since : Nat, until : Nat,
                              calls : Nat]
          /\ sleeper[s].calls + 1 = 1 /\ TRUE \in BOOLEAN
      BY <1>1, <1>4
    <3> DEFINE Rec == [PID : Nat \ {0}, asleep : BOOLEAN, since : Nat, until : Nat,
                       calls : Nat]
               r1 == [sleeper[s] EXCEPT !.asleep = TRUE]
               r2 == [r1 EXCEPT !.since = GLOBAL_CLOCK_TICKS]
               r3 == [r2 EXCEPT !.until = end]
               r4 == [r3 EXCEPT !.calls = @ + 1]
    <3>2. /\ r1 \in Rec /\ r1.asleep /\ r1.PID = sleeper[s].PID
          /\ r1.calls = sleeper[s].calls
      BY <3>1
    <3>7. k1 = r4
      OBVIOUS
    <3> HIDE DEF r1, k1
    <3>3. /\ r2 \in Rec /\ r2.asleep /\ r2.PID = r1.PID /\ r2.calls = r1.calls
          /\ r2.since = GLOBAL_CLOCK_TICKS
      BY <3>2, <1>1
    <3> HIDE DEF r2
    <3>4. /\ r3 \in Rec /\ r3.asleep /\ r3.PID = r2.PID /\ r3.calls = r2.calls
          /\ r3.since = r2.since /\ r3.until = end
      BY <3>3, <1>2
    <3> HIDE DEF r3
    <3>5. r3.calls + 1 = 1
      BY <3>1, <3>2, <3>3, <3>4
    <3>6. /\ r4 \in Rec /\ r4.asleep /\ r4.PID = r3.PID /\ r4.calls = 1
          /\ r4.since = r3.since /\ r4.until = end
      BY <3>4, <3>5
    <3> HIDE DEF r4
    <3> QED
      BY <3>2, <3>3, <3>4, <3>6, <3>7
  <2>2. sleeper' = [sleeper EXCEPT ![s] = k1]
    BY <1>1, <1>16
  <2> HIDE DEF k1
  <2> QED
    BY <2>1, <2>2, <1>1
<1>18. ClockTypes'
  BY <1>1, <1>15, <1>16, <1>17 DEF ClockTypes
<1>19. QueueSound'
  <2> DEFINE r == Inserted(q, n, k, s)
  <2>1. r \in [1 .. n + 1 -> Clock!Slots] /\ n + 1 \in Nat
    BY <1>10 DEF Inserted
  <2>2. ASSUME NEW x \in Clock!Slots
        PROVE  (\E i \in 1 .. n + 1 : r[i] = x) <=> (x = s \/ \E i \in 1 .. n : q[i] = x)
    <3>1. \A i \in 1 .. n + 1 :
            r[i] = IF i <= k THEN q[i] ELSE IF i = k + 1 THEN s ELSE q[i - 1]
      BY DEF Inserted
    <3> HIDE DEF r
    <3>2. ASSUME NEW i \in 1 .. n + 1, r[i] = x
          PROVE  x = s \/ \E j \in 1 .. n : q[j] = x
      <4>1. CASE i <= k
        BY <3>1, <3>2, <4>1
      <4>2. CASE i = k + 1
        BY <3>1, <3>2, <4>2
      <4>3. CASE i > k + 1
        <5>1. i - 1 \in 1 .. n /\ q[i - 1] = x
          BY <3>1, <3>2, <4>3
        <5> QED
          BY <5>1
      <4> QED
        BY <4>1, <4>2, <4>3
    <3>3. ASSUME x = s
          PROVE  \E i \in 1 .. n + 1 : r[i] = x
      <4>1. k + 1 \in 1 .. n + 1 /\ r[k + 1] = s
        BY <3>1
      <4> QED
        BY <4>1, <3>3
    <3>4. ASSUME NEW j \in 1 .. n, q[j] = x
          PROVE  \E i \in 1 .. n + 1 : r[i] = x
      <4>1. CASE j <= k
        <5>1. j \in 1 .. n + 1 /\ r[j] = q[j]
          BY <3>1, <4>1
        <5> QED
          BY <5>1, <3>4
      <4>2. CASE j > k
        <5>1. j + 1 \in 1 .. n + 1 /\ r[j + 1] = q[j]
          BY <3>1, <4>2
        <5> QED
          BY <5>1, <3>4
      <4> QED
        BY <4>1, <4>2
    <3> QED
      BY <3>2, <3>3, <3>4
  <2> HIDE DEF r
  <2>3. \A x \in Clock!Slots : sleeper'[x].asleep <=> \E i \in 1 .. n + 1 : r[i] = x
    BY <1>10, <1>17, <2>2 DEF Lists
  <2>4. Chain(shadowProcessTable, priorityQueueHead, r, n + 1)'
    <3>1. Chain(u, h, r, n + 1)
      BY <1>15 DEF r
    <3> QED
      BY <3>1, <1>16 DEF Chain
  <2> QED
    BY <2>1, <2>3, <2>4 DEF QueueSound, Lists
<1>20. EntriesSound'
  <2> SUFFICES ASSUME NEW x \in Clock!Slots
               PROVE  /\ sleeper'[x].asleep =>
                            /\ u[x].PID = sleeper'[x].PID
                            /\ u[x].endSleep = sleeper'[x].until
                      /\ u[x].PID <= sleeper'[x].PID
                      /\ sleeper'[x].calls = 0 => u[x].PID < sleeper'[x].PID
    BY <1>16 DEF EntriesSound
  <2>1. CASE x = s
    <3>1. u[s].PID = sleeper[s].PID /\ u[s].endSleep = end
      BY <1>8, <1>15
    <3>2. sleeper[s].PID \in Nat /\ sleeper[s].PID <= sleeper[s].PID
      BY <1>4
    <3>3. u[s].PID = sleeper'[s].PID /\ u[s].endSleep = sleeper'[s].until
      BY <3>1, <1>17
    <3>4. u[s].PID <= sleeper'[s].PID
      BY <3>2, <3>3, <1>17
    <3>5. sleeper'[s].calls # 0
      BY <1>17
    <3> QED
      BY <3>3, <3>4, <3>5, <2>1
  <2>2. CASE x # s
    <3>1. /\ sleeper[x].asleep =>
                /\ shadowProcessTable[x].PID = sleeper[x].PID
                /\ shadowProcessTable[x].endSleep = sleeper[x].until
          /\ shadowProcessTable[x].PID <= sleeper[x].PID
          /\ sleeper[x].calls = 0 => shadowProcessTable[x].PID < sleeper[x].PID
      BY DEF ClockInv, EntriesSound
    <3>2. /\ u[x].PID = shadowProcessTable[x].PID
          /\ u[x].endSleep = shadowProcessTable[x].endSleep
          /\ sleeper'[x] = sleeper[x]
      BY <2>2, <1>8, <1>15, <1>17
    <3> QED
      BY <3>1, <3>2
  <2> QED
    BY <2>1, <2>2
<1>21. OnTime'
  BY <1>3, <1>16, <1>17
  DEF ClockInv, OnTime, Clock!OnTime, Clock!NotTooEarly, Clock!NotTooLate
<1> QED
  BY <1>18, <1>19, <1>20, <1>21 DEF ClockInv

\* A new process in a slot has a PID that no entry was made for.
LEMMA ReplaceKeeps ==
    ASSUME ClockInv, NEW s \in Clock!Slots, Clock!Replace(s)
    PROVE  ClockInv'
<1>1. /\ sleeper \in [Clock!Slots -> [PID : Nat \ {0}, asleep : BOOLEAN, since : Nat,
                                      until : Nat, calls : Nat]]
      /\ shadowProcessTable \in [Clock!Slots -> Entry]
  BY DEF ClockInv, ClockTypes
<1>2. /\ ~sleeper[s].asleep
      /\ sleeper' = [sleeper EXCEPT ![s].PID = @ + MAXPROC, ![s].calls = 0]
      /\ UNCHANGED <<GLOBAL_CLOCK_TICKS, shadowProcessTable, priorityQueueHead,
                     cpu, receivesFrom>>
  BY DEF Clock!Replace
<1>3. /\ sleeper' \in [Clock!Slots -> [PID : Nat \ {0}, asleep : BOOLEAN, since : Nat,
                                       until : Nat, calls : Nat]]
      /\ \A x \in Clock!Slots : x # s => sleeper'[x] = sleeper[x]
      /\ sleeper'[s].asleep = sleeper[s].asleep /\ sleeper'[s].PID > sleeper[s].PID
      /\ sleeper'[s].since = sleeper[s].since /\ sleeper'[s].until = sleeper[s].until
  <2> DEFINE k == [sleeper[s] EXCEPT !.PID = @ + MAXPROC, !.calls = 0]
  <2>1. /\ k \in [PID : Nat \ {0}, asleep : BOOLEAN, since : Nat, until : Nat, calls : Nat]
        /\ k.asleep = sleeper[s].asleep /\ k.PID > sleeper[s].PID
        /\ k.since = sleeper[s].since /\ k.until = sleeper[s].until
    <3>1. /\ sleeper[s] \in [PID : Nat \ {0}, asleep : BOOLEAN, since : Nat, until : Nat,
                              calls : Nat]
          /\ sleeper[s].PID + MAXPROC \in Nat \ {0}
          /\ sleeper[s].PID + MAXPROC > sleeper[s].PID /\ 0 \in Nat
      <4>1. sleeper[s].PID \in Nat \ {0}
        BY <1>1
      <4> QED
        BY <4>1, <1>1, ClockConstants
    <3> QED
      BY <3>1
  <2>2. sleeper' = [sleeper EXCEPT ![s] = k]
    BY <1>1, <1>2
  <2> HIDE DEF k
  <2> QED
    BY <2>1, <2>2, <1>1
<1>4. \A x \in Clock!Slots : /\ sleeper'[x].asleep = sleeper[x].asleep
                             /\ sleeper'[x].since = sleeper[x].since
                             /\ sleeper'[x].until = sleeper[x].until
  BY <1>3
<1>5. ClockTypes'
  BY <1>2, <1>3 DEF ClockInv, ClockTypes
<1>6. QueueSound'
  BY <1>2, <1>4, QueueStays DEF ClockInv
<1>7. EntriesSound'
  <2> SUFFICES ASSUME NEW x \in Clock!Slots
               PROVE  /\ sleeper'[x].asleep =>
                            /\ shadowProcessTable[x].PID = sleeper'[x].PID
                            /\ shadowProcessTable[x].endSleep = sleeper'[x].until
                      /\ shadowProcessTable[x].PID <= sleeper'[x].PID
                      /\ sleeper'[x].calls = 0 =>
                            shadowProcessTable[x].PID < sleeper'[x].PID
    BY <1>2 DEF EntriesSound
  <2>1. CASE x = s
    <3>1. shadowProcessTable[s].PID <= sleeper[s].PID
      BY DEF ClockInv, EntriesSound
    <3>2. shadowProcessTable[s].PID \in Nat /\ sleeper[s].PID \in Nat /\ sleeper'[s].PID \in Nat
      BY <1>1, <1>3 DEF Entry
    <3>3. shadowProcessTable[s].PID < sleeper'[s].PID
      BY <3>1, <3>2, <1>3
    <3> QED
      BY <2>1, <3>2, <3>3, <1>2, <1>3
  <2>2. CASE x # s
    BY <2>2, <1>3 DEF ClockInv, EntriesSound
  <2> QED
    BY <2>1, <2>2
<1>8. OnTime'
  BY <1>2, <1>4 DEF ClockInv, OnTime, Clock!OnTime, Clock!NotTooEarly, Clock!NotTooLate
<1> QED
  BY <1>5, <1>6, <1>7, <1>8 DEF ClockInv

\* A tick.
LEMMA TickKeeps ==
    ASSUME ClockInv, Clock!daemonProcessMain
    PROVE  ClockInv'
<1> USE DEF Clock!daemonProcessMain
<1>1. ClockTypes'
  BY DEF ClockInv, ClockTypes
<1>2. QueueSound'
  BY QueueStays DEF ClockInv
<1>3. EntriesSound'
  BY DEF ClockInv, EntriesSound
<1>4. OnTime'
  BY DEF ClockInv, ClockTypes, OnTime, Clock!OnTime, Clock!NotTooEarly, Clock!NotTooLate
<1> QED
  BY <1>1, <1>2, <1>3, <1>4 DEF ClockInv

\* The daemon takes the first entry off, whose process waits at its mailbox.
LEMMA RemoveKeeps ==
    ASSUME ClockInv, Clock!removeFromPriorityQueue
    PROVE  ClockInv'
<1> DEFINE p == priorityQueueHead
<1>1. /\ sleeper \in [Clock!Slots -> [PID : Nat \ {0}, asleep : BOOLEAN, since : Nat,
                                      until : Nat, calls : Nat]]
      /\ shadowProcessTable \in [Clock!Slots -> Entry]
      /\ GLOBAL_CLOCK_TICKS \in Nat
  BY DEF ClockInv, ClockTypes
<1>2. p # Clock!NULL /\ GLOBAL_CLOCK_TICKS >= shadowProcessTable[p].endSleep
  BY DEF Clock!removeFromPriorityQueue, Clock!Due
<1>3. PICK n \in Nat : \E q \in [1 .. n -> Clock!Slots] :
        Chain(shadowProcessTable, priorityQueueHead, q, n) /\ Lists(q, n)
  BY DEF ClockInv, QueueSound
<1>4. PICK q \in [1 .. n -> Clock!Slots] :
        Chain(shadowProcessTable, priorityQueueHead, q, n) /\ Lists(q, n)
  BY <1>3
<1>5. n # 0 /\ p = q[1] /\ p \in Clock!Slots /\ 1 \in 1 .. n
  BY <1>2, <1>4 DEF Chain
<1>6. sleeper[p].asleep
  BY <1>4, <1>5 DEF Lists
<1>7. shadowProcessTable[p].PID = sleeper[p].PID
      /\ shadowProcessTable[p].endSleep = sleeper[p].until
  BY <1>5, <1>6 DEF ClockInv, EntriesSound
<1>8. /\ priorityQueueHead' = shadowProcessTable[p].next
      /\ sleeper' = [sleeper EXCEPT ![p].asleep = FALSE]
      /\ receivesFrom' = Clock!NULL /\ cpu' = "daemon"
      /\ UNCHANGED <<GLOBAL_CLOCK_TICKS, shadowProcessTable>>
  BY <1>6, <1>7 DEF Clock!removeFromPriorityQueue
<1>9. /\ sleeper' \in [Clock!Slots -> [PID : Nat \ {0}, asleep : BOOLEAN, since : Nat,
                                       until : Nat, calls : Nat]]
      /\ \A x \in Clock!Slots : x # p => sleeper'[x] = sleeper[x]
      /\ ~sleeper'[p].asleep /\ sleeper'[p].PID = sleeper[p].PID
      /\ sleeper'[p].until = sleeper[p].until /\ sleeper'[p].calls = sleeper[p].calls
  BY <1>1, <1>5, <1>8
<1>10. ClockTypes'
  <2>1. shadowProcessTable[p].next \in Clock!Slots \cup {Clock!NULL}
    BY <1>1, <1>5 DEF Entry
  <2> QED
    BY <2>1, <1>8, <1>9 DEF ClockInv, ClockTypes
<1>11. QueueSound'
  <2> DEFINE r == [i \in 1 .. n - 1 |-> q[i + 1]]
  <2>1. n - 1 \in Nat /\ r \in [1 .. n - 1 -> Clock!Slots]
    BY <1>4, <1>5
  <2>2. Chain(shadowProcessTable, shadowProcessTable[p].next, r, n - 1)
    BY <1>4, <1>5, ChainRest
  <2>3. \A i, j \in 1 .. n : q[i] = q[j] => i = j
    BY <1>4 DEF Chain
  <2>4. \A i \in 1 .. n - 1 : r[i] = q[i + 1]
    OBVIOUS
  <2> HIDE DEF r
  <2>5. ASSUME NEW x \in Clock!Slots
        PROVE  sleeper'[x].asleep <=> \E i \in 1 .. n - 1 : r[i] = x
    <3>1. sleeper[x].asleep <=> \E i \in 1 .. n : q[i] = x
      BY <1>4 DEF Lists
    <3>2. ASSUME NEW i \in 1 .. n - 1, r[i] = x
          PROVE  sleeper'[x].asleep
      <4>1. i + 1 \in 1 .. n /\ q[i + 1] = x /\ i + 1 # 1
        BY <2>4, <3>2
      <4>2. x # p
        BY <4>1, <2>3, <1>5
      <4> QED
        BY <4>1, <4>2, <3>1, <1>9
    <3>3. ASSUME sleeper'[x].asleep
          PROVE  \E i \in 1 .. n - 1 : r[i] = x
      <4>1. x # p /\ sleeper[x].asleep
        BY <3>3, <1>9
      <4>2. PICK j \in 1 .. n : q[j] = x
        BY <4>1, <3>1
      <4>3. j # 1
        BY <4>1, <4>2, <1>5
      <4>4. j - 1 \in 1 .. n - 1 /\ (j - 1) + 1 = j
        BY <4>3
      <4>5. r[j - 1] = x
        BY <4>2, <4>4, <2>4
      <4> QED
        BY <4>4, <4>5
    <3> QED
      BY <3>2, <3>3
  <2>6. Chain(shadowProcessTable, priorityQueueHead, r, n - 1)'
    BY <2>2, <1>8 DEF Chain
  <2> QED
    BY <2>1, <2>5, <2>6 DEF QueueSound, Lists
<1>12. EntriesSound'
  BY <1>8, <1>9 DEF ClockInv, EntriesSound
<1>13. OnTime'
  <2>1. ASSUME NEW x \in Clock!Slots
        PROVE  sleeper'[x].asleep \/ GLOBAL_CLOCK_TICKS >= sleeper'[x].until
    <3>1. CASE x = p
      BY <3>1, <1>2, <1>7, <1>9
    <3>2. CASE x # p
      BY <3>2, <1>9 DEF ClockInv, OnTime, Clock!OnTime, Clock!NotTooEarly
    <3> QED
      BY <3>1, <3>2
  <2> QED
    BY <2>1, <1>8 DEF OnTime, Clock!OnTime, Clock!NotTooEarly, Clock!NotTooLate
<1> QED
  BY <1>10, <1>11, <1>12, <1>13 DEF ClockInv

\* The daemon is done with the tick when the first entry is not due, for then
\* none is.
LEMMA WaitKeeps ==
    ASSUME ClockInv, Clock!waitDevice
    PROVE  ClockInv'
<1>1. /\ sleeper \in [Clock!Slots -> [PID : Nat \ {0}, asleep : BOOLEAN, since : Nat,
                                      until : Nat, calls : Nat]]
      /\ shadowProcessTable \in [Clock!Slots -> Entry]
      /\ GLOBAL_CLOCK_TICKS \in Nat
  BY DEF ClockInv, ClockTypes
<1>2. /\ cpu' = "users"
      /\ UNCHANGED <<GLOBAL_CLOCK_TICKS, shadowProcessTable, priorityQueueHead, sleeper,
                     receivesFrom>>
  BY DEF Clock!waitDevice
<1>3. ASSUME NEW x \in Clock!Slots, sleeper[x].asleep
      PROVE  GLOBAL_CLOCK_TICKS < sleeper[x].until
  <2>1. PICK n \in Nat : \E q \in [1 .. n -> Clock!Slots] :
            Chain(shadowProcessTable, priorityQueueHead, q, n) /\ Lists(q, n)
    BY DEF ClockInv, QueueSound
  <2>2. PICK q \in [1 .. n -> Clock!Slots] :
            Chain(shadowProcessTable, priorityQueueHead, q, n) /\ Lists(q, n)
    BY <2>1
  <2>3. PICK i \in 1 .. n : q[i] = x
    BY <2>2, <1>3 DEF Lists
  <2>4. priorityQueueHead = q[1] /\ q[1] \in Clock!Slots /\ priorityQueueHead # Clock!NULL
    BY <2>2, <2>3, ClockConstants DEF Chain, Clock!Slots, Clock!NULL
  <2>5. \A y \in Clock!Slots : shadowProcessTable[y].endSleep \in Nat
    BY <1>1 DEF Entry
  <2>6. shadowProcessTable[q[1]].endSleep <= shadowProcessTable[x].endSleep
    BY <2>2, <2>3, <2>5, ChainSorted
  <2>7. ~(GLOBAL_CLOCK_TICKS >= shadowProcessTable[q[1]].endSleep)
    BY <2>4 DEF Clock!waitDevice, Clock!Due
  <2>8. shadowProcessTable[x].endSleep = sleeper[x].until
    BY <1>3 DEF ClockInv, EntriesSound
  <2> QED
    BY <1>1, <2>4, <2>5, <2>6, <2>7, <2>8
<1>4. ClockTypes'
  BY <1>2 DEF ClockInv, ClockTypes
<1>5. QueueSound'
  BY <1>2, QueueStays DEF ClockInv
<1>6. EntriesSound'
  BY <1>2 DEF ClockInv, EntriesSound
<1>7. OnTime'
  BY <1>2, <1>3 DEF ClockInv, OnTime, Clock!OnTime, Clock!NotTooEarly, Clock!NotTooLate
<1> QED
  BY <1>4, <1>5, <1>6, <1>7 DEF ClockInv

\* Every step of the system keeps the sleepers in line.
LEMMA ClockStep ==
    ASSUME SleepsOnce, ClockInv, [Next]_vars
    PROVE  ClockInv'
<1>1. CASE UNCHANGED clockVars
  <2> USE <1>1 DEF clockVars
  <2>1. ClockTypes'
    BY DEF ClockInv, ClockTypes
  <2>2. QueueSound'
    BY QueueStays DEF ClockInv
  <2>3. EntriesSound'
    BY DEF ClockInv, EntriesSound
  <2>4. OnTime'
    BY DEF ClockInv, OnTime, Clock!OnTime, Clock!NotTooEarly, Clock!NotTooLate
  <2> QED
    BY <2>1, <2>2, <2>3, <2>4 DEF ClockInv
<1>2. CASE Clock!Next
  BY <1>2, SleepKeeps, ReplaceKeeps, TickKeeps, RemoveKeeps, WaitKeeps DEF Clock!Next
<1> QED
  BY <1>1, <1>2 DEF Next, vars

\* A sleeper wakes up at its tick, neither before nor after, however many sleep
\* and whenever they have called, as long as no process sleeps twice (the second
\* time its old link would come back with it).
THEOREM SleepersWakeOnTime ==
    ASSUME SleepsOnce
    PROVE  Spec => []OnTime
<1>1. Init => ClockInv
  BY ClockInit DEF Init
<1>2. ClockInv /\ [Next]_vars => ClockInv'
  BY ClockStep
<1>3. ClockInv => OnTime
  BY DEF ClockInv
<1> QED
  BY <1>1, <1>2, <1>3, PTL DEF Spec

=============================================================================
