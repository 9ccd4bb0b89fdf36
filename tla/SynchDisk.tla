----------------------------- MODULE SynchDisk -----------------------------
(***************************************************************************)
(* The simulated disk (machine/disk.cc) and the synchronous interface the  *)
(* file system uses (filesys/synchdisk.cc).  A request moves its data at   *)
(* once and schedules an interrupt for the tick at which a real disk would *)
(* be done: after the seek, the rotation to the sector and the transfer,   *)
(* or after the transfer alone if the track buffer holds the sector.       *)
(*                                                                         *)
(* Lock and semaphore are used by their contract (module Synch): Acquire   *)
(* takes a free lock, P takes a positive count.  A thread is preempted     *)
(* only inside those calls, so the code between two of them is one step.   *)
(***************************************************************************)
EXTENDS Integers, FiniteSets

CONSTANTS
    Thread,
    SectorsPerTrack, NumTracks,
    SeekTime,       \* ticks to seek past one track
    RotationTime,   \* ticks to rotate past one sector
    Data,           \* what a sector can hold
    Zero,           \* what a fresh disk holds
    LastCall,       \* bound: no call is made after this tick
    MaxLate,        \* bound: ticks an interrupt may be late (interrupts off)
    NULL

ASSUME DiskAssumption ==
    /\ {SectorsPerTrack, NumTracks, SeekTime, RotationTime} \subseteq Nat \ {0}
    /\ {LastCall, MaxLate} \subseteq Nat
    /\ Zero \in Data
    /\ NULL \notin Thread \cup Nat

NumSectors == SectorsPerTrack * NumTracks
Sector == 0..(NumSectors - 1)

(* ReadSector(sector) or WriteSector(sector, data); at and when are        *)
(* history: the ticks of the request and of its interrupt.                 *)
Call == [writing : BOOLEAN, sector : Sector, data : Data, at : Nat, when : Nat]

VARIABLES
    totalTicks,   \* kernel->stats->totalTicks
    contents,     \* the UNIX file that simulates the disk
    active, lastSector, bufferInit,     \* Disk
    pending,      \* when the disk interrupt is due; NULL: none scheduled
    holder,       \* the thread inside lock
    semaphore,    \* its value
    pc, call,     \* where each thread is, and in which call
    arrival       \* history: when the head reached its track

deviceVars == << contents, active, lastSector, bufferInit, pending, arrival >>
vars == << totalTicks, deviceVars, holder, semaphore, pc, call >>

TypeOK ==
    /\ totalTicks \in Nat
    /\ contents \in [Sector -> Data]
    /\ active \in BOOLEAN
    /\ lastSector \in Sector
    /\ bufferInit \in Nat
    /\ pending \in Nat \cup {NULL}
    /\ holder \in Thread \cup {NULL}
    /\ semaphore \in {0, 1}
    /\ pc \in [Thread -> {"idle", "acquire", "request", "wait", "release"}]
    /\ call \in [Thread -> Call \cup {NULL}]
    /\ arrival \in Nat

(* Both constructors, on a disk file that was just created. *)
DiskInit ==
    /\ contents = [s \in Sector |-> Zero]
    /\ active = FALSE
    /\ lastSector = 0
    /\ bufferInit = 0
    /\ pending = NULL
SynchDiskInit ==
    /\ holder = NULL
    /\ semaphore = 0

Init ==
    /\ DiskInit /\ SynchDiskInit
    /\ totalTicks = 0
    /\ pc = [t \in Thread |-> "idle"]
    /\ call = [t \in Thread |-> NULL]
    /\ arrival = 0

-----------------------------------------------------------------------------
(* How long a request takes.                                               *)

Track(s) == s \div SectorsPerTrack
Distance(a, b) == IF a > b THEN a - b ELSE b - a

(* TimeToSeek: the seek, and the rest of the sector the head lands in. *)
Seek(s) == Distance(Track(s), Track(lastSector)) * SeekTime
Over(s) == (totalTicks + Seek(s)) % RotationTime
Rotation(s) == IF Over(s) > 0 THEN RotationTime - Over(s) ELSE 0
TimeAfter(s) == totalTicks + Seek(s) + Rotation(s)

ModuloDiff(to, from) ==
    (((to % SectorsPerTrack) - (from % SectorsPerTrack)) + SectorsPerTrack) % SectorsPerTrack

(* Mutant: a sector counts as buffered while the head is still over it. *)
BufferedEarly(s) ==
    (TimeAfter(s) - bufferInit) \div RotationTime >= ModuloDiff(s, bufferInit \div RotationTime)

(* The track buffer has sector s of the current track. *)
Buffered(s) ==
    (TimeAfter(s) - bufferInit) \div RotationTime > ModuloDiff(s, bufferInit \div RotationTime)

ComputeLatency(s, writing) ==
    IF ~writing /\ Seek(s) = 0 /\ Buffered(s)
    THEN RotationTime
    ELSE Seek(s) + Rotation(s) + ModuloDiff(s, TimeAfter(s) \div RotationTime) * RotationTime
           + RotationTime

UpdateLast(s) ==
    /\ lastSector' = s
    /\ bufferInit' = IF Seek(s) # 0 THEN TimeAfter(s) ELSE bufferInit
    /\ arrival' = IF Seek(s) # 0 THEN totalTicks + Seek(s) ELSE arrival

-----------------------------------------------------------------------------
(* SynchDisk::ReadSector, WriteSector: Acquire, request, P, Release.       *)

Start(t) ==
    /\ pc[t] = "idle"
    /\ totalTicks <= LastCall
    /\ \E w \in BOOLEAN, s \in Sector, d \in Data :
         /\ ~w => d = Zero
         /\ call' = [call EXCEPT ![t] = [writing |-> w, sector |-> s, data |-> d,
                                         at |-> 0, when |-> 0]]
    /\ pc' = [pc EXCEPT ![t] = "acquire"]
    /\ UNCHANGED << totalTicks, deviceVars, holder, semaphore >>

(* Mutant: the lock is forgotten. *)
AcquireNothing(t) ==
    /\ pc[t] = "acquire"
    /\ holder' = t
    /\ pc' = [pc EXCEPT ![t] = "request"]
    /\ UNCHANGED << totalTicks, deviceVars, semaphore, call >>

Acquire(t) ==
    /\ pc[t] = "acquire"
    /\ holder = NULL
    /\ holder' = t
    /\ pc' = [pc EXCEPT ![t] = "request"]
    /\ UNCHANGED << totalTicks, deviceVars, semaphore, call >>

(* Disk::ReadRequest, WriteRequest: the transfer happens at once.  That    *)
(* the disk is not active, which both ASSERT, is the invariant             *)
(* OneRequestAtATime.                                                      *)
Request(t) ==
    LET c == call[t]
        due == totalTicks + ComputeLatency(c.sector, c.writing)
    IN  /\ pc[t] = "request"
        /\ contents' = IF c.writing THEN [contents EXCEPT ![c.sector] = c.data] ELSE contents
        /\ active' = TRUE
        /\ UpdateLast(c.sector)
        /\ pending' = due
        /\ call' = [call EXCEPT ![t] = [c EXCEPT !.data = contents'[c.sector],
                                                 !.at = totalTicks, !.when = due]]
        /\ pc' = [pc EXCEPT ![t] = "wait"]
        /\ UNCHANGED << totalTicks, holder, semaphore >>

(* Mutant: the caller does not wait for the interrupt. *)
PDropped(t) ==
    /\ pc[t] = "wait"
    /\ pc' = [pc EXCEPT ![t] = "release"]
    /\ UNCHANGED << totalTicks, deviceVars, holder, call, semaphore >>

(* Mutant: the lock is given up before the wait. *)
PUnlocked(t) ==
    /\ pc[t] = "wait"
    /\ \/ holder = t /\ holder' = NULL /\ UNCHANGED << semaphore, pc >>
       \/ /\ semaphore > 0
          /\ semaphore' = semaphore - 1
          /\ pc' = [pc EXCEPT ![t] = "release"]
          /\ UNCHANGED holder
    /\ UNCHANGED << totalTicks, deviceVars, call >>

P(t) ==
    /\ pc[t] = "wait"
    /\ semaphore > 0
    /\ semaphore' = semaphore - 1
    /\ pc' = [pc EXCEPT ![t] = "release"]
    /\ UNCHANGED << totalTicks, deviceVars, holder, call >>

(* Mutant: the lock is never released. *)
ReleaseNothing(t) ==
    /\ pc[t] = "release"
    /\ pc' = [pc EXCEPT ![t] = "idle"]
    /\ call' = [call EXCEPT ![t] = NULL]
    /\ UNCHANGED << totalTicks, deviceVars, semaphore, holder >>

(* Lock::Release and the return. *)
Release(t) ==
    /\ pc[t] = "release"
    /\ holder' = NULL
    /\ pc' = [pc EXCEPT ![t] = "idle"]
    /\ call' = [call EXCEPT ![t] = NULL]
    /\ UNCHANGED << totalTicks, deviceVars, semaphore >>

(* SynchDisk::CallBack: V. *)
RequestDone == semaphore' = semaphore + 1

(* The interrupt: Disk::CallBack, then SynchDisk::CallBack. *)
CallBack ==
    /\ pending # NULL
    /\ pending <= totalTicks
    /\ pending' = NULL
    /\ active' = FALSE
    /\ RequestDone
    /\ UNCHANGED << totalTicks, contents, lastSector, bufferInit, arrival, holder, pc, call >>

(* Time passes, up to the bounds. *)
Tick ==
    /\ IF pending = NULL THEN totalTicks <= LastCall ELSE totalTicks < pending + MaxLate
    /\ totalTicks' = totalTicks + 1
    /\ UNCHANGED << deviceVars, holder, semaphore, pc, call >>

Step(t) == Acquire(t) \/ Request(t) \/ P(t) \/ Release(t)

Next == CallBack \/ Tick \/ \E t \in Thread : Start(t) \/ Step(t)

Spec == Init /\ [][Next]_vars

(* A ready thread runs again, and time goes on until due interrupts fire. *)
Fairness == WF_vars(CallBack) /\ WF_vars(Tick) /\ \A t \in Thread : WF_vars(Step(t))

FairSpec == Spec /\ Fairness

-----------------------------------------------------------------------------
(* Disk::ReadRequest and WriteRequest ASSERT that no request is under way  *)
(* (disk.cc:118, 138): the lock and the wait for the interrupt ensure it.  *)
OneRequestAtATime ==
    \A t \in Thread : pc[t] = "request" => ~active /\ pending = NULL /\ semaphore = 0

(* A caller returns only when the interrupt of its own request has been    *)
(* delivered, not that of someone else's ("Return only after the data has  *)
(* been read", synchdisk.cc:50).                                           *)
OwnCompletion ==
    \A t \in Thread : pc[t] = "release" =>
        /\ call[t].when <= totalTicks
        /\ ~active /\ pending = NULL

(* What ReadSector hands back is what the sector holds when it returns,    *)
(* and what WriteSector wrote is still there: no other thread's request    *)
(* comes in between.                                                       *)
DataCurrent ==
    \A t \in Thread : pc[t] \in {"wait", "release"} => call[t].data = contents[call[t].sector]

(* Sector s rotates past the head, from its beginning to its end, between  *)
(* the ticks from and to.                                                  *)
Passes(s, from, to) ==
    \E k \in (from \div RotationTime)..(to \div RotationTime) :
        /\ k * RotationTime >= from
        /\ (k + 1) * RotationTime <= to
        /\ k % SectorsPerTrack = s % SectorsPerTrack

LaterOf(a, b) == IF a > b THEN a ELSE b

(* The interrupt of a request comes when the hardware the comment of       *)
(* ComputeLatency describes is done, neither sooner nor later: a write     *)
(* when the sector has just passed under the head on its track; a read     *)
(* likewise, unless the sector passed since the head came to the track;    *)
(* then it takes one transfer from the track buffer.                       *)
LatencyExact ==
    \A t \in Thread : pc[t] = "wait" =>
        LET c == call[t]
            from == LaterOf(c.at, arrival)
        IN  IF c.when - RotationTime = c.at
            THEN Passes(c.sector, IF c.writing THEN from ELSE arrival, c.when)
            ELSE /\ Passes(c.sector, from, c.when)
                 /\ ~Passes(c.sector, from, c.when - 1)
                 /\ ~c.writing => ~Passes(c.sector, arrival, c.at)

(* Every ReadSector and WriteSector returns. *)
CallsReturn == \A t \in Thread : pc[t] = "acquire" ~> pc[t] = "idle"
=============================================================================
