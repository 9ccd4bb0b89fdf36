# NachOS 4.0 in TLA+

NachOS is an instructional operating system: a kernel in C++ that runs as one
UNIX process on top of a simulated machine (a MIPS CPU with a page table, an
interrupt controller, a timer, a console, a disk and a network). User programs
are MIPS executables that the simulator interprets one instruction at a time.
This repository is version 4.0 with system calls for integers, characters,
strings and files added in `userprog/`.

This directory holds TLA+ models of the kernel and the machine, the TLC
configurations that check them on small instances, and TLAPS proofs, for
instances of any size, of the main properties of the scheduler, semaphores,
locks and conditions, synchronised lists, interrupts, disk, console, post
office, file calls, the real file system and the traps of the CPU. All paths
below are relative to `src/NachOS-4.0/code/`, except those of `coff2noff/`,
which is next to it.

- [1. Inventory](#1-inventory)
- [2. How the code maps to the modules](#2-how-the-code-maps-to-the-modules)
- [3. The runs](#3-the-runs)
- [4. Fairness](#4-fairness)
- [5. The proofs](#5-the-proofs)
- [6. Disagreements between code and documents](#6-disagreements-between-code-and-documents)
- [7. What is not modelled](#7-what-is-not-modelled)
- [8. Plan](#8-plan)

To check everything: `tlc -config MCx.cfg MCx` for each configuration (for
`MCFileIdChecked.cfg` the module is `MCFileSyscalls`, and the violation TLC
reports is the expected result), and `tlapm XProofs.tla` for each module of
proofs.

## 1. Inventory

One UNIX process, one CPU, no real parallelism: concurrency comes from kernel
threads that give up the CPU inside `Scheduler::Run`, and from interrupt
handlers. Both happen only at a *tick*: `Interrupt::OneTick` is called when
`SetLevel` turns interrupts from off to on, and after every user instruction.
Only the network connects several processes.

| Part | State | Operations | Talks to | Hard about it |
|---|---|---|---|---|
| Threads, scheduler (`threads/thread.cc`, `scheduler.cc`, `switch.S`) | `currentThread`, status of each thread, `readyList`, `toBeDestroyed`, saved user registers | `Fork`, `Yield`, `Sleep`, `Finish`, `Begin`, `ReadyToRun`, `Run`, `CheckToBeDestroyed` | interrupts (to be atomic), machine (user registers), address spaces | control goes on in another thread in the middle of a function; a thread cannot free the stack it runs on |
| Interrupts, timer, alarm (`machine/interrupt.cc`, `timer.cc`, `stats.h`, `threads/alarm.cc`) | `level`, `status`, `yieldOnReturn`, the sorted `pending`, the counters of ticks | `SetLevel`, `OneTick`, `CheckIfDue`, `Idle`, `Halt`, `Schedule`, the callbacks | every device, the scheduler | a handler may run at any tick and schedules on the list being worked on; `OneTick` itself yields and restores a status it read before |
| Synchronisation (`threads/synch.cc`) | `value` and `queue` of a semaphore, `lockHolder`, `waitQueue` | `P`, `V`, `Acquire`, `Release`, `Wait`, `Signal`, `Broadcast` | scheduler, interrupt handlers | a woken thread competes again for what it was woken for; lost or double wake-ups |
| Synchronised list (`threads/synchlist.cc`) | a list, its lock and its condition | `Append`, `RemoveFront`, `Apply` | locks, conditions | a waiter may find the list empty again; deletion under a user |
| Disk (`machine/disk.cc`, `filesys/synchdisk.cc`) | `active`, `lastSector`, `bufferInit`; a lock and a semaphore | `ReadRequest`, `WriteRequest`, `CallBack`, `ReadSector`, `WriteSector` | interrupts, semaphores | one request at a time, one semaphore for all; latency from rounded ticks |
| Real file system (`filesys/`, `lib/bitmap.cc`) | free map, directory, headers, data on the disk; `openf` | `Create`, `Open`, `Remove`, `Read`, `Write`, `Seek`, `List`, mount | synchronised disk | several writes for one operation, a stop between any two; partial sectors |
| File calls and stub file system (`userprog/ksyscall.h`, `filesys/filesys.h`, `openfile.h`) | `openf`; UNIX files and descriptors | `SysCreateFile`, `SysOpen`, `SysClose`, `SysRead`, `SysWrite`, `SysSeek`, `SysRemove` | exception handler, UNIX | table at its limit, ids chosen by the program, a shared UNIX offset |
| Console calls (`userprog/ksyscall.h`) | none of their own | `SysReadNum`, `SysPrintNum`, `SysReadChar`, `SysPrintChar`, `SysReadString`, `SysPrintString`, `SysRandomNum` | exception handler, console, user memory | conversions at the ends of the range; strings as long as their buffer |
| Console (`machine/console.cc`, `userprog/synchconsole.cc`) | `incoming`, `putBusy`; locks and semaphores | `GetChar`, `PutChar`, the callbacks | interrupts, semaphores | polling stops and starts again; "no character" is a character |
| Simulated CPU (`machine/mipssim.cc`, `machine.cc`, `translate.cc`) | registers, memory, page table | `Decode`, `OneInstruction`, `DelayedLoad`, `Translate`, `ReadMem`, `WriteMem`, `RaiseException` | interrupts, exception handler | delayed loads and branches under traps and interrupts; C arithmetic at its limits |
| Exception handler (`userprog/exception.cc`) | none of its own | dispatch on the exception and on r2, `IncreasePC`, copying of strings | CPU, file calls, console | arguments and results in registers, program counters changed by hand |
| Address spaces and executables (`userprog/addrspace.cc`, `coff2noff/`) | page table; the NOFF file | conversion, `Load`, `Execute`, `InitRegisters`, `SaveState`, `RestoreState` | CPU, scheduler | headers in the byte order of another host; segments that must fit; registers of one program in the hands of another |
| Post office, network (`network/post.cc`, `machine/network.cc`) | one-packet buffer, sockets, mailboxes, a send lock | `Send`, `Receive`, the postal worker, the callbacks | synchronised lists, interrupts, other hosts | packets lost; arrival while the worker is busy; both sides waiting |
| Lists, hash tables, bitmaps (`lib/`) | linked cells, buckets, words | insertion, removal, sorted insertion, growing, iteration | everything | sequential; first, last and count kept by hand |
| Kernel start (`threads/main.cc`, `kernel.cc`) | options, the kernel's objects | two scans of `argv`, `Initialize`, the commands of `main`, `Copy` | everything | each scan skips only its own options; devices are scheduled by a kernel half built |
| Statistics, host interface, debugging (`machine/stats.cc`, `lib/sysdep.cc`, `debug.cc`) | | counters, wrappers of UNIX calls, messages | | |

What makes the parts correct, in one line each:

- *Scheduler*: the ready list is exactly the READY threads, one thread runs, a
  finished thread is freed once and by someone else, a user program never runs
  on the registers of another, everything ready runs.
- *Interrupts*: each comes in the order of its time, less than a kernel tick
  late and never early; time slices end when the timer says.
- *Synchronisation*: no wake-up is lost or used twice; locks exclude; locks and
  conditions are a Mesa monitor.
- *Devices*: a request finds its device idle, a caller goes on only after the
  interrupt of its own request, data is neither lost nor overtaken, calls return.
- *File systems*: files do not share sectors, the map is exact, a stop hurts
  at most one file and the disk can be used on afterwards, reads and writes are those of an array of bytes,
  descriptors are neither leaked nor shared.
- *CPU*: a program cannot tell the simulator from a MIPS, whatever interrupts
  and faults occur.
- *Programs*: what was linked is what runs, at the addresses it was linked for;
  console calls convert exactly and stay inside their buffers.
- *Containers and start*: a list is a sequence, a table and a bitmap are sets;
  the two scans of the command line agree; nothing is used before it is built.

The hazards behind these properties are listed at their source lines in
`PROJECT.json`.

## 2. How the code maps to the modules

```
Threads <- Synch --INSTANCE--> Monitor       Words, Decode <- Machine --INSTANCE--> Mips
             |                                                       (reference machine)
             +- contract of P, V, Acquire, Release, Wait, Signal used by
                SynchDisk, Console, SynchList, PostOffice

Lists <- Interrupts                          FileSyscalls
Lists <- SynchList                           DiskFiles
Lists <- Containers \
         Executable  > Startup
         ConsoleCalls/

Threads, Synch <- SynchProofs                SynchDisk <- SynchDiskProofs
Lists, Interrupts, SynchList <- ListsProofs  Console <- ConsoleProofs
FileSyscalls <- FileSyscallsProofs           PostOffice <- PostOfficeProofs
DiskFiles <- DiskFilesProofs                 Words, Decode, Machine <- MachineProofs
```

(`A <- B`: B EXTENDS A.) `PROJECT.json` has the source lines of every
definition. Definitions named after a source symbol model that symbol; those
introduced by a `Mutant:` comment are deliberately wrong variants of the
definition after them, used to show that the properties notice.

**Threads** is the scheduler with the interrupt level, the timer's time slices
and the user registers. A thread can lose the CPU, and a handler can run, only
in `OneTick`, so code between two ticks is one action. Variable `cpu` is the
control point: the thread's own code, inside `OneTick`, in the loop of `Sleep`,
inside `Idle`, or just behind `SWITCH`. What is on a thread's stack when it
resumes is `cont` (which caller of `Run`) and `oldStatus` (the local variable of
`OneTick`). `Fork`, `Yield`, `Sleep`, `Finish`, `Begin`, `Execute`,
`RaiseException` and `Halt` are actions of their own; `Dispatch` and
`ReturnFromRun` are the halves of `Scheduler::Run` before and after `SWITCH`.
Devices are abstract: any blocked thread that is not finishing may be woken, at
any tick. `Wakeable` says which threads that is; it is a guard of `WakeUp` and
`DeviceInterrupt`, that is of what Threads asks of its callers, and not of
`ThreadWakes` and `HandlerWakes`, what `ReadyToRun` does for whatever thread it
is given.

**Interrupts** is what decides at which tick: the clock and its counters, the
list `pending` (a SortedList of module Lists), the loop of `CheckIfDue` one
handler at a time, `Idle`, which jumps to the next interrupt, and the timer that
schedules itself again, after fixed or random slices. One thread has the CPU;
what it does to threads is the subject of Threads. `pc` says whether the CPU is
in the thread, in the loop over the handlers, behind it in `OneTick` or `Idle`,
or in the `Yield` at the end of a tick, which is itself a `OneTick` inside the
one that called it.

**Synch** EXTENDS Threads with semaphores, locks and conditions and replaces
"any blocked thread may be woken" by the code of `synch.cc`. Each P or V ends
in a tick, so the module has a step between the P of `Acquire` and the
assignment of `lockHolder`, and one after each `Signal` of a `Broadcast`. Three
properties link the layers: `ThreadsContract` (V calls `ThreadWakes` or
`HandlerWakes`, unguarded as in the code, for the thread it took from its queue;
that this thread is one that may be woken, so that every step of Synch is a step
Threads allows and what is shown of Threads holds under Synch, is the content of
the property), `MesaMonitor`
(with the mapping at the end of the module, Synch implements **Monitor**, the
abstract specification of locks and conditions without scheduler or queues),
and the invariants that say that queues and sleepers agree.

The next four modules use locks, semaphores and conditions by that contract: an
Acquire takes a free lock, P takes a positive count, Wait gives up the lock and
starts waiting in one step. A thread is preempted inside such calls only, so
the code between two of them is one step.

**SynchDisk**: `ReadSector` and `WriteSector` by any number of threads, the
device behind them, the tick at which its interrupt is due, computed as
`ComputeLatency` does from the ticks, the last sector and the track buffer. The
interrupt may be late, because a handler waits while interrupts are off.

**Console**: `GetChar` and `PutChar` by several threads, the polling keyboard,
the display. `EOF` is a value of `char`, so a byte 255 is EOF as in the code.
`InputExact` follows a byte from the file through the buffer of the device and
the local variable of a reader to its caller; `DisplayAcknowledged` counts, for
each writer, what is on the display.

**SynchList**: `Append`, `RemoveFront` and `Apply` run by small programs, among
them everything `Kernel::ThreadSelfTest` runs (the self tests of threads, of
semaphores and of synchronised lists with the helpers they fork), which delete
their semaphores and lists when they are done. A program is a sequence of calls;
the loops of ten rounds are `TestRounds` long. `ListPrograms` asks of a program
that it forwards what the operation before took out of a list, as the self test
does: an item may be in a list only once (`ASSERT` in `List::Append`).
`FirstInFirstOut` compares each list with the history of what was appended and
removed, and says that as long as somebody waits, there are as many threads on
their way (`Coming`) as items. The specification has names of its own
(`SynchListInit` and so on), so that one module of proofs can extend it next to
Interrupts.

**PostOffice**: send lock and interrupt of the sender, one-packet buffer,
postal worker, mailboxes and a network that may drop packets, on several hosts;
the programs are those of `Kernel::NetworkTest` and another sender. `MailExact`
compares, for each box, what is in it and was taken from it with what was
transmitted to it: the same mails, each once, in that order.

**FileSyscalls**: the seven file calls in the FILESYS_STUB build the makefiles
select. One user program runs at a time, so a call is one action: the case of
`ExceptionHandler`, the `Sys...` routine, `FileSystem` and `OpenFile` together.
The UNIX file system (names, inodes, descriptors with offsets) is external, and
never full.
A use of `openf[MAX_FILE_OPEN]` ends in the state `"wild"`. `FilesChangeExact`
says of every call where it leaves the UNIX offset of every open file, Seek
included.

**DiskFiles**: the file system of the other build. Create and Remove change
copies in memory and write them back one after the other, a sector at a time;
the writes still to come are in `todo`. The directory is 200 bytes and takes two
sectors of 128: the loop of `WriteAt` writes one and then the other, and the
seventh entry has its `inUse` and `sector` in the first and its name in the
second. In the module an entry is two fields, `DirFields` of which fit in a
sector (`HeadPart`, `NamePart`), so a directory may be cut off between two
sectors and inside an entry. A header is one sector, and so is the map
(1024 bits). `Restart` is possible in every state: Nachos stops and
`FileSystem(FALSE)` mounts the disk as it is; `WriteStopped` is a stop inside
the loop of a `WriteAt` on a file.

`filesys.cc:38` says that a stop in the middle of an operation may corrupt the
disk, and it may: a file that is in the directory while the map does not have
its sectors will lose them to the next Create. `hurt`, a history variable, has
the entries of these files from the boot on; the properties are about the
others, which are `Sound`: they keep their sectors, names and bytes, and the map
is exact for them, through any number of stops, boots and later calls. Callers
leave hurt files alone (`Usable`): what Open makes of a header sector that has
been given to another file is not modelled.

`ReadAt` and `WriteAt` are modelled sector by sector with their alignment cases;
what `-l` and `-D` show is computed from the disk as the code does and compared
with the files. `Upwards` is the order in which a loop over bits or entries
meets them. `RemoveOpen` says whether callers remove open files; the run sets it
to FALSE, see section 6. `NumDirect` bounds the sizes callers ask for
(`DiskAssumption`), because `Allocate` does not compare them with the room in a
header.

**Machine**: every instruction of `OneInstruction`, with the registers
`LoadReg`, `LoadValueReg`, `PCReg`, `NextPCReg` as the simulator keeps them,
`Translate` with its faults and bits, `RaiseException`, the dispatch of
`ExceptionHandler`, and interrupts between instructions. **Mips** is what a
programmer expects: loads happen at once, products and sums are those of
arithmetic, memory is virtual. `ProgrammersModel` compares the two step by step.
**Words** has machine words of four bytes of `ByteBits` bits. **Decode** has the
tables and the bit fields of `Instruction::Decode` on words of 32 bits, and the
MIPS encoding to compare them with; the fetch takes any of `InstructionWord`, in the
form Decode gives it, so all programs over those instructions are covered,
self-modifying ones too. Two exclusions: `UsesSlot` (an instruction that uses a
register in the delay slot of its load, which a MIPS assembler never emits) and
`Unspecified` (what the architecture leaves open, and the deviations of
section 6).

**Lists** has `List`, `SortedList` and `ListIterator` with their pointers:
`next` is a function on the elements that are allocated, so following a pointer
to a deleted one is an error, and `Pointers` is what an iterator meets. **Containers** adds `HashTable` with its growth,
`HashIterator` and `Bitmap`, and runs any sequence of calls on one of them next
to the sequence or set it stands for; the self tests of `lib/libtest.cc` are
evaluated as they are written.

**Executable** follows a program from the linker to the machine: a COFF file
with any of the sections coff2noff knows, the NOFF file it makes of them on a
host of either byte order, and `AddrSpace::Load` on a host of either byte order.
A byte is identified with its place in the COFF file, so that memory tells where
each byte came from.

**ConsoleCalls** has the calls on numbers, characters and strings, one step
each, with the loops over characters, the widths of `int` and `long long`, and
the copying between user and kernel memory.

**Startup** composes these: `main` and `Kernel::Kernel` scan the arguments,
`Initialize` builds the kernel object by object, `main` carries out its commands
in its order, and with `-x` a program is loaded and runs console calls. What a
later stage does not read is forgotten on entering it.

## 3. The runs

| Run | Instance | Distinct states | Shows |
|---|---|---|---|
| `threads` | 3 threads, 2 of them user programs | 45 000 | `SchedulerSafe`, `CarcassSafe`, `UserStateIsolated`, `DeletedForever`; `NobodyIsLeft` |
| `interrupts` | 2 devices, one polling, and the timer; a kernel tick of 3 user ticks; 8 ticks | 26 000 | `OnTime`, `TimeSlices`; `InterruptsCome` |
| `synch` | 3 threads, a semaphore that handlers signal, a lock, a condition; values up to 2 | 304 000 | `QueuesSafe`, `NoLostWakeup`, `LockExclusion`; `ThreadsContract`, `MesaMonitor` |
| `synch_list` | `ThreadSelfTest` with loops of 2 rounds and its 3 helpers; 1 appender and 2 removers on another list | 33 000 | `FirstInFirstOut`, `SafeToDelete`; `ProgramsFinish` |
| `synch_disk` | 2 threads, 2 tracks of 3 sectors, calls up to tick 6, interrupts 0 or 1 tick late | 478 000 | `OneRequestAtATime`, `OwnCompletion`, `DataCurrent`, `LatencyExact`; `CallsReturn` |
| `console` | 2 readers, 2 writers, every input of up to 3 bytes | 109 000 | `InputExact`, `DisplayAcknowledged`; `CallsReturn` |
| `post_office` | 2 hosts, 3 clients, 3 boxes, any packet may be lost | 81 000 | `MailExact`; `ProgramsFinish` |
| `file_calls` | table of 4 slots, 1 name, files of up to 2 bytes, ids in and just beyond the table | 84 000 | `TableExact`; `FilesChangeExact` |
| `disk_files` | 10 sectors of 2 bytes, a directory in 2 of them, 3 names for 2 free entries, files of up to 3 bytes, any number of stops | 193 000 | `DiskConsistent`, `OpenFilesCorrect`; `WritesExact` |
| `machine` | bytes of 2 bits, 7 registers, 2 page tables, every operation, 2 instructions with interrupts around them | 200 000 | `KernelView`, `DecodeExact`; `ProgrammersModel` |
| `start` | 2 200 command lines, executables of sections of 0, 1 and 3 bytes, both byte orders, 9 programs with every short input, containers of up to 6 items | 453 000 | `ContainersExact`, `ImageExact`, `ArgumentsExact`, `BootOrder`, `CommandsExact`; `ConsoleCallsExact` |
| `id_checked` | as `file_calls` | | the disagreement of section 6 |

Why the bounds are enough for what is asked:

- Three threads are the fewest with a running, a waiting and a finishing one at
  once, so that a carcass can be freed by a third; two user programs are what
  registers can be confused between. The proofs remove this bound.
- In `interrupts` a kernel tick spans several user ticks and random slices are
  1 to 4 ticks, so two devices and the timer come due inside one tick, handlers
  schedule for the next one, and the machine idles with one, two and three
  interrupts pending. `MaxTicks` stops the clock after two or three slices;
  `InterruptsCome` is about the interrupts with a time before that, all of which
  must be called.
- In `synch`, a value of 2 lets two V's meet two sleepers; three threads give a
  holder, a waiter and a thread that takes the lock ahead of the woken one. The
  threads other than `main` are interchangeable (SYMMETRY; the run has no
  liveness property).
- In `synch_list` a second round is what meets leftovers of the first; further
  rounds repeat it.
- In `synch_disk` the seek (3 ticks) is not a multiple of the rotation
  (2 ticks), so requests and seeks end inside a sector; three sectors tell the
  next sector from the one before.
- In `console`, four GetChar calls compete for up to three bytes and the end of
  file; a byte 255 may be at each position.
- In `file_calls` two slots besides stdin and stdout make the table fill up
  after two Opens of the same file, with all ids valid, free, closed, and one
  past the end; seven inodes are enough for a name, five descriptors and one
  more. The configuration has a VIEW: the last call and its result are
  left out, since only properties of a single step read them and no guard does.
- In `disk_files` both resources run out (entries and sectors), and a file of
  three bytes in sectors of two has an aligned and an unaligned end. With five
  fields to a sector of the directory, the third entry lies in both, and the
  fourth in the second. Programs write buffers over two bytes; one of them,
  `Junk`, is also what sectors hold that were never written, so that a Write
  that does not store what it was given is seen with the other. File names are
  interchangeable (SYMMETRY; the run has no liveness property).
- In `machine`, two instructions in a row are what a delayed load or branch can
  reach across. With two bits in a byte a word has eight: all sign, carry and
  alignment cases exist. Register r4 takes both ends of the signed and unsigned
  range and addresses in every kind of page, aligned and not. The second page
  table has a read-only, an absent and an out-of-range page, which the present
  `AddrSpace` never builds but `Translate` handles. Decode works on whole words,
  among them immediates of 0x7fff and 0x8000.
- In `start`, command lines have up to three options around each other, with and
  without their values; `int` has 6 bits and `long long` 8, so that three digits
  pass the first and four the second; buffers of 0 to 3 bytes meet lines that
  are shorter, as long and longer; a memory of four pages of four bytes is just
  too small for the largest executables; header bytes have eight values and
  words two bytes, enough to tell a swapped magic number from a right one. The
  hash table grows from one bucket to four.

Deadlock checking is off where programs come to an end, the bounded clock stops
or a reader waits for input that never comes (`console`, `synch_list`,
`synch_disk`, `post_office`, `machine`, `interrupts`, `start`); there, the
liveness properties say what must not hang. The other runs check it.

## 4. Fairness

- *Threads.* Weak fairness of scheduling, of the end of a tick and of the
  running thread's code: a single CPU that never stops. `WF(EnableInterrupts)`:
  code that turned interrupts off turns them on again. Strong fairness of the
  timer in a tick: `Timer::CallBack` schedules itself again each time and every
  tick advances the clock, so among infinitely many ticks infinitely many find
  the timer due. That the program does not halt is not assumed. Module
  Interrupts shows what this rests on: the timer is always pending, and what is
  pending comes.
- *Interrupts.* `WF(Next)`: the one CPU goes on. No fairness among its steps is
  assumed.
- *SynchDisk, Console, PostOffice, SynchList.* Weak fairness of each thread's
  next step rests on `NobodyIsLeft`, that of the device interrupts on
  `InterruptsCome`. Locks are not first come, first served (a woken thread may
  find the lock taken by a newcomer), so that a thread gets a lock in the end is
  not guaranteed for callers who never stop. The bounds on the number of calls
  (`LastCall`, `MaxGet`, `MaxPut`, finite programs) are therefore part of what
  `CallsReturn` and `ProgramsFinish` say: with finitely many competing calls,
  all return.
- *Console.* What is typed is seen by some later poll: `WF(Arrival)`.
- *PostOffice.* Losing packets is not constrained; that NetworkTest finishes is
  said of runs in which none is lost, that every Send returns of all.

## 5. The proofs

Everything in this section is proved for every value of the constants, from the
named assumptions of the modules; TLC evaluates these assumptions in the runs.
A run and a theorem share the definition they state: the run shows it on a small
instance, with a mutant that breaks it, the theorem in general. Every inductive
invariant was an invariant of a TLC run before it was proved.

| Module | Theorem | Statement |
|---|---|---|
| SynchProofs | `TypeCorrect` | `Spec => []TypeOK` |
| | `SchedulingSafe` | `Spec => []SchedulerSafe` |
| | `CarcassesSafe` | `Spec => []CarcassSafe` |
| | `UserStateSafe` | `Spec => []UserStateIsolated` |
| | `DeletedStaysDeleted` | `Spec => DeletedForever` |
| | `QueuesAreSafe` | `SynchSpec => []QueuesSafe` |
| | `NoWakeupLost` | `SynchSpec => []NoLostWakeup` |
| | `MutualExclusion` | `SynchSpec => []LockExclusion` |
| | `WakesSleepersOnly` | `SynchSpec => []SleepersWakeable` |
| | `SchedulerContract` | `SynchSpec => ThreadsContract` |
| | `MonitorImplemented` | `SynchSpec => MesaMonitor` |
| SynchDiskProofs | `RequestsSerialised` | `Spec => []OneRequestAtATime` |
| | `CompletionsMatch` | `Spec => []OwnCompletion` |
| | `ReadsCurrent` | `Spec => []DataCurrent` |
| | `LatencyIsExact` | `Spec => []LatencyExact` |
| ConsoleProofs | `InputDelivered` | `Spec => []InputExact` |
| | `OutputAcknowledged` | `Spec => []DisplayAcknowledged` |
| PostOfficeProofs | `MailArrivesExactly` | `Spec => []MailExact` |
| FileSyscallsProofs | `TableStaysExact` | `Spec => []TableExact` |
| | `CallsChangeTheirFile` | `Spec => FilesChangeExact` |
| ListsProofs | `InterruptsOnTime` | `Spec => []OnTime` |
| | `TimerNeverStops` | `Spec => []TimeSlices` |
| | `SynchListFirstInFirstOut` | `SynchListSpec => []FirstInFirstOut` |
| DiskFilesProofs | `TypeCorrect` | `~RemoveOpen => (Spec => []TypeOK)` |
| | `DiskStaysConsistent` | `~RemoveOpen => (Spec => []DiskConsistent)` |
| | `OpenFilesStayCorrect` | `~RemoveOpen => (Spec => []OpenFilesCorrect)` |
| | `WritesStayExact` | `~RemoveOpen => (Spec => WritesExact)` |
| MachineProofs | `KernelViewHolds` | `Spec => []KernelView` |

**SynchProofs** begins with Threads, for any set of threads and user threads, from
`ThreadAssumption` (`main` is a thread, `NULL` is not). The inductive invariant
`IInv` is the conjunction of the parts of these invariants. None is inductive
alone: that `ReadyToRun` keeps the ready list free of duplicates needs that the
woken thread is BLOCKED; that the carcass is not scheduled needs that it is
BLOCKED and nobody may wake a finishing thread; that a resumed user program has
its own registers needs that `regs` belongs to the current thread at every
control point with an address space. `ControlOK` collects these facts, by
control point. Two lemmas on sequences (`AppendFacts`, `TailFacts`: append of a
new element and removal of the first keep a list injective) do the work on the
ready list; then there is one lemma for each group of actions that disturb the
same parts.

Then comes Synch, for any finite set of threads and any semaphores, locks and
conditions, from `SynchAssumption` (these are different things, and each
condition is used with one lock). `SInv` is the invariant of the scheduler, the
types and `SyncInv`: the three invariants of Synch need each other, and besides
that every thread in a call works on an object of the right kind (`ArgOK`), that
a thread that finishes is in no call (`FinishedOutside`: this keeps a deleted
thread out of the queues) and that a thread waits for one condition, once, with
its lock (`WaitQueuesExact`). The scheduler's invariant is needed because only
it says that the thread that executes is in no queue. The count behind
`NoLostWakeup` is the argument about V: the V that adds a unit also moves the
first sleeper to the threads that will test it, so the inequality is kept on
both sides; a P that takes the unit removes one from both. `SchedulerContract`
then says that each step is a step of Threads or leaves the variables of Threads
alone. It does not follow from the composition: the V of Synch wakes the first
thread in the queue whatever its status, and that it is blocked and not
finishing comes from the invariant (`QueuedAreWakeable`, the step behind
`WakesSleepersOnly`). With it the theorems about Threads hold of the scheduler
under `synch.cc`. `MonitorImplemented` is a refinement, step by step: the P that
succeeds is the Acquire, the V is the Release, the Wait or the Signal, and what
is in between is a stutter.

**SynchDiskProofs**, for any number of threads, any geometry and timing and any
delay of the interrupt, from `DiskAssumption` (positive sizes and times). For
the first three theorems the strengthening is `HolderExact` (exactly the holder
of the lock is between Acquire and Release) and `Handshake` (for each place of
the holder, what device, scheduled interrupt and semaphore are: all asleep, or
one request under way, or one wake-up for the holder). `LatencyIsExact` adds
`HeadInv`: `bufferInit` is the beginning of the first sector after the head came
to the track, and between two requests the head has arrived. Its arithmetic is
in lemmas on division (`DivUnique`, `ModUnique`, `NextSlot`): `ComputeLatency`
rounds the time after the seek up to a whole sector (`LatencyInSlots`), and the
sector under the head at the latency it adds is the one asked for, and no
earlier (`LatencyIsPassage`).

**ConsoleProofs**, for every input, any readers and writers. `InputInv` ties the
lock to the place of each reader, and says when the keyboard polls: only with an
empty buffer and with no wake-up left over. Without that an arriving character
could overwrite one nobody fetched, and `InputExact` would not survive the step.
At the end of the input it also has to say that nothing polls any more, or a
second EOF could come. `OutputInv` is the handshake of the display.

**PostOfficeProofs**, for any hosts, boxes and clients, any programs and any
losses, from `PostAssumption` (a program that replies has received something
before; otherwise there is no header to reply to). `SendInv` is the handshake of
the sender, which holds although `sendBusy` guards nothing, because the lock is
held until the interrupt came. `MailInOrder` says that what is under way is the
end of what was transmitted and that each box with what was taken from it is
exactly those of the rest that were addressed to it; the places they came from
are a witness, an increasing function. Each of the four moves of a mail (into
the socket, into the buffer, into the worker's hands, into a box) extends or
keeps that function (`TransmitKeeps`, `PutElsewhere` and the lemmas after them).

**FileSyscallsProofs**, for any names, contents, ids and size of `openf`, from
`FileAssumption`: the UNIX file system is never full (there are as many inodes
as names and descriptors and two more, so that creation and the console always
find one free) and `NULL` is none of the things stored. The strengthening is
`OpenedAsTyped`: the UNIX access mode of each open file is the one its type
asks for. It is what lets Write succeed exactly where the table allows it, and
is kept because a slot and its descriptor are set together and closed together.

**ListsProofs** begins with the linked lists of `lib/list.cc`, of any length:
`InOrder(l, e, n)` says that following the pointers of `l` visits `e[1]`, ...,
`e[n]`, that these are all the allocated elements and that `first`, `last` and
`numInList` agree. The lemmas say what `Prepend`, `Append`, `RemoveFront` and
the sorted `Insert` make of it, that an iterator visits the elements in that
order, and that `SanityCheck` holds (`PrependInOrder`, `AppendInOrder`,
`RemoveFrontInOrder`, `InsertInOrder`, `ElementsInOrder`, `SanityInOrder`). They
are proved without induction: the order is a function on `1..n`, so the pointer
at each place can be named.

Interrupts uses them for `pending`, which is an `Agenda`: a list in an order
of increasing `when`, with at most one entry for each device. From
`InterruptAssumption` (delays are positive, a user tick is not longer than a
kernel tick) the invariant `TInv` says, for each place of the CPU, what is due:
outside of `CheckIfDue` nothing, inside nothing by more than a kernel tick
(`PendingInv`), which bounds how late the next handler is called (`FiredInv`);
that the timer is pending; and what level, status and flags can be there
(`ModeInv`). `OnTime` is not inductive alone because it speaks only of the last
handler that was called.

SynchList uses them too, for any lists, any finite set of threads and any
programs that `ListPrograms` allows. `LInv` says where each item is
(`OnePlace`: in one list, or in the hands of one thread between its removal and
its forwarding, or nowhere, and a new item is in no list yet). Without that an
Append could link an element that is in a list already and the pointers would
not stay `Chained`. `Waiters` says that whoever is in the queue of a condition
waits in RemoveFront of that list, once, so that the `Signal` of an Append adds
a thread to `Coming` that was not there: this is what keeps `Served`, that as
long as a thread waits no item is without a thread on its way to it. A thread
that finds the list empty again when it gets the lock takes nothing from the
count, since then there is no item to be served.

**DiskFilesProofs**, for a disk, a directory and names of any number, from
`DiskAssumption` (the free map, the directory and the files of the console fit
on the disk and into the table, and no caller asks for a file larger than a
header can hold) and `NullAssumption` (`NULL` is no header and no open file).
The theorems are about callers who do not remove open files (`~RemoveOpen`):
with such callers they are false, because Remove does not look at the open files
(section 6). The inductive invariant `FInv` has what holds of the sound files
between any two sector writes (`HeadersSized`, `FilesDisjoint`), that stdin and
stdout are where the boot looks for them (`Standard`), that an open file has the
header that is on the disk (`OpenHeadersCurrent`), and `Progress`: either
nothing is left to write, and the map is exact and names are unique among the
sound files (`Whole`), or the writes still to come are a remainder of Create or
of Remove, a header, the sectors of the directory from some part on, or the map,
and `Whole` holds but for the one entry they are about. That is why a stop hurts
at most one file, and why after it, with that entry among the hurt ones, `Whole`
holds again and the next call starts from it. A directory that is cut off inside
an entry leaves the name the entry had before: names stay unique because an
entry that is added is the first that is not in use, so no entry before it can
have a name of a sound file.
Reading and writing sector by sector is proved correct by naming, for each byte,
the sector it is in; the lemmas on division say that the first, the last and the
middle sectors of a `WriteAt` cover exactly the bytes asked for, so that the
file afterwards is the file before with the buffer put over it (`WriteDoes`),
or, after a stop, a first part of the buffer.

**MachineProofs**, for bytes of any width, any number and size of pages, any
page tables and any programs, from `MachineAssumption`, `ProgramAssumption`
(instructions name registers that exist, page tables start with no entry marked)
and `PowersOfTwo`, the law of powers that the provers do not know (TLC evaluates
it for the width of the run). `MInv` says that general registers hold words,
that `LoadReg` names a general register, that memory holds bytes, that dirty
entries cover what was written (`Marked`), and that in the kernel no load is in
progress and the address of a fault is in a page that `Blocks` it. That
registers hold words is most of the work, and needed: the bytes a store leaves
in memory are those of a word only then. It takes bounds on the numbers that
loops build (`FromDigits`, `Mult`, `JoinAt`), by an induction over a set of
numbers (`Climb`, from the library's theorem on least elements, which has no
operator parameter), and that an aligned access stays in its frame (`InFrame`).
The actions are then a `RaiseException` or a `CompleteLoad` each (`RaiseStep`,
`CompleteStep`).

What stays model-checked only, and why:

- all liveness properties (`NobodyIsLeft`, `InterruptsCome`, `CallsReturn`,
  `ProgramsFinish`): temporal reasoning under fairness is out of TLAPS's reach;
- `DecodeExact` and `ProgrammersModel`: MachineProofs bounds what bit fields,
  products and quotients are, and these properties say which number they are.
  That is a sum over the bits of a word, which is induction again, or nonlinear
  arithmetic the solver does not do; and `DecodeExact` is about the words an
  assembler makes, with nothing in the unused fields;
- `ContainersExact`, `ImageExact`, `ConsoleCallsExact`, `ArgumentsExact`,
  `BootOrder`, `CommandsExact`: what loops over characters, sections, arguments
  and buckets compute. They are folds and recursive functions, and would need
  induction over data, which the installed provers cannot do;
- `SafeToDelete`: it holds of the particular programs of the self tests and not
  of others, so there is no general statement to prove.

## 6. Disagreements between code and documents

- Run `id_checked`: `SysRead` and `SysSeek` (`userprog/ksyscall.h:291`) test
  `id > MAX_FILE_OPEN`, so the id 15 gets through and `openf[15]`, one beyond
  the array, is used; the comment at line 290 says that the id is checked to be
  in the table. `SysWrite` tests `MAX_FILE_OPEN - 1`.

Others met while reading. They are modelled as the code has them where a module
covers the line, and no property claims otherwise:

- `SysWrite` copies the buffer with `User2System`, which stops at the first
  NUL, and then writes `charcount` bytes: after a NUL the file gets zeros.
  `userprog/syscall.h:150` says "Write "size" bytes from "buffer" to the open
  file."
- `machine/console.cc:105`: the byte 255 is `EOF` as a `char`: polling stops and
  whatever follows is never read. `CallsReturn` is about inputs without it.
- `filesys/filesys.cc:315`: in the real file system Remove frees the sectors of
  a file that is open, and they can be given to another file under the open
  one; `filesys.h:149` speaks of UNIX unlink. `disk_files` therefore keeps
  programs from removing open files.
- `filesys/filesys.cc:216-219`: a stop after the directory and before the map
  leaves a file whose sectors the next Create takes; `filesys.cc:38` announces
  that. After it, Remove of the hurt file may meet the `ASSERT` of
  `filehdr.cc:71`.
- `filesys/filesys.cc:265`: Open with a full table indexes `openf[-1]`; after a
  mount stdin and stdout take two further slots; `filehdr.cc:51` does not
  compare the number of sectors with `NumDirect`, so a size beyond what a header
  holds is written past its end. DiskFiles has callers that keep to it.
- `userprog/exception.cc:255`: a failing Open leaves the call number 6 in r2
  where the comment says -1; a Write of no bytes leaves 8; Create and Close
  return 0 where `syscall.h:138,170` say 1; Read at the end of a file returns
  -2, and counts bytes after a NUL that it does not copy (`syscall.h:156`);
  the console ids of `syscall.h:125-129` are refused by Read and Write.
- `filesys/openfile.h:61,107`: a refused Seek leaves the position at the end,
  because `Length` moves the UNIX offset. `FilesChangeExact` lets a refused Seek
  leave it there or where it was, so a repaired Length would satisfy it too.
- `machine/mipssim.cc:520-529`: SRL and SRLV shift an `int`, so the sign is
  copied; line 232: the smallest int divided by -1 raises a signal in the host;
  JALR with `rs = rd`, and BGEZAL or BLTZAL on r31, read the link just written.
- `userprog/exception.cc:64`: `IncreasePC` sets `NextPCReg` from `PCReg`, so a
  system call in the delay slot of a taken branch loses the branch;
  `ProgrammersModel` exempts that place. Line 96: the text for an address error
  speaks of an overflow.
- `threads/synch.cc:181`: Acquire does not assert that the caller does not hold
  the lock already; a thread that does waits for itself.
- `network/post.cc:210`: the box number is checked at the receiver only;
  `machine/network.h:51` describes reliability as the chance of loss, the code
  uses it as the chance of delivery; `sendBusy` is never set to TRUE
  (`network.h:107`), so the test of it says nothing: that sends do not overlap,
  part of `MailExact`, is what makes it harmless.
- `userprog/synchconsole.cc:50`: a GetChar after the end of the input waits for
  ever with the lock held.
- `userprog/ksyscall.h:138`: `SysPrintNum` negates a negative number and never
  prints its sign, and for the smallest int, whose negation overflows, prints
  other characters; `SysReadNum` (line 86) collects digits in a `long long` that
  wraps around before the range is tested, so an input that is long enough can
  pass for a small number. The programs `test/num_io.c` and `test/bubblesort.c`
  print numbers they have read, and so show negative ones without their sign.
  `ConsoleCallsExact` asks for the digits of every number but the smallest int
  and allows the sign before those of a negative one, so a repaired PrintNum
  would satisfy it too; of inputs beyond `long long` it asks nothing.
- `threads/main.cc:189`, `threads/kernel.cc:35`: `main` and `Kernel::Kernel` scan
  the same words and each skips the values of its own options only, so a value
  that looks like an option of the other is taken for one. `ArgumentsExact` is
  about command lines without such values.
- `coff2noff/coff2noff.c:271`: the test that two `.bss` sections are contiguous
  is inverted: it refuses those that are, and adds up those that are not.
  Programs that are linked with two contiguous ones are not converted, and so
  not part of what `ImageExact` is about. Line 174 tests `fdIn` where the output
  file was just opened.

## 7. What is not modelled

- The headers of the cross compiler and of binutils under `usr/local/nachos/`,
  a third of the lines of C in the repository: vendored.
- The instructions of `switch.S`, one version per processor: Threads has what
  `SWITCH` and `ThreadRoot` do, the change of stack. Stack allocation and the
  fence posts of `CheckOverflow`.
- The TLB, which is not compiled in, and the debugger.
- `SynchConsoleInput::Read` and `SynchConsoleOutput::Write`: no open file
  reaches them (part of `TableExact`), and the lock they use is never created.
- `Timer::Disable`, which nothing calls, and `Alarm::WaitUntil`, which has no
  body.
- A stop while the disk is being formatted, and calls on a file that an earlier
  stop has hurt.
- Concurrent callers of the real file system: the source
  (`filesys.cc:33`) says there is no synchronisation, and the kernel has one user program at a time.
- The counters of Statistics other than ticks, debug output, and the printing
  routines other than those of the file system: they only print.
- Signals, memory protection, sleeping and random seeds of `lib/sysdep.cc`:
  wrappers of UNIX. Files, console and sockets appear in the modules of their
  callers.
- The test programs as machine code: Machine, FileSyscalls and ConsoleCalls
  have any sequence of instructions or calls within their bounds. The C++
  tutorial in `c++example/` is not part of the system.

## 8. Plan

Modelled, in this order: Threads, Synch and Monitor, FileSyscalls, DiskFiles,
SynchDisk, Console, SynchList, PostOffice, Machine and Mips, Lists and
Interrupts, Containers, Executable, ConsoleCalls, Startup, Decode. Proved, in
this order: the theorems of Threads, SynchDisk, Synch, Console, FileSyscalls,
PostOffice, Lists and Interrupts, DiskFiles, SynchList and Machine.

What could come next: `DecodeExact` for every word whose unused fields are zero,
one operation at a time.
