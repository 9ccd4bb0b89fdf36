------------------------------ MODULE Startup ------------------------------
(***************************************************************************)
(* One run of nachos, from the command line to the halt: main and the      *)
(* constructor of Kernel each look through the arguments, Initialize       *)
(* builds the kernel, main carries out what it was told in a fixed order,  *)
(* and at the end a user program may be loaded and run.                    *)
(*                                                                         *)
(* Composes Containers (any code of the running kernel), Executable        *)
(* (-x) and ConsoleCalls (the program that runs).  What a later stage does *)
(* not look at is forgotten on entering it, to keep the states few.        *)
(***************************************************************************)
EXTENDS Containers, Executable, ConsoleCalls

CONSTANTS
    Argvs,          \* the command lines
    UnixFiles,      \* the files of the host, by name
    OnDisk,      \* what the Nachos disk may hold at the start
    MaxFileSize,    \* the longest file Create has room for
    NumDirEntries,  \* the files the directory has room for
    TransferSize

VARIABLES
    stage,        \* where the run is
    stub,         \* compiled with FILESYS_STUB
    argv,
    mainOpts,     \* the options main has seen, with their values
    kernelOpts,   \* those the constructor of Kernel has seen
    built,        \* the objects Initialize has built, in order
    commands,     \* what main still has to do
    files,        \* the files on the Nachos disk, by name
    before,       \* files when main began its commands
    printed       \* what -p has printed

argVars  == << stub, argv, mainOpts, kernelOpts >>
fileVars == << files, before, printed >>
parts    == << containerVars, executableVars, consoleVars >>
vars     == << stage, argVars, built, commands, fileVars, parts >>

-----------------------------------------------------------------------------
(* The options and the number of their values, as main and Kernel::Kernel  *)
(* know them.                                                              *)
MainArity ==
    [o \in {"-d", "-x"} |-> 1] @@ [o \in {"-z", "-K", "-C", "-N", "-u"} |-> 0]
      @@ (IF stub THEN << >>
          ELSE "-cp" :> 2 @@ [o \in {"-p", "-r"} |-> 1] @@ [o \in {"-l", "-D"} |-> 0])

KernelArity ==
    [o \in {"-rs", "-ci", "-co", "-n", "-m"} |-> 1] @@ [o \in {"-s", "-u"} |-> 0]
      @@ (IF stub THEN << >> ELSE "-f" :> 0)

(* Mutant: the word behind a value is taken for one more value. *)
ScanWordSkips(arity, s, w) ==
    CASE s.need > 0 ->
           [s EXCEPT !.opts[s.option] = Append(@, w), !.need = @ - 1]
      [] s.need = 0 /\ w \in DOMAIN arity ->
           [opts |-> (w :> << >>) @@ s.opts, option |-> w,
            need |-> IF arity[w] = 2 THEN 3 ELSE arity[w]]
      [] OTHER -> s

(* One word of the loop over argv: a value of the option before it, an     *)
(* option, or a word this loop does not know.                              *)
ScanWord(arity, s, w) ==
    CASE s.need > 0 ->
           [s EXCEPT !.opts[s.option] = Append(@, w), !.need = @ - 1]
      [] s.need = 0 /\ w \in DOMAIN arity ->
           [opts |-> (w :> << >>) @@ s.opts, option |-> w, need |-> arity[w]]
      [] OTHER -> s

Scan(arity) ==
    FoldLeft(LAMBDA s, w : ScanWord(arity, s, w),
             [opts |-> << >>, option |-> NULL, need |-> 0], argv)

(* The loop of main; ASSERT(i + 1 < argc) if values are missing. *)
ScanMain ==
    /\ stage = "main"
    /\ stage' = IF Scan(MainArity).need > 0 THEN "aborted" ELSE "kernel"
    /\ mainOpts' = Scan(MainArity).opts
    /\ UNCHANGED << stub, argv, kernelOpts, built, commands, fileVars, parts >>

(* Kernel::Kernel. *)
ScanKernel ==
    /\ stage = "kernel"
    /\ stage' = IF Scan(KernelArity).need > 0 THEN "aborted" ELSE "scanned"
    /\ kernelOpts' = Scan(KernelArity).opts
    /\ UNCHANGED << stub, argv, mainOpts, built, commands, fileVars, parts >>

-----------------------------------------------------------------------------
(* Mutant: devices first. *)
BuildOrderDevicesFirst ==
    << "currentThread", "stats", "scheduler", "alarm", "interrupt", "machine",
       "synchConsoleIn", "synchConsoleOut", "synchDisk", "fileSystem",
       "postOfficeIn", "postOfficeOut" >>

(* Kernel::Initialize: the objects in the order it builds them. *)
BuildOrder ==
    << "currentThread", "stats", "interrupt", "scheduler", "alarm", "machine",
       "synchConsoleIn", "synchConsoleOut", "synchDisk", "fileSystem",
       "postOfficeIn", "postOfficeOut" >>

(* What a constructor reaches through kernel->.  Schedule needs the time;  *)
(* the real file system reads sectors and so sleeps, which lets every      *)
(* interrupt that is pending by then come, and delivering one touches the  *)
(* machine; the post office forks its thread.                              *)
Uses(o) ==
    CASE o \in {"alarm", "synchConsoleIn"} -> {"interrupt", "stats"}
      [] o = "fileSystem" /\ ~stub ->
           {"currentThread", "stats", "interrupt", "scheduler", "alarm", "machine",
            "synchConsoleIn", "synchDisk"}
      [] o = "postOfficeIn" -> {"interrupt", "stats", "scheduler"}
      [] OTHER -> {}

(* What main does once the kernel is ready, in this order. *)
Dispatch(opts) ==
    SelectSeq(<< "-K", "-C", "-N", "-r", "-cp", "-D", "-l", "-p", "-x" >>,
              LAMBDA o : o \in DOMAIN opts)

(* new Thread, ... , new PostOfficeOutput; argv is done with. *)
Build ==
    /\ stage \in {"scanned", "initialize"} /\ Len(built) < Len(BuildOrder)
    /\ built' = Append(built, BuildOrder[Len(built) + 1])
    /\ stage' = "initialize" /\ argv' = << >>
    /\ UNCHANGED << stub, mainOpts, kernelOpts, commands, fileVars, parts >>

(* interrupt->Enable, and CallOnUserAbort. *)
Enable ==
    /\ stage = "initialize" /\ Len(built) = Len(BuildOrder)
    /\ stage' = "ready"
    /\ commands' = Dispatch(mainOpts)
    /\ UNCHANGED << argVars, built, fileVars, parts >>

-----------------------------------------------------------------------------
Command(o) == stage = "ready" /\ commands # << >> /\ Head(commands) = o
NextCommand == commands' = Tail(commands) /\ UNCHANGED << stage, argVars, built >>
Given(o, i) == mainOpts[o][i]

(* ThreadSelfTest: the tests of the library; those of threads, semaphores  *)
(* and synchronised lists are programs of SynchList.                       *)
ThreadSelfTest ==
    /\ Command("-K") /\ LibSelfTest
    /\ NextCommand /\ UNCHANGED << fileVars, parts >>

(* ConsoleTest returns when the input ends, here after one character. *)
RunConsoleTest ==
    /\ Command("-C")
    /\ \E in \in Typed : Len(in) <= 2 /\ ConsoleTest(in).returns
                              /\ shown' = ConsoleTest(in).shown
    /\ NextCommand
    /\ UNCHANGED << input, mem, r2, calls, outcome, fileVars, containerVars, executableVars >>

(* NetworkTest: at once unless the machine is 0 or 1; with its peer the    *)
(* subject of PostOffice.                                                  *)
RunNetworkTest ==
    /\ Command("-N")
    /\ NextCommand /\ UNCHANGED << fileVars, parts >>

RemoveFile ==
    /\ Command("-r")
    /\ files' = [f \in DOMAIN files \ {Given("-r", 1)} |-> files[f]]
    /\ NextCommand /\ UNCHANGED << before, printed, parts >>

(* The loops of Copy and PrintFile: one read of at most TransferSize bytes *)
(* after the other.  reads has the bytes of each.                          *)
Reads(content) ==
    [k \in 1 .. (Len(content) + TransferSize - 1) \div TransferSize |->
        SubSeq(content, (k - 1) * TransferSize + 1,
               IF k * TransferSize < Len(content) THEN k * TransferSize ELSE Len(content))]

(* openFile->Write(buffer, amountRead) at the seek position, inside the    *)
(* length the file was created with.                                       *)
WriteNext(f, chunk) ==
    [content |-> [i \in DOMAIN f.content |->
                    IF i - f.seek \in DOMAIN chunk THEN chunk[i - f.seek] ELSE f.content[i]],
     seek |-> f.seek + Len(chunk)]

(* Mutant: without Lseek(fd, 0, 0) the descriptor stays at the end. *)
ToCopyFromEnd(from) == << >>

(* The bytes ReadPartial returns after the Lseeks of Copy. *)
ToCopy(from) == UnixFiles[from]

Copy ==
    LET from == Given("-cp", 1)
        to   == Given("-cp", 2)
        new  == [i \in 1 .. Len(UnixFiles[from]) |-> 0]
        data == FoldLeft(WriteNext, [content |-> new, seek |-> 0], Reads(ToCopy(from)))
    IN  /\ Command("-cp")
        /\ files' =
             IF \/ from \notin DOMAIN UnixFiles           \* couldn't open input file
                \/ to \in DOMAIN files                     \* couldn't create output file
                \/ Cardinality(DOMAIN files) >= NumDirEntries
                \/ Len(UnixFiles[from]) > MaxFileSize
             THEN files
             ELSE (to :> data.content) @@ files
        /\ NextCommand /\ UNCHANGED << before, printed, parts >>

(* fileSystem->Print and fileSystem->List only print. *)
DumpOrList ==
    /\ Command("-D") \/ Command("-l")
    /\ NextCommand /\ UNCHANGED << fileVars, parts >>

PrintFile ==
    /\ Command("-p")
    /\ printed' = IF Given("-p", 1) \in DOMAIN files
                  THEN FlattenSeq(Reads(files[Given("-p", 1)])) ELSE << >>
    /\ NextCommand /\ UNCHANGED << files, before, parts >>

-----------------------------------------------------------------------------
(* new AddrSpace, space->Load, space->Execute. *)
Forget ==
    /\ argv' = << >> /\ mainOpts' = << >> /\ kernelOpts' = << >> /\ built' = << >>
    /\ commands' = << >> /\ files' = << >> /\ before' = << >> /\ printed' = << >>
    /\ stub' = TRUE /\ shown' = << >>
    /\ UNCHANGED << input, mem, r2, calls, outcome >>

Execute ==
    /\ Command("-x") /\ Convert
    /\ stage' = "load"
    /\ Forget /\ UNCHANGED containerVars

Rest == << argVars, built, commands, fileVars, containerVars >>

LoadProgram ==
    /\ stage = "load"
    /\ \/ LoadFails /\ stage' = "halted" /\ UNCHANGED executableVars
       \/ \E h \in Host :
            \/ LoadAborts(h) /\ stage' = "aborted" /\ UNCHANGED executableVars
            \/ Load(h) /\ stage' = "loaded"
    /\ UNCHANGED << Rest, consoleVars >>

(* machine->Run. *)
Run ==
    /\ stage = "loaded" /\ stage' = "running"
    /\ coff' = NoFile /\ noff' = NoFile /\ space' = NoFile   \* forgotten
    /\ UNCHANGED << Rest, consoleVars >>

UserProgram ==
    /\ stage = "running" /\ (StartCalls \/ ConsoleCall)
    /\ stage' = CASE outcome' = "running" -> IF calls' = << >> THEN "halted" ELSE stage
                  [] OTHER -> outcome'
    /\ UNCHANGED << Rest, executableVars >>

(* The kernel, or a test, uses the containers of the library. *)
UseContainers ==
    /\ \/ stage = "ready" /\ commands = << >> /\ mainOpts = << >> /\ NewContainer
       \/ stage = "library" /\ ContainerOp
    /\ stage' = "library"
    /\ Forget /\ UNCHANGED executableVars

(* Kernel::~Kernel deletes every object and exits. *)
DeleteKernel == stage' = "halted" /\ built' = << >>

(* main ends with Halt; ctl-C deletes the kernel from anywhere. *)
Halt ==
    /\ stage = "ready" /\ commands = << >>
    /\ DeleteKernel
    /\ UNCHANGED << argVars, commands, fileVars, parts >>
Cleanup ==
    /\ stage \in {"ready", "load", "loaded", "running"}
    /\ DeleteKernel
    /\ UNCHANGED << argVars, commands, fileVars, parts >>

-----------------------------------------------------------------------------
Init ==
    /\ stage = "main" /\ stub \in BOOLEAN /\ argv \in Argvs
    /\ mainOpts = << >> /\ kernelOpts = << >> /\ built = << >> /\ commands = << >>
    /\ files \in OnDisk /\ before = files /\ printed = << >>
    /\ NoContainer /\ NoProgram /\ NoConsoleCalls

Next ==
    \/ ScanMain \/ ScanKernel \/ Build \/ Enable
    \/ ThreadSelfTest \/ RunConsoleTest \/ RunNetworkTest
    \/ RemoveFile \/ Copy \/ DumpOrList \/ PrintFile
    \/ Execute \/ LoadProgram \/ Run \/ UserProgram \/ UseContainers
    \/ Halt \/ Cleanup

Spec == Init /\ [][Next]_vars

-----------------------------------------------------------------------------
Options == DOMAIN MainArity \cup DOMAIN KernelArity
Arity(o) == IF o \in DOMAIN MainArity THEN MainArity[o] ELSE KernelArity[o]
Value1(i) == SubSeq(argv, i + 1, i + Arity(argv[i]))

(* No value of an option is itself an option. *)
Plain ==
    \A i \in DOMAIN argv :
        argv[i] \in Options =>
            \A k \in i + 1 .. i + Arity(argv[i]) :
                k \in DOMAIN argv => argv[k] \notin Options

(* The last one counts. *)
Reading(arity) ==
    [o \in DOMAIN arity \cap ToSet(argv) |->
        LET at == {i \in DOMAIN argv : argv[i] = o}
        IN  Value1(CHOOSE i \in at : \A j \in at : j <= i)]

(* main and Kernel::Kernel go through the same words, each skipping what   *)
(* the other takes.  As long as no value looks like an option, they agree  *)
(* on which words are options: each option is seen by the one it is for,   *)
(* with its own values, the last of several counts, and nachos stops in an *)
(* ASSERT exactly when values are missing at the end.                      *)
ArgumentsExact ==
    Plain =>
        /\ stage = "scanned" => /\ mainOpts = Reading(MainArity)
                                /\ kernelOpts = Reading(KernelArity)
        /\ stage \in {"scanned", "aborted"} /\ argv # << >> =>
              (stage = "aborted" <=>
                 \E i \in DOMAIN argv :
                    argv[i] \in Options /\ i + Arity(argv[i]) > Len(argv))

(* No constructor reaches for an object that Initialize has not built yet, *)
(* not even through the interrupts that come while the real file system    *)
(* waits for its first sectors.                                            *)
BootOrder ==
    \A i \in DOMAIN built : Uses(built[i]) \subseteq ToSet(SubSeq(built, 1, i - 1))

(* After the commands the disk is as a remove and then a copy of the whole *)
(* UNIX file leave it, whatever the order of the options, and -p has shown *)
(* exactly the bytes of its file.                                          *)
CommandsExact ==
    stage = "ready" /\ commands = << >> =>
        LET Has(o) == o \in DOMAIN mainOpts
            kept == IF Has("-r") THEN [f \in DOMAIN before \ {Given("-r", 1)} |-> before[f]]
                    ELSE before
            copies == /\ Has("-cp")
                      /\ Given("-cp", 1) \in DOMAIN UnixFiles
                      /\ Given("-cp", 2) \notin DOMAIN kept
                      /\ Cardinality(DOMAIN kept) < NumDirEntries
                      /\ Len(UnixFiles[Given("-cp", 1)]) <= MaxFileSize
            after == IF copies THEN kept @@ (Given("-cp", 2) :> UnixFiles[Given("-cp", 1)])
                     ELSE kept
        IN  /\ files = after
            /\ printed = IF Has("-p") /\ Given("-p", 1) \in DOMAIN after
                         THEN after[Given("-p", 1)] ELSE << >>
=============================================================================
