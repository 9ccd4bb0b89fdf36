------------------------------ MODULE Threads ------------------------------
(***************************************************************************)
(* Kernel threads, the scheduler and the interrupt level of NachOS:        *)
(* threads/thread.cc, threads/scheduler.cc, machine/interrupt.cc,          *)
(* machine/timer.cc and threads/alarm.cc.                                  *)
(*                                                                         *)
(* There is one CPU.  A thread loses it only inside Scheduler::Run, which  *)
(* is reached from Thread::Sleep, from an explicit Thread::Yield, or from  *)
(* the Yield that Interrupt::OneTick makes after a timer interrupt.        *)
(* OneTick runs when Interrupt::SetLevel turns interrupts from off to on   *)
(* and after every user instruction, and nowhere else, so the code between *)
(* two such points is one step.  Variable cpu says where the CPU is:       *)
(*   "code"    the current thread executes code of its own                 *)
(*   "tick"    Interrupt::OneTick, in the handler loop of CheckIfDue       *)
(*   "sleep"   the loop of Thread::Sleep, looking for a thread to run      *)
(*   "idle"    Interrupt::Idle, in the handler loop of CheckIfDue          *)
(*   "resume"  SWITCH has just loaded the stack of currentThread           *)
(*   "halted"  Interrupt::Halt has been called                             *)
(***************************************************************************)
EXTENDS Naturals, Sequences, Functions

CONSTANTS
    Thread,      \* the Thread objects that are ever created
    main,        \* the thread made by Kernel::Initialize
    UserThread,  \* the threads that may call AddrSpace::Execute
    NULL

ASSUME ThreadAssumption ==
    /\ main \in Thread
    /\ UserThread \subseteq Thread
    /\ NULL \notin Thread

VARIABLES
    currentThread,  \* kernel->currentThread
    status,         \* Thread::status; "DELETED" once the object is deleted
    readyList,      \* Scheduler::readyList
    toBeDestroyed,  \* Scheduler::toBeDestroyed
    level,          \* Interrupt::level
    mode,           \* Interrupt::status
    yieldOnReturn,  \* Interrupt::yieldOnReturn
    cpu,            \* the control point, see above
    finishing,      \* the argument of the Thread::Sleep in progress
    cont,           \* where on its stack a thread continues after SWITCH
    oldStatus,      \* OneTick's local oldStatus, while it is inside Yield
    space,          \* the threads with Thread::space # NULL
    regs,           \* whose user registers the machine holds
    userRegs        \* whose user registers Thread::userRegisters holds

vars == << currentThread, status, readyList, toBeDestroyed, level, mode,
           yieldOnReturn, cpu, finishing, cont, oldStatus, space, regs,
           userRegs >>

intVars  == << yieldOnReturn, oldStatus >>
userVars == << space, regs, userRegs >>

Status == {"JUST_CREATED", "RUNNING", "READY", "BLOCKED", "DELETED"}
Level  == {"IntOff", "IntOn"}
Mode   == {"IdleMode", "SystemMode", "UserMode"}
Cpu    == {"code", "tick", "sleep", "idle", "resume", "halted"}
Cont   == {"Begin", "YieldOff", "YieldOn", "Sleep"}

TypeOK ==
    /\ currentThread \in Thread
    /\ status \in [Thread -> Status]
    /\ readyList \in Seq(Thread)
    /\ toBeDestroyed \in Thread \cup {NULL}
    /\ level \in Level
    /\ mode \in Mode
    /\ yieldOnReturn \in BOOLEAN
    /\ cpu \in Cpu
    /\ finishing \in BOOLEAN
    /\ cont \in [Thread -> Cont]
    /\ oldStatus \in [Thread -> Mode \cup {"none"}]
    /\ space \subseteq Thread
    /\ regs \in Thread \cup {NULL}
    /\ userRegs \in [Thread -> Thread \cup {NULL}]

(* Kernel::Initialize up to the final interrupt->Enable(): the main thread *)
(* runs, interrupts are off, nothing is on the ready list.                 *)
Init ==
    /\ currentThread = main
    /\ status = [t \in Thread |-> IF t = main THEN "RUNNING"
                                              ELSE "JUST_CREATED"]
    /\ readyList = << >>
    /\ toBeDestroyed = NULL
    /\ level = "IntOff"
    /\ mode = "SystemMode"
    /\ yieldOnReturn = FALSE
    /\ cpu = "code"
    /\ finishing = FALSE
    /\ cont = [t \in Thread |-> "Begin"]
    /\ oldStatus = [t \in Thread |-> "none"]
    /\ space = {}
    /\ regs = NULL
    /\ userRegs = [t \in Thread |-> NULL]

-----------------------------------------------------------------------------
(* Building blocks.                                                        *)

InKernel == cpu = "code" /\ mode = "SystemMode"

(* Mutant: ReadyToRun without setStatus(READY). *)
ReadyToRunNoStatus(t) ==
    /\ status' = status
    /\ readyList' = Append(readyList, t)

(* Scheduler::ReadyToRun. *)
ReadyToRun(t) ==
    /\ status' = [status EXCEPT ![t] = "READY"]
    /\ readyList' = Append(readyList, t)

(* Interrupt::SetLevel(old) called with interrupts off: turning them on    *)
(* enters OneTick, which turns them off again while handlers run.          *)
SetLevel(old) ==
    /\ level' = "IntOff"
    /\ cpu' = IF old = "IntOn" THEN "tick" ELSE "code"

(* Mutant: Run without SaveUserState. *)
SwitchToUnsaved(next) ==
    /\ userRegs' = userRegs
    /\ currentThread' = next
    /\ level' = "IntOff"
    /\ cpu' = "resume"

(* The part of Scheduler::Run before SWITCH that every caller shares.      *)
SwitchTo(next) ==
    /\ userRegs' = [userRegs EXCEPT ![currentThread] =
                        IF currentThread \in space THEN regs ELSE @]
    /\ currentThread' = next
    /\ level' = "IntOff"
    /\ cpu' = "resume"

(* Thread::Yield called with interrupt level old.  With nothing ready it   *)
(* only puts the level back.                                               *)
YieldFrom(old) ==
    \/ /\ readyList = << >>
       /\ SetLevel(old)
       /\ UNCHANGED << currentThread, status, readyList, cont, userRegs >>
    \/ /\ readyList # << >>
       /\ readyList' = Append(Tail(readyList), currentThread)
       /\ status' = [status EXCEPT ![currentThread] = "READY",
                                   ![Head(readyList)] = "RUNNING"]
       /\ cont' = [cont EXCEPT ![currentThread] =
                       IF old = "IntOn" THEN "YieldOn" ELSE "YieldOff"]
       /\ SwitchTo(Head(readyList))

(* Thread::Sleep(f) after interrupts were turned off, up to its loop.      *)
StartSleep(f) ==
    /\ InKernel
    /\ level' = "IntOff"
    /\ status' = [status EXCEPT ![currentThread] = "BLOCKED"]
    /\ finishing' = f
    /\ cpu' = "sleep"
    /\ UNCHANGED << currentThread, readyList, toBeDestroyed, mode, cont >>
    /\ UNCHANGED intVars
    /\ UNCHANGED userVars

(* The threads some synchronisation object may hand to ReadyToRun: every   *)
(* blocked thread except one that is in Finish.                            *)
Wakeable(t) ==
    /\ status[t] = "BLOCKED"
    /\ ~(finishing /\ t = currentThread)

-----------------------------------------------------------------------------
(* Code of the current thread.                                             *)

(* SetLevel(IntOff): no tick. *)
DisableInterrupts ==
    /\ InKernel
    /\ level = "IntOn"
    /\ level' = "IntOff"
    /\ UNCHANGED << currentThread, status, readyList, toBeDestroyed, mode,
                    cpu, finishing, cont >>
    /\ UNCHANGED intVars
    /\ UNCHANGED userVars

(* SetLevel(IntOn), Interrupt::Enable. *)
EnableInterrupts ==
    /\ InKernel
    /\ level = "IntOff"
    /\ SetLevel("IntOn")
    /\ UNCHANGED << currentThread, status, readyList, toBeDestroyed, mode,
                    finishing, cont >>
    /\ UNCHANGED intVars
    /\ UNCHANGED userVars

(* A routine that turns interrupts off, changes only its own data and puts *)
(* the level back (Semaphore::P and V when no thread is involved).         *)
CriticalSection ==
    /\ InKernel
    /\ level = "IntOn"
    /\ SetLevel("IntOn")
    /\ UNCHANGED << currentThread, status, readyList, toBeDestroyed, mode,
                    finishing, cont >>
    /\ UNCHANGED intVars
    /\ UNCHANGED userVars

(* Thread::Fork on the new thread t. *)
Fork(t) ==
    /\ InKernel
    /\ status[t] = "JUST_CREATED"
    /\ ReadyToRun(t)
    /\ SetLevel(level)
    /\ UNCHANGED << currentThread, toBeDestroyed, mode, finishing, cont >>
    /\ UNCHANGED intVars
    /\ UNCHANGED userVars

(* V by the current thread hands t to the scheduler, whatever t is doing:  *)
(* interrupts off, ReadyToRun(t), level back (Semaphore::V).               *)
ThreadWakes(t) ==
    /\ InKernel
    /\ ReadyToRun(t)
    /\ SetLevel(level)
    /\ UNCHANGED << currentThread, toBeDestroyed, mode, finishing, cont >>
    /\ UNCHANGED intVars
    /\ UNCHANGED userVars

(* A synchronisation routine of the current thread wakes a sleeper. *)
WakeUp(t) == Wakeable(t) /\ ThreadWakes(t)

(* Thread::Yield called by the thread itself. *)
Yield ==
    /\ InKernel
    /\ YieldFrom(level)
    /\ UNCHANGED << toBeDestroyed, mode, finishing, space, regs >>
    /\ UNCHANGED intVars

(* Thread::Sleep(FALSE), called by a synchronisation routine.              *)
Sleep == StartSleep(FALSE)

(* Thread::Finish, called when the forked procedure returns.  The main     *)
(* thread was not forked, it ends in Halt; Execute does not return.        *)
Finish ==
    /\ currentThread # main
    /\ currentThread \notin space
    /\ StartSleep(TRUE)

(* AddrSpace::Execute: the thread gets an address space, the machine its   *)
(* registers, and Machine::Run enters user mode.                           *)
Execute ==
    /\ InKernel
    /\ level = "IntOn"
    /\ currentThread \in UserThread
    /\ currentThread \notin space
    /\ space' = space \cup {currentThread}
    /\ regs' = currentThread
    /\ mode' = "UserMode"
    /\ UNCHANGED << currentThread, status, readyList, toBeDestroyed, level,
                    cpu, finishing, cont, userRegs >>
    /\ UNCHANGED intVars

(* One user instruction that raises no exception, then OneTick.            *)
UserInstruction ==
    /\ cpu = "code"
    /\ mode = "UserMode"
    /\ level' = "IntOff"
    /\ cpu' = "tick"
    /\ UNCHANGED << currentThread, status, readyList, toBeDestroyed, mode,
                    finishing, cont >>
    /\ UNCHANGED intVars
    /\ UNCHANGED userVars

(* Machine::RaiseException up to the call of ExceptionHandler. *)
RaiseException ==
    /\ cpu = "code"
    /\ mode = "UserMode"
    /\ mode' = "SystemMode"
    /\ UNCHANGED << currentThread, status, readyList, toBeDestroyed, level,
                    cpu, finishing, cont >>
    /\ UNCHANGED intVars
    /\ UNCHANGED userVars

(* ExceptionHandler returns, user mode is set again, then OneTick. *)
ExceptionReturn ==
    /\ InKernel
    /\ level = "IntOn"
    /\ currentThread \in space
    /\ mode' = "UserMode"
    /\ level' = "IntOff"
    /\ cpu' = "tick"
    /\ UNCHANGED << currentThread, status, readyList, toBeDestroyed,
                    finishing, cont >>
    /\ UNCHANGED intVars
    /\ UNCHANGED userVars

(* Interrupt::Halt, from the Halt system call or the end of main. *)
Halt ==
    /\ InKernel
    /\ cpu' = "halted"
    /\ UNCHANGED << currentThread, status, readyList, toBeDestroyed, level,
                    mode, finishing, cont >>
    /\ UNCHANGED intVars
    /\ UNCHANGED userVars

-----------------------------------------------------------------------------
(* Interrupt handlers.  CheckIfDue calls the due handlers one by one with  *)
(* interrupts off; which ones are due is left open.                        *)

InHandler == cpu \in {"tick", "idle"}

(* V by a handler hands t to the scheduler, whatever t is doing. *)
HandlerWakes(t) ==
    /\ InHandler
    /\ ReadyToRun(t)
    /\ UNCHANGED << currentThread, toBeDestroyed, level, mode, cpu,
                    finishing, cont >>
    /\ UNCHANGED intVars
    /\ UNCHANGED userVars

(* A device handler wakes a sleeper (V on the semaphore t waits for). *)
DeviceInterrupt(t) == Wakeable(t) /\ HandlerWakes(t)

(* Mutant: Alarm::CallBack with its test of IdleMode the wrong way round.  *)
TimerInterruptInverted ==
    /\ InHandler
    /\ yieldOnReturn' = (yieldOnReturn \/ mode = "IdleMode")
    /\ UNCHANGED << currentThread, status, readyList, toBeDestroyed, level,
                    mode, cpu, finishing, cont, oldStatus >>
    /\ UNCHANGED userVars

(* Timer::CallBack, Alarm::CallBack: ask for a time slice unless idle. *)
TimerInterrupt ==
    /\ InHandler
    /\ yieldOnReturn' = (yieldOnReturn \/ mode # "IdleMode")
    /\ UNCHANGED << currentThread, status, readyList, toBeDestroyed, level,
                    mode, cpu, finishing, cont, oldStatus >>
    /\ UNCHANGED userVars

(* The machine status when OneTick is over. *)
StatusAfterTick ==
    IF oldStatus[currentThread] = "none" THEN mode ELSE oldStatus[currentThread]

(* OneTick ends without a yield.  If it was itself called from the Yield   *)
(* of outer OneTicks these return too, innermost first and with no tick in *)
(* between, so the machine status of the outermost one is put back.        *)
TickReturn ==
    /\ cpu = "tick"
    /\ ~yieldOnReturn
    /\ level' = "IntOn"
    /\ cpu' = "code"
    /\ mode' = StatusAfterTick
    /\ oldStatus' = [oldStatus EXCEPT ![currentThread] = "none"]
    /\ UNCHANGED << currentThread, status, readyList, toBeDestroyed,
                    yieldOnReturn, finishing, cont >>
    /\ UNCHANGED userVars

(* OneTick makes the current thread yield.  Only the outermost oldStatus   *)
(* is kept, see TickReturn.                                                *)
TickYield ==
    /\ cpu = "tick"
    /\ yieldOnReturn
    /\ yieldOnReturn' = FALSE
    /\ oldStatus' = [oldStatus EXCEPT ![currentThread] =
                         IF @ = "none" THEN mode ELSE @]
    /\ mode' = "SystemMode"
    /\ YieldFrom("IntOn")
    /\ UNCHANGED << toBeDestroyed, finishing, space, regs >>

-----------------------------------------------------------------------------
(* Scheduling.                                                             *)

(* Thread::Sleep finds a thread: Scheduler::Run up to SWITCH.              *)
Dispatch ==
    /\ cpu = "sleep"
    /\ readyList # << >>
    /\ readyList' = Tail(readyList)
    /\ status' = [status EXCEPT ![Head(readyList)] = "RUNNING"]
    /\ toBeDestroyed' = IF finishing THEN currentThread ELSE toBeDestroyed
    /\ finishing' = FALSE
    /\ cont' = [cont EXCEPT ![currentThread] = "Sleep"]
    /\ SwitchTo(Head(readyList))
    /\ UNCHANGED << mode, space, regs >>
    /\ UNCHANGED intVars

(* Nothing is ready: Interrupt::Idle advances the clock to the next        *)
(* pending interrupt.  There always is one, the timer (Timer::SetInterrupt *)
(* reschedules on every call), so the Halt in Idle is not reached.         *)
Idle ==
    /\ cpu = "sleep"
    /\ readyList = << >>
    /\ cpu' = "idle"
    /\ mode' = "IdleMode"
    /\ UNCHANGED << currentThread, status, readyList, toBeDestroyed, level,
                    finishing, cont >>
    /\ UNCHANGED intVars
    /\ UNCHANGED userVars

IdleReturn ==
    /\ cpu = "idle"
    /\ cpu' = "sleep"
    /\ mode' = "SystemMode"
    /\ UNCHANGED << currentThread, status, readyList, toBeDestroyed, level,
                    finishing, cont >>
    /\ UNCHANGED intVars
    /\ UNCHANGED userVars

(* Mutant: the pointer to the deleted thread is not reset. *)
CheckToBeDestroyedKept ==
    /\ status' = [t \in Thread |-> IF t = toBeDestroyed THEN "DELETED"
                                                        ELSE status[t]]
    /\ toBeDestroyed' = toBeDestroyed

(* Mutant: the thread that runs is deleted in place of the finished one.   *)
CheckToBeDestroyedSelf ==
    /\ status' = [status EXCEPT ![currentThread] =
                      IF toBeDestroyed = NULL THEN @ ELSE "DELETED"]
    /\ toBeDestroyed' = NULL

(* Scheduler::CheckToBeDestroyed. *)
CheckToBeDestroyed ==
    /\ status' = [t \in Thread |-> IF t = toBeDestroyed THEN "DELETED"
                                                        ELSE status[t]]
    /\ toBeDestroyed' = NULL

(* A thread runs for the first time: Thread::Begin. *)
Begin ==
    /\ cpu = "resume"
    /\ cont[currentThread] = "Begin"
    /\ CheckToBeDestroyed
    /\ SetLevel("IntOn")
    /\ UNCHANGED << currentThread, readyList, mode, finishing, cont >>
    /\ UNCHANGED intVars
    /\ UNCHANGED userVars

(* The part of Scheduler::Run after SWITCH, and the rest of Yield or Sleep *)
(* that called it.                                                         *)
ReturnFromRun ==
    /\ cpu = "resume"
    /\ cont[currentThread] # "Begin"
    /\ CheckToBeDestroyed
    /\ regs' = IF currentThread \in space THEN userRegs[currentThread] ELSE regs
    /\ SetLevel(IF cont[currentThread] = "YieldOn" THEN "IntOn" ELSE "IntOff")
    /\ UNCHANGED << currentThread, readyList, mode, finishing, cont, space,
                    userRegs >>
    /\ UNCHANGED intVars

(* After Halt nothing happens. *)
Halted == cpu = "halted" /\ UNCHANGED vars

Scheduling == Dispatch \/ Idle \/ IdleReturn \/ Begin \/ ReturnFromRun

CodeStep ==
    \/ DisableInterrupts \/ EnableInterrupts \/ CriticalSection
    \/ Yield \/ Sleep \/ Finish
    \/ Execute \/ UserInstruction \/ RaiseException \/ ExceptionReturn
    \/ \E t \in Thread : Fork(t) \/ WakeUp(t)

Interrupts ==
    \/ TimerInterrupt \/ TickReturn \/ TickYield
    \/ \E t \in Thread : DeviceInterrupt(t)

Next == CodeStep \/ Halt \/ Interrupts \/ Scheduling \/ Halted

Spec == Init /\ [][Next]_vars

(* Fairness: the CPU never stops by itself; a thread keeps executing and   *)
(* leaves its interrupts-off sections; and since the timer is rescheduled  *)
(* on every interrupt and every tick advances the clock, among infinitely  *)
(* many ticks infinitely many find the timer due.                          *)
Fairness ==
    /\ WF_vars(Scheduling)
    /\ WF_vars(TickReturn)
    /\ WF_vars(TickYield)
    /\ WF_vars(CodeStep)
    /\ WF_vars(EnableInterrupts)
    /\ SF_vars(cpu = "tick" /\ TimerInterrupt)

FairSpec == Spec /\ Fairness

-----------------------------------------------------------------------------
(* Properties.                                                             *)

(* The ready list holds exactly the threads whose status is READY, each    *)
(* once (List::Append asserts the item is not in the list already).        *)
ReadyListExact ==
    /\ Range(readyList) = {t \in Thread : status[t] = "READY"}
    /\ IsInjective(readyList)

(* Exactly one thread is RUNNING and it is currentThread; during Sleep the *)
(* current thread is BLOCKED or has been made READY again by a handler,    *)
(* and nobody is RUNNING.                                                  *)
OneRunning ==
    {t \in Thread : status[t] = "RUNNING"} =
        IF cpu \in {"sleep", "idle"} THEN {} ELSE {currentThread}

(* The carcass protocol: Run's ASSERT(toBeDestroyed == NULL) holds when a  *)
(* finishing thread reaches it, ~Thread never destroys the current thread, *)
(* and a thread waiting to be destroyed is not on the ready list.          *)
CarcassSafe ==
    /\ cpu # "resume" => toBeDestroyed = NULL
    /\ toBeDestroyed # NULL =>
         /\ toBeDestroyed # currentThread
         /\ toBeDestroyed \notin Range(readyList)
         /\ status[toBeDestroyed] = "BLOCKED"

(* User mode is entered only by a thread with an address space, with       *)
(* interrupts on and its own registers in the machine; kernel routines     *)
(* (Sleep, SWITCH and what follows it) never run in user mode.             *)
ModeMatchesThread ==
    /\ cpu = "code" /\ mode = "UserMode" =>
         currentThread \in space /\ regs = currentThread /\ level = "IntOn"
    /\ cpu \in {"sleep", "resume"} => mode = "SystemMode"

(* A user thread that lost the CPU has its own registers saved. *)
UserStateSaved ==
    \A t \in Thread :
        /\ t \in space /\ status[t] \in {"READY", "BLOCKED"}
        /\ ~(t = currentThread /\ cpu \in {"sleep", "idle"})
        => userRegs[t] = t

(* What each control point may assume: the interrupt level and machine     *)
(* status OneTick, Sleep, Idle and SWITCH run under, who owns the machine  *)
(* registers there, and that a thread which never ran has no user state.   *)
ControlOK ==
    /\ cpu \in {"tick", "sleep", "idle", "resume"} => level = "IntOff"
    /\ mode = "IdleMode" <=> cpu = "idle"
    /\ mode = "UserMode" => cpu \in {"code", "tick"} /\ currentThread \in space
    /\ cpu \in {"sleep", "idle"} => status[currentThread] \in {"BLOCKED", "READY"}
    /\ finishing => cpu \in {"sleep", "idle"} /\ status[currentThread] = "BLOCKED"
    /\ currentThread \in space =>
         IF cpu = "resume" THEN userRegs[currentThread] = currentThread
                           ELSE regs = currentThread
    /\ \A t \in Thread :
         /\ oldStatus[t] # "IdleMode"
         /\ oldStatus[t] = "UserMode" => t \in space
         /\ t \in space => status[t] # "JUST_CREATED"
         /\ t \in space /\ cont[t] = "Begin" => t = currentThread /\ cpu # "resume"

(* A time slice asked for by the timer is given by the OneTick it hit; it  *)
(* never leaks out to be charged to a later thread.                        *)
YieldNotStale == yieldOnReturn => cpu = "tick"

(* The scheduler's data agree with each other and with where the CPU is:   *)
(* Scheduler::readyList holds exactly the READY threads, each once, one    *)
(* thread runs, and no yieldOnReturn outlives its tick.                    *)
SchedulerSafe == ReadyListExact /\ OneRunning /\ ControlOK /\ YieldNotStale

(* A preempted user program gets its own registers back, and nobody else   *)
(* runs on them.                                                           *)
UserStateIsolated == ModeMatchesThread /\ UserStateSaved

(* A deleted thread stays deleted and is never scheduled again. *)
DeletedForever ==
    [][\A t \in Thread : status[t] = "DELETED" => status'[t] = "DELETED"]_vars

(* Round robin with time slicing: a ready thread eventually runs. *)
ReadyRuns ==
    \A t \in Thread :
        status[t] = "READY" ~> (status[t] = "RUNNING" \/ cpu = "halted")

(* A thread that finished is eventually deleted, once another one runs. *)
FinishedIsDeleted ==
    \A t \in Thread :
        (toBeDestroyed = t) ~> (status[t] = "DELETED")

(* No thread is left over: neither one that is ready, nor one that is done.*)
NobodyIsLeft == ReadyRuns /\ FinishedIsDeleted
=============================================================================
