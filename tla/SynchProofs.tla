---------------------------- MODULE SynchProofs ----------------------------
(***************************************************************************)
(* Proofs about Threads, for any set of threads, and about Synch, for any  *)
(* sets of threads, semaphores, locks and conditions: what their           *)
(* invariants say holds of every reachable state, what Synch uses of the   *)
(* scheduler is something module Threads allows, and its locks and         *)
(* conditions implement the Mesa monitor.                                  *)
(***************************************************************************)
EXTENDS Synch, FiniteSetTheorems, TLAPS

(* Appending a new element to a list without duplicates (List::Append). *)
LEMMA AppendFacts ==
    ASSUME NEW S, NEW s \in Seq(S), NEW x \in S,
           IsInjective(s), x \notin Range(s)
    PROVE  /\ Append(s, x) \in Seq(S)
           /\ IsInjective(Append(s, x))
           /\ Range(Append(s, x)) = Range(s) \cup {x}
  <1>1. Append(s, x) \in Seq(S)
    OBVIOUS
  <1>2. /\ DOMAIN s = 1..Len(s)
        /\ DOMAIN Append(s, x) = 1..(Len(s) + 1)
        /\ Len(s) \in Nat
        /\ \A i \in 1..Len(s) : Append(s, x)[i] = s[i]
        /\ Append(s, x)[Len(s) + 1] = x
    OBVIOUS
  <1>3. IsInjective(Append(s, x))
    BY <1>2 DEF IsInjective, Range
  <1>4. Range(Append(s, x)) = Range(s) \cup {x}
    <2>1. ASSUME NEW y \in Range(Append(s, x)) PROVE y \in Range(s) \cup {x}
      BY <1>2, <2>1 DEF Range
    <2>2. ASSUME NEW y \in Range(s) \cup {x} PROVE y \in Range(Append(s, x))
      BY <1>2, <2>2 DEF Range
    <2> QED  BY <2>1, <2>2
  <1> QED  BY <1>1, <1>3, <1>4

(* Removing the front of a list without duplicates (List::RemoveFront). *)
LEMMA TailFacts ==
    ASSUME NEW S, NEW s \in Seq(S), s # << >>, IsInjective(s)
    PROVE  /\ Head(s) \in S
           /\ Head(s) \in Range(s)
           /\ Tail(s) \in Seq(S)
           /\ IsInjective(Tail(s))
           /\ Range(Tail(s)) = Range(s) \ {Head(s)}
  <1>1. Head(s) \in S /\ Tail(s) \in Seq(S)
    OBVIOUS
  <1>2. /\ DOMAIN s = 1..Len(s)
        /\ Len(s) \in Nat \ {0}
        /\ DOMAIN Tail(s) = 1..(Len(s) - 1)
        /\ \A i \in 1..(Len(s) - 1) : Tail(s)[i] = s[i + 1]
        /\ Head(s) = s[1]
    OBVIOUS
  <1>3. Head(s) \in Range(s)
    BY <1>2 DEF Range
  <1>4. IsInjective(Tail(s))
    <2> SUFFICES ASSUME NEW a \in 1..(Len(s) - 1), NEW b \in 1..(Len(s) - 1),
                        Tail(s)[a] = Tail(s)[b]
                 PROVE  a = b
      BY <1>2 DEF IsInjective
    <2>1. a + 1 \in 1..Len(s) /\ b + 1 \in 1..Len(s) /\ s[a + 1] = s[b + 1]
      BY <1>2
    <2>2. a + 1 = b + 1
      BY <1>2, <2>1 DEF IsInjective
    <2> QED  BY <1>2, <2>2
  <1>5. Range(Tail(s)) = Range(s) \ {Head(s)}
    <2>1. ASSUME NEW y \in Range(Tail(s)) PROVE y \in Range(s) \ {Head(s)}
      <3>1. PICK i \in 1..(Len(s) - 1) : y = s[i + 1]
        BY <1>2, <2>1 DEF Range
      <3>2. i + 1 \in 1..Len(s) /\ 1 \in 1..Len(s) /\ i + 1 # 1
        BY <1>2
      <3> QED  BY <1>2, <3>1, <3>2 DEF Range, IsInjective
    <2>2. ASSUME NEW y \in Range(s) \ {Head(s)} PROVE y \in Range(Tail(s))
      <3>1. PICK i \in 1..Len(s) : y = s[i]
        BY <1>2, <2>2 DEF Range
      <3>2. i # 1 /\ i - 1 \in 1..(Len(s) - 1) /\ (i - 1) + 1 = i
        BY <1>2, <2>2, <3>1
      <3> QED  BY <1>2, <3>1, <3>2 DEF Range
    <2> QED  BY <2>1, <2>2
  <1> QED  BY <1>1, <1>3, <1>4, <1>5

-----------------------------------------------------------------------------
(* The inductive invariant: the safety invariants, which need each other,  *)
(* and ControlOK, which ties the control point to level, machine status    *)
(* and register ownership.                                                 *)
IInv ==
    /\ TypeOK
    /\ ReadyListExact
    /\ OneRunning
    /\ CarcassSafe
    /\ ModeMatchesThread
    /\ UserStateSaved
    /\ YieldNotStale
    /\ ControlOK

USE ThreadAssumption

LEMMA InitIInv == Init => IInv
  <1> SUFFICES ASSUME Init PROVE IInv
    OBVIOUS
  <1> USE DEF Init
  <1>1. TypeOK
    <2>1. status \in [Thread -> Status] /\ cont \in [Thread -> Cont]
      BY DEF Status, Cont
    <2>2. /\ oldStatus \in [Thread -> Mode \cup {"none"}]
          /\ userRegs \in [Thread -> Thread \cup {NULL}]
      OBVIOUS
    <2>3. yieldOnReturn \in BOOLEAN /\ finishing \in BOOLEAN
      OBVIOUS
    <2>4. readyList \in Seq(Thread)
      OBVIOUS
    <2> QED  BY <2>1, <2>2, <2>3, <2>4 DEF TypeOK, Level, Mode, Cpu
  <1>2. ReadyListExact
    BY DEF ReadyListExact, Range, IsInjective
  <1>3. OneRunning /\ CarcassSafe /\ ModeMatchesThread
    BY DEF OneRunning, CarcassSafe, ModeMatchesThread, Range
  <1>4. UserStateSaved /\ YieldNotStale /\ ControlOK
    BY DEF UserStateSaved, YieldNotStale, ControlOK
  <1> QED  BY <1>1, <1>2, <1>3, <1>4 DEF IInv

(* Steps that change neither the ready list nor any thread's status. *)
LEMMA QuietSteps ==
    ASSUME IInv,
           \/ DisableInterrupts \/ EnableInterrupts \/ CriticalSection
           \/ Execute
           \/ UserInstruction \/ RaiseException \/ ExceptionReturn \/ Halt
           \/ TimerInterrupt \/ TickReturn \/ Idle \/ IdleReturn
    PROVE  IInv'
  <1> USE DEF IInv, InKernel, InHandler, SetLevel, intVars, userVars
  <1>1. /\ UNCHANGED << currentThread, status, readyList, toBeDestroyed,
                        finishing, cont, userRegs >>
    BY DEF DisableInterrupts, EnableInterrupts, CriticalSection, Execute, UserInstruction,
           RaiseException, ExceptionReturn, Halt, TimerInterrupt,
           TickReturn, StatusAfterTick, Idle, IdleReturn
  <1>2. ReadyListExact'
    BY <1>1 DEF ReadyListExact
  <1> USE DEF TypeOK, OneRunning, CarcassSafe, ModeMatchesThread,
              UserStateSaved, YieldNotStale, ControlOK,
              Status, Level, Mode, Cpu, Cont
  <1>3. CASE DisableInterrupts
    BY <1>2, <1>3 DEF DisableInterrupts
  <1>4. CASE EnableInterrupts
    BY <1>2, <1>4 DEF EnableInterrupts
  <1>14. CASE CriticalSection
    BY <1>2, <1>14 DEF CriticalSection
  <1>5. CASE Execute
    BY <1>2, <1>5 DEF Execute
  <1>6. CASE UserInstruction
    BY <1>2, <1>6 DEF UserInstruction
  <1>7. CASE RaiseException
    BY <1>2, <1>7 DEF RaiseException
  <1>8. CASE ExceptionReturn
    BY <1>2, <1>8 DEF ExceptionReturn
  <1>9. CASE Halt
    BY <1>2, <1>9 DEF Halt
  <1>10. CASE TimerInterrupt
    BY <1>2, <1>10 DEF TimerInterrupt
  <1>11. CASE TickReturn
    BY <1>2, <1>11 DEF TickReturn, StatusAfterTick
  <1>12. CASE Idle
    BY <1>2, <1>12 DEF Idle
  <1>13. CASE IdleReturn
    BY <1>2, <1>13 DEF IdleReturn
  <1> QED
    BY <1>3, <1>4, <1>5, <1>6, <1>7, <1>8, <1>9, <1>10, <1>11, <1>12, <1>13,
       <1>14

(* Steps that put one thread on the ready list. *)
LEMMA WakingSteps ==
    ASSUME IInv, NEW t \in Thread, Fork(t) \/ WakeUp(t) \/ DeviceInterrupt(t)
    PROVE  IInv'
  <1> USE DEF IInv, InKernel, InHandler, SetLevel, intVars, userVars, ReadyToRun
  <1>1. status[t] \in {"JUST_CREATED", "BLOCKED"}
    BY DEF Fork, WakeUp, ThreadWakes, DeviceInterrupt, HandlerWakes, Wakeable
  <1>2. /\ status' = [status EXCEPT ![t] = "READY"]
        /\ readyList' = Append(readyList, t)
    BY DEF Fork, WakeUp, ThreadWakes, DeviceInterrupt, HandlerWakes
  <1>3. t \notin Range(readyList)
    BY <1>1 DEF ReadyListExact
  <1>4. /\ readyList' \in Seq(Thread)
        /\ IsInjective(readyList')
        /\ Range(readyList') = Range(readyList) \cup {t}
    BY <1>2, <1>3, AppendFacts DEF TypeOK, ReadyListExact
  <1>5. ReadyListExact'
    BY <1>2, <1>4 DEF ReadyListExact, TypeOK, Status
  <1>6. t # toBeDestroyed
    BY DEF CarcassSafe, Fork, WakeUp, ThreadWakes, DeviceInterrupt, HandlerWakes, TypeOK
  <1>7. CarcassSafe'
    BY <1>1, <1>2, <1>4, <1>6
       DEF CarcassSafe, TypeOK, Status, Fork, WakeUp, ThreadWakes,
           DeviceInterrupt, HandlerWakes
  <1> USE DEF TypeOK, OneRunning, ModeMatchesThread, UserStateSaved,
              YieldNotStale, ControlOK, Status, Level, Mode, Cpu, Cont
  <1>8. CASE Fork(t)
    BY <1>1, <1>2, <1>4, <1>5, <1>7, <1>8 DEF Fork
  <1>9. CASE WakeUp(t)
    BY <1>1, <1>2, <1>4, <1>5, <1>7, <1>9 DEF WakeUp, ThreadWakes, Wakeable
  <1>10. CASE DeviceInterrupt(t)
    BY <1>1, <1>2, <1>4, <1>5, <1>7, <1>10 DEF DeviceInterrupt, HandlerWakes, Wakeable
  <1> QED  BY <1>8, <1>9, <1>10

(* Thread::Yield, called by the thread or by OneTick. *)
LEMMA YieldSteps ==
    ASSUME IInv, Yield \/ TickYield
    PROVE  IInv'
  <1> USE DEF IInv, InKernel, SetLevel, SwitchTo, intVars, userVars
  <1>1. /\ cpu \in {"code", "tick"}
        /\ mode' = "SystemMode"
        /\ UNCHANGED << toBeDestroyed, finishing, space, regs >>
    BY DEF Yield, TickYield
  <1>2. status[currentThread] = "RUNNING"
    BY <1>1 DEF OneRunning, TypeOK
  <1>3. CASE readyList = << >>
    <2>1. UNCHANGED << currentThread, status, readyList, cont, userRegs >>
      BY <1>3 DEF Yield, TickYield, YieldFrom
    <2>2. ReadyListExact'
      BY <2>1 DEF ReadyListExact
    <2>3. TypeOK'
      <3>1. CASE Yield
        BY <1>1, <1>3, <2>1, <3>1 DEF Yield, YieldFrom, TypeOK, Level, Mode, Cpu
      <3>2. CASE TickYield
        BY <1>1, <1>3, <2>1, <3>2
           DEF TickYield, YieldFrom, TypeOK, Level, Mode, Cpu
      <3> QED  BY <3>1, <3>2
    <2>4. OneRunning' /\ CarcassSafe' /\ YieldNotStale'
      BY <1>1, <1>3, <2>1
         DEF Yield, TickYield, YieldFrom, OneRunning, CarcassSafe,
             YieldNotStale
    <2>5. ModeMatchesThread' /\ UserStateSaved'
      BY <1>1, <1>3, <2>1
         DEF Yield, TickYield, YieldFrom, ModeMatchesThread, UserStateSaved
    <2>6. ControlOK'
      BY <1>1, <1>3, <2>1
         DEF Yield, TickYield, YieldFrom, ControlOK, TypeOK, Mode, Level
    <2> QED  BY <2>2, <2>3, <2>4, <2>5, <2>6
  <1>4. CASE readyList # << >>
    <2> DEFINE next == Head(readyList)
    <2>1. /\ next \in Thread /\ next \in Range(readyList)
          /\ Tail(readyList) \in Seq(Thread)
          /\ IsInjective(Tail(readyList))
          /\ Range(Tail(readyList)) = Range(readyList) \ {next}
      BY <1>4, TailFacts DEF TypeOK, ReadyListExact
    <2>2. status[next] = "READY" /\ next # currentThread
      BY <1>2, <2>1 DEF ReadyListExact
    <2>3. currentThread \notin Range(readyList)
      BY <1>2 DEF ReadyListExact
    <2>4. /\ readyList' = Append(Tail(readyList), currentThread)
          /\ status' = [status EXCEPT ![currentThread] = "READY",
                                      ![next] = "RUNNING"]
          /\ currentThread' = next
          /\ level' = "IntOff" /\ cpu' = "resume"
          /\ userRegs' = [userRegs EXCEPT ![currentThread] =
                              IF currentThread \in space THEN regs ELSE @]
      BY <1>4 DEF Yield, TickYield, YieldFrom
    <2>5. /\ cont' \in [Thread -> Cont]
          /\ cont'[currentThread] # "Begin"
          /\ \A t \in Thread \ {currentThread} : cont'[t] = cont[t]
      <3>1. PICK c \in Cont \ {"Begin"} : cont' = [cont EXCEPT ![currentThread] = c]
        BY <1>4 DEF Yield, TickYield, YieldFrom, Cont
      <3> QED  BY <3>1 DEF TypeOK
    <2>6. /\ readyList' \in Seq(Thread)
          /\ IsInjective(readyList')
          /\ Range(readyList') = (Range(readyList) \ {next}) \cup {currentThread}
      <3>1. PICK rest \in Seq(Thread) : rest = Tail(readyList)
        BY <2>1
      <3>2. IsInjective(rest) /\ Range(rest) = Range(readyList) \ {next}
            /\ currentThread \notin Range(rest)
        BY <2>1, <2>3, <3>1
      <3>3. currentThread \in Thread /\ readyList' = Append(rest, currentThread)
        BY <2>4, <3>1 DEF TypeOK
      <3> QED  BY <3>2, <3>3, AppendFacts
    <2>7. ReadyListExact'
      BY <1>2, <2>1, <2>2, <2>4, <2>6 DEF ReadyListExact, TypeOK, Status
    <2>8. /\ yieldOnReturn' = FALSE
          /\ oldStatus' \in [Thread -> Mode \cup {"none"}]
          /\ \A t \in Thread : /\ oldStatus'[t] # "IdleMode"
                               /\ oldStatus'[t] = "UserMode" => t \in space
      BY <1>1 DEF Yield, TickYield, TypeOK, ControlOK, Mode, YieldNotStale
    <2>9. toBeDestroyed = NULL
      BY <1>1 DEF CarcassSafe
    <2>10. TypeOK'
      BY <1>1, <2>1, <2>4, <2>5, <2>6, <2>8
         DEF TypeOK, Status, Level, Mode, Cpu
    <2>11. OneRunning' /\ CarcassSafe' /\ YieldNotStale'
      BY <1>1, <1>2, <2>1, <2>2, <2>4, <2>8, <2>9
         DEF OneRunning, CarcassSafe, YieldNotStale, TypeOK, Status
    <2>12. regs = currentThread \/ currentThread \notin space
      BY <1>1 DEF ControlOK
    <2>13. UserStateSaved' /\ ModeMatchesThread'
      BY <1>1, <1>2, <2>1, <2>2, <2>4, <2>12
         DEF UserStateSaved, ModeMatchesThread, TypeOK, Status
    <2>14. ControlOK'
      BY <1>1, <1>2, <2>1, <2>2, <2>4, <2>5, <2>8, <2>12
         DEF UserStateSaved, ControlOK, TypeOK, Status, Cont
    <2> QED  BY <2>7, <2>10, <2>11, <2>13, <2>14
  <1> QED  BY <1>3, <1>4

(* Thread::Sleep up to its loop. *)
LEMMA SleepSteps ==
    ASSUME IInv, Sleep \/ Finish
    PROVE  IInv'
  <1> USE DEF IInv, InKernel, intVars, userVars
  <1>1. PICK f \in BOOLEAN : StartSleep(f)
    BY DEF Sleep, Finish
  <1>2. status[currentThread] = "RUNNING"
    BY <1>1 DEF OneRunning, TypeOK, StartSleep
  <1>3. ReadyListExact'
    BY <1>1, <1>2 DEF ReadyListExact, TypeOK, Status, StartSleep
  <1>4. TypeOK' /\ OneRunning' /\ YieldNotStale'
    BY <1>1, <1>2 DEF TypeOK, OneRunning, YieldNotStale, Status, Level, Cpu,
                      StartSleep
  <1>5. CarcassSafe' /\ ModeMatchesThread'
    BY <1>1, <1>2 DEF CarcassSafe, ModeMatchesThread, TypeOK, StartSleep
  <1>6. UserStateSaved' /\ ControlOK'
    BY <1>1, <1>2 DEF UserStateSaved, ControlOK, TypeOK, Status, StartSleep
  <1> QED  BY <1>3, <1>4, <1>5, <1>6

(* Scheduler::Run called from Thread::Sleep. *)
LEMMA DispatchStep ==
    ASSUME IInv, Dispatch
    PROVE  IInv'
  <1> USE DEF IInv, SwitchTo, intVars, Dispatch
  <1> DEFINE next == Head(readyList)
  <1>1. /\ next \in Thread /\ next \in Range(readyList)
        /\ Tail(readyList) \in Seq(Thread)
        /\ IsInjective(Tail(readyList))
        /\ Range(Tail(readyList)) = Range(readyList) \ {next}
    BY TailFacts DEF TypeOK, ReadyListExact
  <1>2. status[next] = "READY"
    BY <1>1 DEF ReadyListExact
  <1>3. ReadyListExact'
    BY <1>1, <1>2 DEF ReadyListExact, TypeOK, Status
  <1>4. TypeOK' /\ OneRunning' /\ YieldNotStale'
    BY <1>1, <1>2 DEF TypeOK, OneRunning, YieldNotStale, Status, Level, Cpu,
                      Cont
  <1>5. finishing => status[currentThread] = "BLOCKED" /\ currentThread # next
    BY <1>2 DEF ControlOK
  <1>6. toBeDestroyed = NULL
    BY DEF CarcassSafe
  <1>7. finishing => currentThread \notin Range(readyList')
    BY <1>1, <1>5 DEF ReadyListExact
  <1>8. CarcassSafe'
    BY <1>1, <1>2, <1>5, <1>6, <1>7 DEF CarcassSafe, TypeOK, Status
  <1>9. regs = currentThread \/ currentThread \notin space
    BY DEF ControlOK
  <1>10. UserStateSaved' /\ ModeMatchesThread'
    BY <1>1, <1>2, <1>9
       DEF UserStateSaved, ModeMatchesThread, ControlOK, TypeOK, Status
  <1>11. ControlOK'
    BY <1>1, <1>2, <1>9 DEF UserStateSaved, ControlOK, TypeOK, Status, Cont
  <1> QED  BY <1>3, <1>4, <1>8, <1>10, <1>11

(* The new thread's first steps after SWITCH. *)
LEMMA ResumeSteps ==
    ASSUME IInv, Begin \/ ReturnFromRun
    PROVE  IInv'
  <1> USE DEF IInv, SetLevel, CheckToBeDestroyed, intVars, userVars
  <1>1. /\ cpu = "resume" /\ level' = "IntOff"
        /\ cpu' \in {"code", "tick"}
        /\ UNCHANGED << currentThread, readyList, mode, finishing, cont,
                        space, userRegs, yieldOnReturn, oldStatus >>
        /\ status' = [t \in Thread |-> IF t = toBeDestroyed THEN "DELETED"
                                                            ELSE status[t]]
        /\ toBeDestroyed' = NULL
    BY DEF Begin, ReturnFromRun
  <1>2. status[currentThread] = "RUNNING" /\ toBeDestroyed # currentThread
    BY <1>1 DEF OneRunning, CarcassSafe, TypeOK
  <1>3. \A t \in Range(readyList) : t # toBeDestroyed
    BY DEF CarcassSafe, ReadyListExact
  <1>4. ReadyListExact'
    BY <1>1, <1>3 DEF ReadyListExact, TypeOK
  <1>5. regs' = currentThread \/ currentThread \notin space
    BY <1>1 DEF Begin, ReturnFromRun, ControlOK, TypeOK
  <1>6. regs' \in Thread \cup {NULL}
    BY <1>1 DEF Begin, ReturnFromRun, TypeOK
  <1>7. TypeOK'
    BY <1>1, <1>6 DEF TypeOK, Status, Level, Cpu
  <1>8. OneRunning' /\ CarcassSafe' /\ YieldNotStale' /\ ModeMatchesThread'
    BY <1>1, <1>2, <1>3
       DEF OneRunning, CarcassSafe, YieldNotStale, ModeMatchesThread, TypeOK
  <1>9. UserStateSaved'
    BY <1>1, <1>2 DEF UserStateSaved, TypeOK
  <1>10. ControlOK'
    BY <1>1, <1>2, <1>5 DEF ControlOK, TypeOK
  <1> QED  BY <1>4, <1>7, <1>8, <1>9, <1>10

(* Every step of the kernel preserves the inductive invariant. *)
LEMMA NextIInv == IInv /\ [Next]_vars => IInv'
  <1> SUFFICES ASSUME IInv, [Next]_vars PROVE IInv'
    OBVIOUS
  <1>1. CASE UNCHANGED vars
    BY <1>1 DEF vars, IInv, TypeOK, ReadyListExact, OneRunning, CarcassSafe,
                ModeMatchesThread, UserStateSaved, YieldNotStale, ControlOK
  <1>2. CASE CodeStep
    BY <1>2, QuietSteps, WakingSteps, YieldSteps, SleepSteps DEF CodeStep
  <1>3. CASE Halt
    BY <1>3, QuietSteps
  <1>4. CASE Interrupts
    BY <1>4, QuietSteps, WakingSteps, YieldSteps DEF Interrupts
  <1>5. CASE Scheduling
    BY <1>5, QuietSteps, DispatchStep, ResumeSteps DEF Scheduling
  <1> QED  BY <1>1, <1>2, <1>3, <1>4, <1>5 DEF Next, Halted

LEMMA Invariance == Spec => []IInv
  BY InitIInv, NextIInv, PTL DEF Spec

-----------------------------------------------------------------------------
(* The variables keep their types whatever the threads do. *)
THEOREM TypeCorrect == Spec => []TypeOK
  <1>1. IInv => TypeOK
    BY DEF IInv
  <1> QED  BY <1>1, Invariance, PTL

(* Scheduler::readyList holds exactly the READY threads, each once, the    *)
(* only RUNNING thread is kernel->currentThread, and the flag set by the   *)
(* timer handler is consumed by the OneTick it hit.                        *)
THEOREM SchedulingSafe == Spec => []SchedulerSafe
  <1>1. IInv => SchedulerSafe
    BY DEF IInv, SchedulerSafe
  <1> QED  BY <1>1, Invariance, PTL

(* The assertions around toBeDestroyed in Scheduler::Run and ~Thread never *)
(* fail, and no carcass is scheduled.                                      *)
THEOREM CarcassesSafe == Spec => []CarcassSafe
  <1>1. IInv => CarcassSafe
    BY DEF IInv
  <1> QED  BY <1>1, Invariance, PTL

(* Time slicing in the middle of a user program is invisible to it: user   *)
(* mode and the user registers belong to the thread that has the CPU, and  *)
(* a thread without the CPU has them saved.                                *)
THEOREM UserStateSafe == Spec => []UserStateIsolated
  <1>1. IInv => UserStateIsolated
    BY DEF IInv, UserStateIsolated
  <1> QED  BY <1>1, Invariance, PTL

(* No step of the kernel revives a deleted thread. *)
THEOREM DeletedStaysDeleted == Spec => DeletedForever
  <1> DEFINE A == \A t \in Thread : status[t] = "DELETED" => status'[t] = "DELETED"
  <1>1. ASSUME IInv, [Next]_vars PROVE [A]_vars
    <2> SUFFICES ASSUME Next, NEW t \in Thread, status[t] = "DELETED"
                 PROVE  status'[t] = "DELETED"
      BY <1>1
    <2> USE <1>1 DEF IInv, ReadyToRun
    <2>1. readyList # << >> => status[Head(readyList)] = "READY"
                               /\ Head(readyList) \in Thread
      BY TailFacts DEF TypeOK, ReadyListExact
    <2>2. cpu \in {"code", "tick"} => status[currentThread] = "RUNNING"
      BY DEF OneRunning, TypeOK
    <2>3. CASE CodeStep
      BY <2>1, <2>2, <2>3
         DEF CodeStep, DisableInterrupts, EnableInterrupts, CriticalSection, Yield, YieldFrom,
             Sleep, Finish, StartSleep, Execute, UserInstruction,
             RaiseException, ExceptionReturn, Fork, WakeUp, ThreadWakes, Wakeable,
             InKernel, TypeOK
    <2>4. CASE Interrupts
      BY <2>1, <2>2, <2>4
         DEF Interrupts, TimerInterrupt, TickReturn, TickYield, YieldFrom,
             DeviceInterrupt, HandlerWakes, Wakeable, TypeOK
    <2>5. CASE Scheduling
      BY <2>1, <2>5
         DEF Scheduling, Dispatch, Idle, IdleReturn, Begin, ReturnFromRun,
             CheckToBeDestroyed, TypeOK
    <2>6. CASE Halt \/ Halted
      BY <2>6 DEF Halt, Halted, vars
    <2> QED  BY <2>3, <2>4, <2>5, <2>6 DEF Next
  <1> QED  BY <1>1, Invariance, PTL DEF Spec, DeletedForever

-----------------------------------------------------------------------------
(* Semaphores, locks and conditions. *)

(* What a thread inside synch.cc works on. *)
ArgOK ==
    \A t \in Thread :
        /\ pc[t] = "P" => arg[t] \in Semaphore
        /\ pc[t] \in {"A", "AH", "W", "WA", "WH"} => arg[t] \in Lock
        /\ pc[t] = "B" => arg[t] \in Condition

(* A thread that is in Finish, or waits to be deleted, is in no P: nobody  *)
(* wakes it and its deletion leaves no dangling pointer in a queue.        *)
FinishedOutside ==
    /\ finishing => pc[currentThread] = "none"
    /\ toBeDestroyed # NULL => pc[toBeDestroyed] = "none"

(* A thread waits for one condition at a time, once, and with its lock. *)
WaitQueuesExact ==
    /\ \A c \in Condition :
         /\ IsInjective(waitQueue[c])
         /\ \A t \in Range(waitQueue[c]) : pc[t] = "W" /\ arg[t] = CondLock[c]
    /\ \A c, d \in Condition :
         c # d => Range(waitQueue[c]) \cap Range(waitQueue[d]) = {}

(* The inductive invariant: the invariants of Synch, which need each       *)
(* other, the three parts above, and the invariant of the scheduler, which *)
(* says that the thread that executes is in no queue.                      *)
SyncInv ==
    /\ ArgOK
    /\ FinishedOutside
    /\ QueueExact
    /\ NoLostWakeup
    /\ LockExclusion
    /\ BroadcastHoldsLock
    /\ WaitQueuesExact
    /\ WaitersOK

SInv == IInv /\ SynchTypeOK /\ SyncInv

USE ThreadAssumption, SynchAssumption

-----------------------------------------------------------------------------
(* The scheduler step inside each step of synch.cc.                        *)

(* The first sleeper of a semaphore is a thread ReadyToRun is meant for. *)
SleepersWakeable ==
    \A s \in Sem : queue[s] # << >> => Wakeable(Head(queue[s]))

LEMMA QueuedAreWakeable ==
    ASSUME SynchTypeOK, QueueExact, FinishedOutside
    PROVE  SleepersWakeable
  <1> SUFFICES ASSUME NEW s \in Sem, queue[s] # << >>
               PROVE  Wakeable(Head(queue[s]))
    BY DEF SleepersWakeable
  <1>1. Head(queue[s]) \in Range(queue[s])
    BY TailFacts DEF QueueExact, SynchTypeOK
  <1>2. status[Head(queue[s])] = "BLOCKED" /\ InP(Head(queue[s]))
    BY <1>1 DEF QueueExact
  <1> QED  BY <1>2 DEF Wakeable, FinishedOutside, InP

(* V by a thread or by a handler makes the first in the queue READY, and   *)
(* if that is a sleeper it is a step of the scheduler.                     *)
VEffect(s) ==
    /\ value' = [value EXCEPT ![s] = @ + 1]
    /\ queue' = [queue EXCEPT ![s] = IF @ = << >> THEN @ ELSE Tail(@)]
    /\ status' = IF queue[s] = << >> THEN status
                 ELSE [status EXCEPT ![Head(queue[s])] = "READY"]
    /\ UNCHANGED << currentThread, toBeDestroyed, finishing >>

LEMMA ThreadVFacts ==
    ASSUME SynchTypeOK, NEW s \in Sem, ThreadV(s)
    PROVE  VEffect(s) /\ cpu = "code" /\ (SleepersWakeable => Next)
  <1>1. CASE queue[s] = << >>
    BY <1>1 DEF ThreadV, DoV, VEffect, CriticalSection, InKernel, Next, CodeStep
  <1>2. CASE queue[s] # << >>
    <2>1. Head(queue[s]) \in Thread
      BY <1>2 DEF SynchTypeOK
    <2>2. ThreadWakes(Head(queue[s]))
      BY <1>2 DEF ThreadV, DoV
    <2>3. VEffect(s) /\ cpu = "code"
      BY <1>2, <2>1, <2>2
         DEF ThreadV, DoV, VEffect, ThreadWakes, ReadyToRun, InKernel
    <2>4. SleepersWakeable => WakeUp(Head(queue[s]))
      BY <1>2, <2>2 DEF SleepersWakeable, WakeUp
    <2> QED  BY <2>1, <2>3, <2>4 DEF Next, CodeStep
  <1> QED  BY <1>1, <1>2

LEMMA HandlerVFacts ==
    ASSUME SynchTypeOK, NEW s \in Sem, HandlerV(s)
    PROVE  VEffect(s) /\ (SleepersWakeable => [Next]_vars)
  <1>1. CASE queue[s] = << >>
    BY <1>1 DEF HandlerV, DoV, VEffect, vars
  <1>2. CASE queue[s] # << >>
    <2>1. Head(queue[s]) \in Thread
      BY <1>2 DEF SynchTypeOK
    <2>2. HandlerWakes(Head(queue[s]))
      BY <1>2 DEF HandlerV, DoV
    <2>3. VEffect(s)
      BY <1>2, <2>1, <2>2 DEF HandlerV, DoV, VEffect, HandlerWakes, ReadyToRun
    <2>4. SleepersWakeable => DeviceInterrupt(Head(queue[s]))
      BY <1>2, <2>2 DEF SleepersWakeable, DeviceInterrupt
    <2> QED  BY <2>1, <2>3, <2>4 DEF Next, Interrupts
  <1> QED  BY <1>1, <1>2

(* Every step of synch.cc is a step of the scheduler, or leaves it alone. *)
LEMMA SchedulerStep ==
    ASSUME SynchTypeOK, ArgOK, SleepersWakeable, [SynchNext]_allVars
    PROVE  [Next]_vars
  <1>1. CASE UNCHANGED allVars
    BY <1>1 DEF allVars
  <1>2. ASSUME NEW t \in Thread, SemStep(t) PROVE [Next]_vars
    <2>1. CASE \E s \in Semaphore : CallP(t, s)
      BY <2>1 DEF CallP
    <2>2. CASE \E s \in Semaphore : V(t, s)
      BY <2>2, ThreadVFacts DEF V, Sem
    <2>3. CASE PSleep(t)
      BY <2>3 DEF PSleep, Next, CodeStep
    <2>4. CASE PTake(t)
      BY <2>4 DEF PTake, Next, CodeStep
    <2> QED  BY <1>2, <2>1, <2>2, <2>3, <2>4 DEF SemStep
  <1>3. ASSUME NEW t \in Thread, LockStep(t) PROVE [Next]_vars
    <2>1. CASE SetHolder(t)
      BY <2>1 DEF SetHolder
    <2>2. CASE \E l \in Lock : CallAcquire(t, l)
      BY <2>2 DEF CallAcquire
    <2>3. CASE \E l \in Lock : Release(t, l)
      BY <2>3, ThreadVFacts DEF Release, Sem
    <2> QED  BY <1>3, <2>1, <2>2, <2>3 DEF LockStep
  <1>4. ASSUME NEW c \in Condition, DoSignal(c) PROVE Next
    BY <1>4, ThreadVFacts DEF DoSignal, SynchTypeOK, Sem
  <1>5. ASSUME NEW t \in Thread, CondStep(t) PROVE [Next]_vars
    <2>1. CASE \E c \in Condition : Wait(t, c)
      BY <2>1, ThreadVFacts DEF Wait, Sem
    <2>2. CASE \E c \in Condition : Signal(t, c)
      BY <2>2, <1>4 DEF Signal
    <2>3. CASE \E c \in Condition : CallBroadcast(t, c)
      BY <2>3 DEF CallBroadcast
    <2>4. CASE BroadcastSignal(t)
      BY <2>4, <1>4 DEF BroadcastSignal, ArgOK
    <2>5. CASE BroadcastReturn(t)
      BY <2>5 DEF BroadcastReturn
    <2> QED  BY <1>5, <2>1, <2>2, <2>3, <2>4, <2>5 DEF CondStep
  <1>6. ASSUME NEW t \in Thread, OtherCode(t) PROVE [Next]_vars
    BY <1>6 DEF OtherCode, Next, CodeStep
  <1>7. CASE \E s \in DeviceSem : HandlerV(s)
    BY <1>7, HandlerVFacts DEF Sem
  <1>8. CASE KernelStep
    BY <1>8 DEF KernelStep, Next, Interrupts
  <1> QED  BY <1>1, <1>2, <1>3, <1>5, <1>6, <1>7, <1>8 DEF SynchNext

(* The body of V keeps the types of the semaphores. *)
LEMMA VTypes ==
    ASSUME SynchTypeOK, NEW s \in Sem, VEffect(s)
    PROVE  value' \in [Sem -> Nat] /\ queue' \in [Sem -> Seq(Thread)]
  <1>1. \A q \in Seq(Thread) : q # << >> => Tail(q) \in Seq(Thread)
    OBVIOUS
  <1> QED  BY <1>1 DEF VEffect, SynchTypeOK

(* The synchronisation objects keep their types. *)
LEMMA TypeStep ==
    ASSUME SynchTypeOK, ArgOK, IInv, [SynchNext]_allVars
    PROVE  SynchTypeOK'
  <1> USE DEF SynchTypeOK
  <1>1. CASE UNCHANGED synchVars
    BY <1>1 DEF synchVars
  <1>2. ASSUME NEW t \in Thread, SemStep(t) PROVE SynchTypeOK'
    <2>1. ASSUME NEW s \in Semaphore, CallP(t, s) PROVE SynchTypeOK'
      BY <2>1 DEF CallP, Goto, Pc, Sem
    <2>2. ASSUME NEW s \in Semaphore, V(t, s) PROVE SynchTypeOK'
      BY <2>2, ThreadVFacts, VTypes DEF V, Sem
    <2>3. CASE PSleep(t)
      <3>1. PSem(t) \in Sem
        BY <2>3 DEF PSleep, PSem, InP, ArgOK, Sem
      <3> QED  BY <2>3, <3>1 DEF PSleep
    <2>4. CASE PTake(t)
      <3>1. PSem(t) \in Sem /\ AfterP(pc[t]) \in Pc
        BY <2>4 DEF PTake, PSem, InP, ArgOK, Sem, AfterP, Pc
      <3>2. value' \in [Sem -> Nat]
        BY <2>4, <3>1 DEF PTake
      <3> QED  BY <2>4, <3>1, <3>2 DEF PTake
    <2> QED  BY <1>2, <2>1, <2>2, <2>3, <2>4 DEF SemStep
  <1>3. ASSUME NEW t \in Thread, LockStep(t) PROVE SynchTypeOK'
    <2>1. CASE SetHolder(t)
      BY <2>1 DEF SetHolder, Goto, ArgOK, Pc
    <2>2. ASSUME NEW l \in Lock, CallAcquire(t, l) PROVE SynchTypeOK'
      BY <2>2 DEF CallAcquire, Goto, Pc, Sem
    <2>3. ASSUME NEW l \in Lock, Release(t, l) PROVE SynchTypeOK'
      BY <2>3, ThreadVFacts, VTypes DEF Release, Sem
    <2> QED  BY <1>3, <2>1, <2>2, <2>3 DEF LockStep
  <1>4. ASSUME NEW c \in Condition, DoSignal(c), UNCHANGED << lockHolder, pc, arg >>
        PROVE  SynchTypeOK'
    <2>1. Head(waitQueue[c]) \in Sem /\ Tail(waitQueue[c]) \in Seq(Thread)
      BY <1>4 DEF DoSignal, Sem
    <2> QED  BY <1>4, <2>1, ThreadVFacts, VTypes DEF DoSignal
  <1>5. ASSUME NEW t \in Thread, CondStep(t) PROVE SynchTypeOK'
    <2>1. ASSUME NEW c \in Condition, Wait(t, c) PROVE SynchTypeOK'
      <3>1. CondLock[c] \in Sem /\ CondLock[c] \in Lock
        BY DEF Sem
      <3>2. value' \in [Sem -> Nat] /\ queue' \in [Sem -> Seq(Thread)]
        BY <2>1, <3>1, ThreadVFacts, VTypes DEF Wait
      <3>3. Append(waitQueue[c], t) \in Seq(Thread)
        OBVIOUS
      <3> QED  BY <2>1, <3>1, <3>2, <3>3 DEF Wait, Goto, Pc
    <2>2. CASE \E c \in Condition : Signal(t, c)
      BY <2>2, <1>4 DEF Signal
    <2>3. ASSUME NEW c \in Condition, CallBroadcast(t, c) PROVE SynchTypeOK'
      BY <2>3 DEF CallBroadcast, Goto, Pc
    <2>4. CASE BroadcastSignal(t)
      BY <2>4, <1>4 DEF BroadcastSignal, ArgOK
    <2>5. CASE BroadcastReturn(t)
      BY <2>5 DEF BroadcastReturn, Goto, Pc
    <2> QED  BY <1>5, <2>1, <2>2, <2>3, <2>4, <2>5 DEF CondStep
  <1>6. ASSUME NEW s \in DeviceSem, HandlerV(s) PROVE SynchTypeOK'
    BY <1>6, HandlerVFacts, VTypes DEF Sem, HandlerV
  <1> QED
    BY <1>1, <1>2, <1>3, <1>5, <1>6
       DEF SynchNext, allVars, OtherCode, KernelStep

-----------------------------------------------------------------------------
(* The queues of the semaphores.                                           *)

(* The threads that test the value of a semaphore are finitely many. *)
LEMMA TestingFinite ==
    \A s : /\ IsFiniteSet(Testing(s)) /\ IsFiniteSet(Testing(s)')
           /\ Cardinality(Testing(s)) \in Nat /\ Cardinality(Testing(s)') \in Nat
  <1> TAKE s
  <1>1. Testing(s) \in SUBSET Thread /\ Testing(s)' \in SUBSET Thread
    BY DEF Testing
  <1> QED  BY <1>1, FS_Subset, FS_CardinalityType

(* While the current thread runs it is in no queue. *)
LEMMA RunningNotQueued ==
    ASSUME SInv, NEW t \in Thread, status[t] = "RUNNING", NEW s \in Sem
    PROVE  t \notin Range(queue[s])
  BY DEF SInv, SyncInv, QueueExact

(* What a step may do to threads while the semaphores are left alone: only *)
(* a running thread outside P moves, and only threads outside synch.cc     *)
(* fall asleep or die.                                                     *)
Moves ==
    \A u \in Thread :
        \/ pc'[u] = pc[u] /\ arg'[u] = arg[u]
        \/ status[u] = "RUNNING" /\ status'[u] = "RUNNING" /\ ~InP(u)

SleepersKept ==
    \A u \in Thread : pc[u] # "none" =>
        (status'[u] = "BLOCKED" <=> status[u] = "BLOCKED")

LEMMA QuietQueues ==
    ASSUME SInv, UNCHANGED << value, queue >>, Moves, SleepersKept
    PROVE  QueueExact' /\ NoLostWakeup'
  <1> USE DEF SInv, SyncInv
  <1>1. QueueExact'
    <2>1. ASSUME NEW s \in Sem, NEW t \in Range(queue[s])
          PROVE  status'[t] = "BLOCKED" /\ InP(t)' /\ PSem(t)' = s
      <3>1. t \in Thread
        BY <2>1 DEF SynchTypeOK, Range
      <3>2. status[t] = "BLOCKED" /\ InP(t) /\ PSem(t) = s
        BY <2>1 DEF QueueExact
      <3> QED  BY <3>1, <3>2 DEF Moves, SleepersKept, InP, PSem
    <2>2. ASSUME NEW t \in Thread, status'[t] = "BLOCKED", InP(t)'
          PROVE  t \in Range(queue'[PSem(t)'])
      BY <2>2 DEF Moves, SleepersKept, QueueExact, InP, PSem
    <2> QED  BY <2>1, <2>2 DEF QueueExact
  <1>2. ASSUME NEW s \in Sem PROVE Cardinality(Testing(s)) <= Cardinality(Testing(s)')
    <2>1. Testing(s) \in SUBSET (Testing(s)')
      BY DEF Testing, Moves, InP, PSem
    <2> QED  BY <2>1, TestingFinite, FS_Subset
  <1>3. NoLostWakeup'
    <2> SUFFICES ASSUME NEW s \in Sem
                 PROVE  /\ value[s] >= 0
                        /\ queue[s] # << >> => value[s] <= Cardinality(Testing(s)')
      BY DEF NoLostWakeup
    <2>1. value[s] \in Nat
      BY DEF SynchTypeOK
    <2> QED  BY <1>2, <2>1, TestingFinite DEF NoLostWakeup
  <1> QED  BY <1>1, <1>3

(* V takes the first sleeper off the queue and makes it test value again.  *)
LEMMA VQueues ==
    ASSUME SInv, NEW s \in Sem, VEffect(s), Moves
    PROVE  QueueExact' /\ NoLostWakeup'
  <1> USE DEF SInv, SyncInv
  <1> DEFINE h == Head(queue[s])
  <1>1. queue[s] # << >> => /\ h \in Thread /\ h \in Range(queue[s])
                            /\ IsInjective(Tail(queue[s]))
                            /\ Range(Tail(queue[s])) = Range(queue[s]) \ {h}
    BY TailFacts DEF SynchTypeOK, QueueExact
  <1>2. queue[s] # << >> => status[h] = "BLOCKED" /\ InP(h) /\ PSem(h) = s
    BY <1>1 DEF QueueExact
  <1>3. \A x \in Sem \ {s} : queue'[x] = queue[x] /\ value'[x] = value[x]
    BY DEF VEffect, SynchTypeOK
  <1>4. /\ value'[s] = value[s] + 1
        /\ queue'[s] = IF queue[s] = << >> THEN << >> ELSE Tail(queue[s])
    BY DEF VEffect, SynchTypeOK
  <1>5. \A x \in Sem : /\ IsInjective(queue'[x])
                       /\ Range(queue'[x]) \subseteq Range(queue[x])
    BY <1>1, <1>3, <1>4 DEF QueueExact
  <1>6. \A u \in Thread : \/ status'[u] = status[u]
                          \/ queue[s] # << >> /\ u = h /\ status'[u] = "READY"
    BY <1>1 DEF VEffect, IInv, TypeOK
  <1>7. queue[s] # << >> => status'[h] = "READY"
    BY <1>1 DEF VEffect, IInv, TypeOK
  <1>8. QueueExact'
    <2>1. ASSUME NEW x \in Sem, NEW t \in Range(queue'[x])
          PROVE  status'[t] = "BLOCKED" /\ InP(t)' /\ PSem(t)' = x
      <3>1. t \in Range(queue[x])
        BY <1>5, <2>1
      <3>2. t \in Thread
        BY <3>1 DEF SynchTypeOK, Range
      <3>3. status[t] = "BLOCKED" /\ InP(t) /\ PSem(t) = x
        BY <3>1 DEF QueueExact
      <3>4. ~(queue[s] # << >> /\ t = h)
        BY <1>1, <1>2, <1>4, <2>1, <3>3
      <3> QED  BY <1>6, <3>2, <3>3, <3>4 DEF Moves, InP, PSem
    <2>2. ASSUME NEW t \in Thread, status'[t] = "BLOCKED", InP(t)'
          PROVE  t \in Range(queue'[PSem(t)'])
      <3>1. status[t] = "BLOCKED" /\ InP(t) /\ PSem(t)' = PSem(t)
        BY <1>6, <2>2 DEF Moves, InP, PSem
      <3>2. t \in Range(queue[PSem(t)]) /\ PSem(t) \in Sem
        BY <3>1 DEF QueueExact, ArgOK, InP, PSem, Sem
      <3>3. ~(queue[s] # << >> /\ t = h)
        BY <1>7, <2>2
      <3> QED  BY <1>1, <1>3, <1>4, <3>1, <3>2, <3>3
    <2> QED  BY <1>5, <2>1, <2>2 DEF QueueExact
  <1>9. ASSUME NEW x \in Sem PROVE Testing(x) \subseteq Testing(x)'
    BY <1>5 DEF Testing, Moves, InP, PSem
  <1>10. ASSUME queue[s] # << >>
         PROVE  Cardinality(Testing(s)) + 1 <= Cardinality(Testing(s)')
    <2>1. h \in Testing(s)'
      BY <1>1, <1>2, <1>4, <1>10 DEF Testing, Moves, InP, PSem
    <2>2. h \notin Testing(s)
      BY <1>1, <1>10 DEF Testing
    <2>3. Testing(s) \cup {h} \in SUBSET (Testing(s)')
      BY <1>9, <2>1
    <2>4. Cardinality(Testing(s) \cup {h}) = Cardinality(Testing(s)) + 1
      BY <2>2, TestingFinite, FS_AddElement
    <2> QED  BY <2>3, <2>4, TestingFinite, FS_Subset
  <1>11. NoLostWakeup'
    <2> SUFFICES ASSUME NEW x \in Sem
                 PROVE  /\ value'[x] >= 0
                        /\ queue'[x] # << >> => value'[x] <= Cardinality(Testing(x)')
      BY DEF NoLostWakeup
    <2>1. value[x] \in Nat /\ Cardinality(Testing(x)) \in Nat
          /\ Cardinality(Testing(x)') \in Nat
      BY TestingFinite DEF SynchTypeOK
    <2>2. CASE x # s
      <3>1. Cardinality(Testing(x)) <= Cardinality(Testing(x)')
        BY <1>9, TestingFinite, FS_Subset
      <3> QED  BY <1>3, <2>1, <2>2, <3>1 DEF NoLostWakeup
    <2>3. CASE x = s
      BY <1>4, <1>10, <2>1, <2>3 DEF NoLostWakeup
    <2> QED  BY <2>2, <2>3
  <1> QED  BY <1>8, <1>11

(* A thread that finds value = 0 joins the queue as it falls asleep. *)
LEMMA PSleepQueues ==
    ASSUME SInv, NEW t \in Thread, PSleep(t)
    PROVE  QueueExact' /\ NoLostWakeup'
  <1> USE DEF SInv, SyncInv
  <1> DEFINE s == PSem(t)
  <1>1. /\ s \in Sem /\ value[s] = 0 /\ status[t] = "RUNNING" /\ InP(t)
        /\ queue' = [queue EXCEPT ![s] = Append(@, t)]
        /\ status' = [status EXCEPT ![t] = "BLOCKED"]
        /\ UNCHANGED << value, pc, arg >>
    BY DEF PSleep, PSem, InP, ArgOK, Sem, Sleep, StartSleep, InKernel, IInv,
           OneRunning, TypeOK
  <1>2. /\ IsInjective(queue'[s])
        /\ Range(queue'[s]) = Range(queue[s]) \cup {t}
        /\ \A x \in Sem \ {s} : queue'[x] = queue[x]
    BY <1>1, RunningNotQueued, AppendFacts DEF SynchTypeOK, QueueExact
  <1>3. \A u \in Thread \ {t} : status'[u] = status[u]
    BY <1>1 DEF IInv, TypeOK
  <1>4. status'[t] = "BLOCKED"
    BY <1>1 DEF IInv, TypeOK
  <1>5. QueueExact'
    <2>1. ASSUME NEW x \in Sem, NEW u \in Range(queue'[x])
          PROVE  status'[u] = "BLOCKED" /\ InP(u)' /\ PSem(u)' = x
      <3>1. CASE u = t /\ x = s
        BY <1>1, <1>4, <3>1 DEF InP, PSem
      <3>2. CASE ~(u = t /\ x = s)
        <4>1. u \in Range(queue[x])
          BY <1>2, <2>1, <3>2
        <4>2. u \in Thread
          BY <4>1 DEF SynchTypeOK, Range
        <4>3. status[u] = "BLOCKED" /\ InP(u) /\ PSem(u) = x
          BY <4>1 DEF QueueExact
        <4> QED  BY <1>1, <1>3, <4>2, <4>3 DEF InP, PSem
      <3> QED  BY <3>1, <3>2
    <2>2. ASSUME NEW u \in Thread, status'[u] = "BLOCKED", InP(u)'
          PROVE  u \in Range(queue'[PSem(u)'])
      <3>1. PSem(u)' = PSem(u) /\ InP(u) /\ PSem(u) \in Sem
        BY <1>1, <2>2 DEF InP, PSem, ArgOK, Sem
      <3>2. u # t => u \in Range(queue[PSem(u)])
        BY <1>3, <2>2, <3>1 DEF QueueExact
      <3> QED  BY <1>2, <3>1, <3>2
    <2>3. \A x \in Sem : IsInjective(queue'[x])
      BY <1>2 DEF QueueExact
    <2> QED  BY <2>1, <2>2, <2>3 DEF QueueExact
  <1>6. NoLostWakeup'
    <2> SUFFICES ASSUME NEW x \in Sem
                 PROVE  /\ value[x] >= 0
                        /\ queue'[x] # << >> => value[x] <= Cardinality(Testing(x)')
      BY <1>1 DEF NoLostWakeup
    <2>1. value[x] \in Nat /\ Cardinality(Testing(x)') \in Nat
      BY TestingFinite DEF SynchTypeOK
    <2>2. CASE x = s
      BY <1>1, <2>1, <2>2
    <2>3. CASE x # s
      <3>1. Testing(x)' = Testing(x)
        BY <1>1, <1>2, <2>3 DEF Testing, InP, PSem
      <3> QED  BY <1>2, <2>1, <2>3, <3>1 DEF NoLostWakeup
    <2> QED  BY <2>2, <2>3
  <1> QED  BY <1>5, <1>6

(* What a thread that takes a unit of a semaphore changes. *)
LEMMA PTakeFacts ==
    ASSUME SInv, NEW t \in Thread, PTake(t)
    PROVE  /\ PSem(t) \in Sem /\ InP(t) /\ value[PSem(t)] \in Nat \ {0}
           /\ status[t] = "RUNNING"
           /\ value'[PSem(t)] = value[PSem(t)] - 1
           /\ \A x \in Sem \ {PSem(t)} : value'[x] = value[x]
           /\ pc'[t] = AfterP(pc[t])
           /\ \A u \in Thread \ {t} : pc'[u] = pc[u]
           /\ UNCHANGED << queue, lockHolder, waitQueue, arg, status,
                           currentThread, toBeDestroyed, finishing >>
  <1> USE DEF SInv, SyncInv
  <1>1. PSem(t) \in Sem
    BY DEF PTake, PSem, InP, ArgOK, Sem
  <1>2. value[PSem(t)] \in Nat
    BY <1>1 DEF SynchTypeOK
  <1>3. /\ UNCHANGED << status, currentThread, toBeDestroyed, finishing >>
        /\ cpu = "code"
    BY DEF PTake, CriticalSection, EnableInterrupts, InKernel
  <1>4. status[t] = "RUNNING"
    BY <1>3 DEF PTake, IInv, OneRunning, TypeOK
  <1> QED
    BY <1>1, <1>2, <1>3, <1>4 DEF PTake, SynchTypeOK

LEMMA PTakeQueues ==
    ASSUME SInv, NEW t \in Thread, PTake(t)
    PROVE  QueueExact' /\ NoLostWakeup'
  <1> USE DEF SInv, SyncInv
  <1> DEFINE s == PSem(t)
  <1>1. QueueExact'
    <2>1. ASSUME NEW x \in Sem, NEW u \in Range(queue[x])
          PROVE  status'[u] = "BLOCKED" /\ InP(u)' /\ PSem(u)' = x
      <3>1. u \in Thread /\ status[u] = "BLOCKED" /\ InP(u) /\ PSem(u) = x
        BY <2>1 DEF QueueExact, SynchTypeOK, Range
      <3> QED  BY <3>1, PTakeFacts DEF InP, PSem
    <2>2. ASSUME NEW u \in Thread, status'[u] = "BLOCKED", InP(u)'
          PROVE  u \in Range(queue'[PSem(u)'])
      BY <2>2, PTakeFacts DEF QueueExact, InP, PSem
    <2> QED  BY <2>1, <2>2, PTakeFacts DEF QueueExact
  <1>2. t \in Testing(s)
    BY PTakeFacts, RunningNotQueued DEF Testing
  <1>3. ASSUME NEW x \in Sem PROVE Testing(x) \ {t} \subseteq Testing(x)'
    BY PTakeFacts DEF Testing, InP, PSem
  <1>4. ASSUME NEW x \in Sem \ {s} PROVE t \notin Testing(x)
    BY <1>4 DEF Testing
  <1>5. NoLostWakeup'
    <2> SUFFICES ASSUME NEW x \in Sem
                 PROVE  /\ value'[x] >= 0
                        /\ queue[x] # << >> => value'[x] <= Cardinality(Testing(x)')
      BY PTakeFacts DEF NoLostWakeup
    <2>1. /\ value[x] \in Nat /\ Cardinality(Testing(x)) \in Nat
          /\ Cardinality(Testing(x)') \in Nat
      BY TestingFinite DEF SynchTypeOK
    <2>2. Cardinality(Testing(x) \ {t}) <= Cardinality(Testing(x)')
      BY <1>3, TestingFinite, FS_Subset
    <2>3. Cardinality(Testing(x) \ {t}) =
              IF x = s THEN Cardinality(Testing(x)) - 1 ELSE Cardinality(Testing(x))
      BY <1>2, <1>4, TestingFinite, FS_RemoveElement
    <2>4. value'[x] = IF x = s THEN value[x] - 1 ELSE value[x]
      BY PTakeFacts
    <2>5. x = s => value[x] # 0
      BY PTakeFacts
    <2> QED  BY <2>1, <2>2, <2>3, <2>4, <2>5 DEF NoLostWakeup
  <1> QED  BY <1>1, <1>5

-----------------------------------------------------------------------------
(* Locks and conditions.                                                   *)

(* Locks and conditions see of a step only what it does to the semaphores  *)
(* of locks and waiters and where it leaves the threads.                   *)
LockViewKept ==
    /\ \A l \in Lock : value'[l] = value[l]
    /\ UNCHANGED lockHolder
    /\ \A u \in Thread : /\ pc'[u] = pc[u] \/ {pc[u], pc'[u]} \cap {"AH", "WH"} = {}
                         /\ pc[u] \in {"AH", "WH"} => arg'[u] = arg[u]

LEMMA LocksKept ==
    ASSUME SInv, LockViewKept
    PROVE  LockExclusion' /\ \A l \in Lock : Inside(l)' = Inside(l)
  <1>1. \A l \in Lock : Inside(l)' = Inside(l)
    BY DEF LockViewKept, Inside
  <1> QED  BY <1>1 DEF LockViewKept, LockExclusion, SInv, SyncInv

WaiterViewKept ==
    /\ \A t \in Thread : value'[t] = value[t]
    /\ UNCHANGED waitQueue
    /\ \A u \in Thread : /\ pc'[u] = pc[u] \/ {pc[u], pc'[u]} \cap {"W"} = {}
                         /\ pc[u] = "W" => arg'[u] = arg[u]
    /\ \A u \in Thread : pc[u] # "W" => queue'[u] = << >>

LEMMA WaitersKept ==
    ASSUME SInv, WaiterViewKept
    PROVE  WaitersOK' /\ WaitQueuesExact'
  <1> USE DEF SInv, SyncInv, WaiterViewKept
  <1>1. WaitersOK'
    <2> SUFFICES ASSUME NEW t \in Thread
          PROVE  LET waiting == {c \in Condition : t \in Range(waitQueue[c])}
                 IN  IF pc'[t] = "W"
                       THEN \/ value'[t] = 0 /\ waiting # {}
                            \/ value'[t] = 1 /\ waiting = {}
                       ELSE value'[t] = 0 /\ waiting = {} /\ queue'[t] = << >>
      BY DEF WaitersOK
    <2> QED  BY DEF WaitersOK
  <1>2. WaitQueuesExact'
    <2>1. ASSUME NEW c \in Condition, NEW t \in Range(waitQueue[c])
          PROVE  pc'[t] = "W" /\ arg'[t] = CondLock[c]
      <3>1. t \in Thread
        BY <2>1 DEF SynchTypeOK, Range
      <3>2. pc[t] = "W" /\ arg[t] = CondLock[c]
        BY <2>1 DEF WaitQueuesExact
      <3> QED  BY <3>1, <3>2
    <2> QED  BY <2>1 DEF WaitQueuesExact
  <1> QED  BY <1>1, <1>2

(* The queue of a waiter semaphore holds nobody but its thread, in Wait. *)
LEMMA WaiterQueueOwn ==
    ASSUME SynchTypeOK, ArgOK, QueueExact, NEW t \in Thread, pc[t] # "W" \/ status[t] # "BLOCKED"
    PROVE  queue[t] = << >>
  <1>1. ASSUME NEW u \in Range(queue[t]) PROVE FALSE
    <2>1. u \in Thread
      BY <1>1 DEF SynchTypeOK, Range, Sem
    <2>2. status[u] = "BLOCKED" /\ InP(u) /\ PSem(u) = t
      BY <1>1 DEF QueueExact, Sem
    <2> QED  BY <2>1, <2>2 DEF InP, PSem, ArgOK, Sem
  <1>2. queue[t] \in Seq(Thread)
    BY DEF SynchTypeOK, Sem
  <1>3. queue[t] # << >> => Head(queue[t]) \in Range(queue[t])
    BY <1>2 DEF Range
  <1> QED  BY <1>1, <1>3

-----------------------------------------------------------------------------
(* One lemma for each operation.                                           *)

(* A thread that executes code of its own is the one that runs. *)
LEMMA CurrentRuns ==
    ASSUME SInv, cpu = "code"
    PROVE  /\ currentThread \in Thread
           /\ status[currentThread] = "RUNNING"
           /\ ~finishing /\ toBeDestroyed = NULL
  BY DEF SInv, IInv, TypeOK, OneRunning, ControlOK, CarcassSafe

(* The calls that only note where the thread is. *)
LEMMA CallSteps ==
    ASSUME SInv, NEW t \in Thread,
           \/ \E s \in Semaphore : CallP(t, s)
           \/ \E l \in Lock : CallAcquire(t, l)
           \/ \E c \in Condition : CallBroadcast(t, c)
           \/ BroadcastReturn(t)
    PROVE  SyncInv'
  <1> USE DEF SInv, SyncInv
  <1>1. PICK p \in Pc, a \in Sem \cup Condition \cup {NULL} :
          /\ Goto(t, p, a) /\ t = currentThread /\ cpu = "code"
          /\ pc[t] \in {"none", "B"} /\ p \in {"P", "A", "B", "none"}
          /\ p = "P" => a \in Semaphore
          /\ p = "A" => a \in Lock
          /\ p = "B" => a \in Condition /\ lockHolder[CondLock[a]] = t
          /\ UNCHANGED << vars, value, queue, lockHolder, waitQueue >>
    <2>1. ASSUME NEW s \in Semaphore, CallP(t, s)
          PROVE  Calling(t) /\ Goto(t, "P", s)
                 /\ UNCHANGED << vars, value, queue, lockHolder, waitQueue >>
      BY <2>1 DEF CallP
    <2>2. ASSUME NEW l \in Lock, CallAcquire(t, l)
          PROVE  Calling(t) /\ Goto(t, "A", l)
                 /\ UNCHANGED << vars, value, queue, lockHolder, waitQueue >>
      BY <2>2 DEF CallAcquire
    <2>3. ASSUME NEW c \in Condition, CallBroadcast(t, c)
          PROVE  Calling(t) /\ Goto(t, "B", c) /\ lockHolder[CondLock[c]] = t
                 /\ UNCHANGED << vars, value, queue, lockHolder, waitQueue >>
      BY <2>3 DEF CallBroadcast
    <2>4. ASSUME BroadcastReturn(t)
          PROVE  Goto(t, "none", NULL) /\ t = currentThread /\ cpu = "code" /\ pc[t] = "B"
                 /\ UNCHANGED << vars, value, queue, lockHolder, waitQueue >>
      BY <2>4 DEF BroadcastReturn
    <2> QED  BY <2>1, <2>2, <2>3, <2>4 DEF Calling, Pc, Sem
  <1>2. /\ \A u \in Thread \ {t} : pc'[u] = pc[u] /\ arg'[u] = arg[u]
        /\ pc'[t] = p /\ arg'[t] = a
    BY <1>1 DEF Goto, SynchTypeOK
  <1>3. /\ status[t] = "RUNNING" /\ ~finishing /\ toBeDestroyed = NULL
        /\ UNCHANGED << status, finishing, toBeDestroyed, currentThread >>
    BY <1>1, CurrentRuns DEF vars
  <1>4. ArgOK' /\ FinishedOutside'
    BY <1>1, <1>2, <1>3 DEF ArgOK, FinishedOutside
  <1>5. QueueExact' /\ NoLostWakeup'
    BY <1>1, <1>2, <1>3, QuietQueues DEF Moves, SleepersKept, InP
  <1>6. LockExclusion'
    BY <1>1, <1>2, LocksKept DEF LockViewKept
  <1>7. WaitersOK' /\ WaitQueuesExact'
    BY <1>1, <1>2, WaitersKept DEF WaiterViewKept, WaitersOK
  <1>8. BroadcastHoldsLock'
    BY <1>1, <1>2 DEF BroadcastHoldsLock
  <1> QED  BY <1>4, <1>5, <1>6, <1>7, <1>8

(* lockHolder is set by the thread that has taken the lock's semaphore. *)
LEMMA SetHolderStep ==
    ASSUME SInv, NEW t \in Thread, SetHolder(t)
    PROVE  SyncInv' /\ \A l \in Lock : Inside(l)' = Inside(l)
  <1> USE DEF SInv, SyncInv
  <1>1. PICK k \in Lock :
        /\ t = currentThread /\ cpu = "code" /\ pc[t] \in {"AH", "WH"} /\ arg[t] = k
        /\ lockHolder' = [lockHolder EXCEPT ![k] = t]
        /\ Goto(t, "none", NULL)
        /\ UNCHANGED << vars, value, queue, waitQueue >>
    BY DEF SetHolder, ArgOK
  <1>2. /\ \A u \in Thread \ {t} : pc'[u] = pc[u] /\ arg'[u] = arg[u]
        /\ pc'[t] = "none"
    BY <1>1 DEF Goto, SynchTypeOK
  <1>3. /\ status[t] = "RUNNING" /\ ~finishing /\ toBeDestroyed = NULL
        /\ UNCHANGED << status, finishing, toBeDestroyed, currentThread >>
    BY <1>1, CurrentRuns DEF vars
  <1>4. lockHolder'[k] = t /\ \A l \in Lock \ {k} : lockHolder'[l] = lockHolder[l]
    BY <1>1 DEF SynchTypeOK
  <1>5. Inside(k) = {t}
    <2>1. t \in Inside(k)
      BY <1>1 DEF Inside
    <2> QED  BY <1>1, <2>1 DEF LockExclusion
  <1>6. \A l \in Lock : Inside(l)' = Inside(l)
    <2>1. Inside(k)' = {t}
      <3>1. ASSUME NEW u \in Inside(k)' PROVE u = t
        BY <1>2, <1>4, <1>5, <3>1 DEF Inside
      <3>2. t \in Inside(k)'
        BY <1>4 DEF Inside
      <3> QED  BY <3>1, <3>2
    <2>2. ASSUME NEW l \in Lock \ {k} PROVE Inside(l)' = Inside(l)
      BY <1>1, <1>2, <1>4 DEF Inside
    <2> QED  BY <1>5, <2>1, <2>2
  <1>7. LockExclusion'
    BY <1>1, <1>6 DEF LockExclusion
  <1>8. ArgOK' /\ FinishedOutside'
    BY <1>1, <1>2, <1>3 DEF ArgOK, FinishedOutside
  <1>9. QueueExact' /\ NoLostWakeup'
    BY <1>1, <1>2, <1>3, QuietQueues DEF Moves, SleepersKept, InP
  <1>10. WaitersOK' /\ WaitQueuesExact'
    BY <1>1, <1>2, WaitersKept DEF WaiterViewKept, WaitersOK
  <1>11. BroadcastHoldsLock'
    <2> SUFFICES ASSUME NEW u \in Thread, pc'[u] = "B"
                 PROVE  lockHolder'[CondLock[arg'[u]]] = u
      BY DEF BroadcastHoldsLock
    <2>1. u # t /\ pc[u] = "B" /\ arg'[u] = arg[u] /\ CondLock[arg[u]] \in Lock
      BY <1>2 DEF ArgOK
    <2>2. lockHolder[CondLock[arg[u]]] = u /\ u \in Inside(CondLock[arg[u]])
      BY <2>1 DEF BroadcastHoldsLock, Inside
    <2> QED  BY <1>4, <1>5, <2>1, <2>2
  <1> QED  BY <1>6, <1>7, <1>8, <1>9, <1>10, <1>11

(* P that has to wait. *)
LEMMA PSleepStep ==
    ASSUME SInv, NEW t \in Thread, PSleep(t)
    PROVE  SyncInv'
  <1> USE DEF SInv, SyncInv
  <1>1. /\ t = currentThread /\ cpu = "code" /\ InP(t) /\ PSem(t) \in Sem
        /\ queue' = [queue EXCEPT ![PSem(t)] = Append(@, t)]
        /\ UNCHANGED << value, lockHolder, waitQueue, pc, arg >>
        /\ UNCHANGED << currentThread, toBeDestroyed >> /\ finishing' = FALSE
    BY DEF PSleep, Sleep, StartSleep, InKernel, PSem, InP, ArgOK, Sem
  <1>2. ArgOK' /\ BroadcastHoldsLock'
    BY <1>1 DEF ArgOK, BroadcastHoldsLock
  <1>3. FinishedOutside'
    BY <1>1 DEF FinishedOutside
  <1>4. QueueExact' /\ NoLostWakeup'
    BY PSleepQueues
  <1>5. LockExclusion'
    BY <1>1, LocksKept DEF LockViewKept
  <1>6. ASSUME NEW u \in Thread, pc[u] # "W" PROVE queue'[u] = << >>
    <2>1. PSem(t) # u
      BY <1>1, <1>6 DEF PSem, InP, ArgOK, Sem
    <2> QED  BY <1>1, <1>6, <2>1 DEF WaitersOK, SynchTypeOK, Sem
  <1>7. WaitersOK' /\ WaitQueuesExact'
    BY <1>1, <1>6, WaitersKept DEF WaiterViewKept
  <1> QED  BY <1>2, <1>3, <1>4, <1>5, <1>7

(* P that returns: the unit it takes is a lock's, a waiter's or its own. *)
LEMMA PTakeStep ==
    ASSUME SInv, NEW t \in Thread, PTake(t)
    PROVE  SyncInv'
  <1> USE DEF SInv, SyncInv
  <1>1. /\ t = currentThread /\ ~finishing /\ toBeDestroyed = NULL
    BY CurrentRuns DEF PTake, CriticalSection, EnableInterrupts, InKernel
  <1>2. ArgOK'
    BY PTakeFacts DEF ArgOK, InP, AfterP
  <1>3. FinishedOutside'
    BY <1>1, PTakeFacts DEF FinishedOutside
  <1>4. QueueExact' /\ NoLostWakeup'
    BY PTakeQueues
  <1>5. BroadcastHoldsLock'
    BY PTakeFacts DEF BroadcastHoldsLock, InP, AfterP
  <1>6. LockExclusion'
    <2>1. CASE pc[t] \in {"P", "W"}
      <3>1. PSem(t) \notin Lock
        BY <2>1 DEF PSem, ArgOK
      <3> QED  BY <2>1, <3>1, PTakeFacts, LocksKept DEF LockViewKept, AfterP, Sem
    <2>2. CASE pc[t] \in {"A", "WA"}
      <3>1. PICK k \in Lock : k = arg[t] /\ PSem(t) = k
        BY <2>2 DEF ArgOK, PSem
      <3>2. value[k] = 1 /\ Inside(k) = {}
        BY <3>1, PTakeFacts DEF LockExclusion
      <3>3. /\ value'[k] = 0 /\ UNCHANGED << arg, lockHolder >>
            /\ pc'[t] \in {"AH", "WH"}
            /\ \A u \in Thread \ {t} : pc'[u] = pc[u]
            /\ \A l \in Lock \ {k} : value'[l] = value[l]
        BY <2>2, <3>1, <3>2, PTakeFacts DEF AfterP, Sem
      <3>4. Inside(k)' = {t}
        BY <3>1, <3>2, <3>3 DEF Inside
      <3>5. \A l \in Lock \ {k} : Inside(l)' = Inside(l)
        BY <2>2, <3>1, <3>3 DEF Inside
      <3> QED  BY <3>3, <3>4, <3>5 DEF LockExclusion
    <2> QED  BY <2>1, <2>2, PTakeFacts DEF InP
  <1>7. WaitersOK' /\ WaitQueuesExact'
    <2>1. CASE pc[t] # "W"
      <3>1. PSem(t) \notin Thread
        BY <2>1, PTakeFacts DEF PSem, ArgOK, InP
      <3> QED
        BY <2>1, <3>1, PTakeFacts, WaitersKept
           DEF WaiterViewKept, WaitersOK, AfterP, InP, Sem
    <2>2. CASE pc[t] = "W"
      <3>1. PSem(t) = t /\ value[t] = 1 /\ \A c \in Condition : t \notin Range(waitQueue[c])
        BY <2>2, PTakeFacts DEF PSem, WaitersOK
      <3>2. /\ value'[t] = 0 /\ pc'[t] = "WA"
            /\ \A u \in Thread \ {t} : pc'[u] = pc[u] /\ value'[u] = value[u]
            /\ UNCHANGED << queue, waitQueue, arg >>
        BY <2>2, <3>1, PTakeFacts DEF AfterP, Sem
      <3>3. queue[t] = << >>
        BY PTakeFacts, WaiterQueueOwn
      <3>4. WaitersOK'
        <4>1. ASSUME NEW u \in Thread
              PROVE  LET waiting == {c \in Condition : u \in Range(waitQueue[c])}
                     IN  IF pc'[u] = "W"
                           THEN \/ value'[u] = 0 /\ waiting # {}
                                \/ value'[u] = 1 /\ waiting = {}
                           ELSE value'[u] = 0 /\ waiting = {} /\ queue[u] = << >>
          BY <3>1, <3>2, <3>3 DEF WaitersOK
        <4> QED  BY <3>2, <4>1 DEF WaitersOK
      <3>5. WaitQueuesExact'
        <4>1. ASSUME NEW c \in Condition, NEW u \in Range(waitQueue[c])
              PROVE  pc'[u] = "W" /\ arg[u] = CondLock[c]
          <5>1. u \in Thread /\ u # t
            BY <3>1, <4>1 DEF SynchTypeOK, Range
          <5> QED  BY <3>2, <4>1, <5>1 DEF WaitQueuesExact
        <4> QED  BY <3>2, <4>1 DEF WaitQueuesExact
      <3> QED  BY <3>4, <3>5
    <2> QED  BY <2>1, <2>2
  <1> QED  BY <1>2, <1>3, <1>4, <1>5, <1>6, <1>7

(* V on a semaphore of the program, by a thread or a handler. *)
LEMMA VSteps ==
    ASSUME SInv, NEW s \in Semaphore, HandlerV(s) \/ \E t \in Thread : V(t, s)
    PROVE  SyncInv'
  <1> USE DEF SInv, SyncInv
  <1>1. VEffect(s) /\ UNCHANGED << lockHolder, waitQueue, pc, arg >>
    BY ThreadVFacts, HandlerVFacts DEF V, HandlerV, Sem
  <1>2. ArgOK' /\ FinishedOutside' /\ BroadcastHoldsLock'
    BY <1>1 DEF ArgOK, FinishedOutside, BroadcastHoldsLock, VEffect
  <1>3. QueueExact' /\ NoLostWakeup'
    BY <1>1, VQueues DEF Moves, Sem
  <1>4. \A x \in Lock \cup Thread : value'[x] = value[x] /\ queue'[x] = queue[x]
    BY <1>1 DEF VEffect, SynchTypeOK, Sem
  <1>5. LockExclusion'
    BY <1>1, <1>4, LocksKept DEF LockViewKept
  <1>6. WaitersOK' /\ WaitQueuesExact'
    BY <1>1, <1>4, WaitersKept DEF WaiterViewKept, WaitersOK
  <1> QED  BY <1>2, <1>3, <1>5, <1>6

(* The V of a lock that its holder gives up, in Release or in Wait. *)
LEMMA LockGivenUp ==
    ASSUME SInv, NEW t \in Thread, NEW k \in Lock,
           pc[t] = "none", lockHolder[k] = t, VEffect(k),
           lockHolder' = [lockHolder EXCEPT ![k] = NULL],
           \A u \in Thread \ {t} : pc'[u] = pc[u] /\ arg'[u] = arg[u],
           pc'[t] \in {"none", "W"}
    PROVE  /\ LockExclusion' /\ BroadcastHoldsLock'
           /\ Inside(k) = {t} /\ Inside(k)' = {}
           /\ \A l \in Lock \ {k} : Inside(l)' = Inside(l)
           /\ \A u \in Thread : value'[u] = value[u] /\ queue'[u] = queue[u]
  <1> USE DEF SInv, SyncInv
  <1>1. Inside(k) = {t} /\ value[k] = 0
    <2>1. t \in Inside(k)
      BY DEF Inside
    <2> QED  BY <2>1 DEF LockExclusion
  <1>2. /\ lockHolder'[k] = NULL /\ \A l \in Lock \ {k} : lockHolder'[l] = lockHolder[l]
        /\ value'[k] = 1 /\ \A l \in Lock \ {k} : value'[l] = value[l]
        /\ \A u \in Thread : value'[u] = value[u] /\ queue'[u] = queue[u]
    BY <1>1 DEF SynchTypeOK, VEffect, Sem
  <1>3. Inside(k)' = {}
    BY <1>1, <1>2 DEF Inside
  <1>4. \A l \in Lock \ {k} : Inside(l)' = Inside(l)
    BY <1>2 DEF Inside
  <1>5. LockExclusion'
    BY <1>2, <1>3, <1>4 DEF LockExclusion
  <1>6. BroadcastHoldsLock'
    <2> SUFFICES ASSUME NEW u \in Thread, pc'[u] = "B"
                 PROVE  lockHolder'[CondLock[arg'[u]]] = u
      BY DEF BroadcastHoldsLock
    <2>1. u # t /\ pc[u] = "B" /\ arg'[u] = arg[u] /\ CondLock[arg[u]] \in Lock
      BY DEF ArgOK
    <2>2. lockHolder[CondLock[arg[u]]] = u
      BY <2>1 DEF BroadcastHoldsLock
    <2> QED  BY <1>2, <2>1, <2>2
  <1> QED  BY <1>1, <1>2, <1>3, <1>4, <1>5, <1>6

LEMMA ReleaseStep ==
    ASSUME SInv, NEW t \in Thread, NEW l \in Lock, Release(t, l)
    PROVE  SyncInv'
  <1> USE DEF SInv, SyncInv
  <1>1. VEffect(l) /\ pc[t] = "none" /\ lockHolder[l] = t
        /\ lockHolder' = [lockHolder EXCEPT ![l] = NULL]
        /\ UNCHANGED << waitQueue, pc, arg >>
    BY ThreadVFacts DEF Release, Calling, Sem
  <1>2. /\ LockExclusion' /\ BroadcastHoldsLock'
        /\ \A u \in Thread : value'[u] = value[u] /\ queue'[u] = queue[u]
    BY <1>1, LockGivenUp
  <1>3. ArgOK' /\ FinishedOutside'
    BY <1>1 DEF ArgOK, FinishedOutside, VEffect
  <1>4. QueueExact' /\ NoLostWakeup'
    BY <1>1, VQueues DEF Moves, Sem
  <1>5. WaitersOK' /\ WaitQueuesExact'
    BY <1>1, <1>2, WaitersKept DEF WaiterViewKept, WaitersOK
  <1> QED  BY <1>2, <1>3, <1>4, <1>5

(* What Wait does: the waiter is queued before the lock is given up. *)
LEMMA WaitFacts ==
    ASSUME SInv, NEW t \in Thread, NEW c \in Condition, Wait(t, c)
    PROVE  /\ t = currentThread /\ pc[t] = "none" /\ status[t] = "RUNNING"
           /\ lockHolder[CondLock[c]] = t /\ CondLock[c] \in Lock
           /\ ~finishing /\ toBeDestroyed = NULL
           /\ VEffect(CondLock[c])
           /\ status'[t] = "RUNNING"
           /\ lockHolder' = [lockHolder EXCEPT ![CondLock[c]] = NULL]
           /\ pc'[t] = "W" /\ arg'[t] = CondLock[c]
           /\ \A u \in Thread \ {t} : pc'[u] = pc[u] /\ arg'[u] = arg[u]
           /\ IsInjective(waitQueue'[c])
           /\ Range(waitQueue'[c]) = Range(waitQueue[c]) \cup {t}
           /\ \A d \in Condition \ {c} : waitQueue'[d] = waitQueue[d]
           /\ \A d \in Condition : t \notin Range(waitQueue[d])
  <1> USE DEF SInv, SyncInv
  <1>1. CondLock[c] \in Lock /\ CondLock[c] \in Sem
    BY DEF Sem
  <1>2. t = currentThread /\ pc[t] = "none" /\ cpu = "code"
    BY DEF Wait, Calling
  <1>3. status[t] = "RUNNING" /\ ~finishing /\ toBeDestroyed = NULL
    BY <1>2, CurrentRuns
  <1>4. VEffect(CondLock[c])
    BY <1>1, ThreadVFacts DEF Wait
  <1>5. status'[t] = "RUNNING"
    <2> DEFINE h == Head(queue[CondLock[c]])
    <2>1. CASE queue[CondLock[c]] # << >>
      <3>1. h \in Range(queue[CondLock[c]]) /\ h \in Thread
        BY <1>1, <2>1, TailFacts DEF QueueExact, SynchTypeOK
      <3>2. h # t
        BY <1>1, <1>3, <3>1, RunningNotQueued
      <3> QED  BY <1>3, <1>4, <2>1, <3>1, <3>2 DEF VEffect, IInv, TypeOK
    <2>2. CASE queue[CondLock[c]] = << >>
      BY <1>3, <1>4, <2>2 DEF VEffect
    <2> QED  BY <2>1, <2>2
  <1>6. \A d \in Condition : t \notin Range(waitQueue[d])
    BY <1>2 DEF WaitQueuesExact
  <1>7. /\ IsInjective(waitQueue'[c])
        /\ Range(waitQueue'[c]) = Range(waitQueue[c]) \cup {t}
    BY <1>6, AppendFacts DEF Wait, WaitQueuesExact, SynchTypeOK
  <1>8. \A d \in Condition \ {c} : waitQueue'[d] = waitQueue[d]
    BY DEF Wait, SynchTypeOK
  <1>9. /\ pc'[t] = "W" /\ arg'[t] = CondLock[c]
        /\ \A u \in Thread \ {t} : pc'[u] = pc[u] /\ arg'[u] = arg[u]
    BY DEF Wait, Goto, SynchTypeOK
  <1> QED  BY <1>1, <1>2, <1>3, <1>4, <1>5, <1>6, <1>7, <1>8, <1>9 DEF Wait

LEMMA WaitStep ==
    ASSUME SInv, NEW t \in Thread, NEW c \in Condition, Wait(t, c)
    PROVE  SyncInv'
  <1> USE DEF SInv, SyncInv
  <1>1. /\ LockExclusion' /\ BroadcastHoldsLock'
        /\ \A u \in Thread : value'[u] = value[u] /\ queue'[u] = queue[u]
    BY WaitFacts, LockGivenUp
  <1>2. ArgOK' /\ FinishedOutside'
    BY WaitFacts DEF ArgOK, FinishedOutside, VEffect
  <1>3. QueueExact' /\ NoLostWakeup'
    BY WaitFacts, VQueues DEF Moves, InP, Sem
  <1>4. WaitersOK'
    <2> SUFFICES ASSUME NEW u \in Thread
          PROVE  LET waiting == {d \in Condition : u \in Range(waitQueue'[d])}
                 IN  IF pc'[u] = "W"
                       THEN \/ value'[u] = 0 /\ waiting # {}
                            \/ value'[u] = 1 /\ waiting = {}
                       ELSE value'[u] = 0 /\ waiting = {} /\ queue'[u] = << >>
      BY DEF WaitersOK
    <2>1. CASE u = t
      <3>1. pc[t] # "W" /\ pc'[t] = "W" /\ t \in Range(waitQueue'[c])
        BY WaitFacts
      <3>2. value[t] = 0
        BY <3>1 DEF WaitersOK
      <3> QED  BY <1>1, <2>1, <3>1, <3>2
    <2>2. CASE u # t
      <3>1. \A d \in Condition : u \in Range(waitQueue'[d]) <=> u \in Range(waitQueue[d])
        BY <2>2, WaitFacts
      <3>2. pc'[u] = pc[u]
        BY <2>2, WaitFacts
      <3> QED  BY <1>1, <3>1, <3>2 DEF WaitersOK
    <2> QED  BY <2>1, <2>2
  <1>5. WaitQueuesExact'
    <2>1. ASSUME NEW d \in Condition, NEW u \in Range(waitQueue'[d])
          PROVE  pc'[u] = "W" /\ arg'[u] = CondLock[d]
      <3>1. CASE u = t
        <4>1. d = c
          BY <2>1, <3>1, WaitFacts
        <4> QED  BY <3>1, <4>1, WaitFacts
      <3>2. CASE u # t
        <4>1. u \in Range(waitQueue[d])
          BY <2>1, <3>2, WaitFacts
        <4>2. u \in Thread
          BY <4>1 DEF SynchTypeOK, Range
        <4> QED  BY <3>2, <4>1, <4>2, WaitFacts DEF WaitQueuesExact
      <3> QED  BY <3>1, <3>2
    <2>2. \A d \in Condition : IsInjective(waitQueue'[d])
      BY WaitFacts DEF WaitQueuesExact
    <2>3. ASSUME NEW d \in Condition, NEW e \in Condition, d # e
          PROVE  Range(waitQueue'[d]) \cap Range(waitQueue'[e]) = {}
      <3>1. Range(waitQueue[d]) \cap Range(waitQueue[e]) = {}
        BY <2>3 DEF WaitQueuesExact
      <3>2. \A b \in Condition : Range(waitQueue'[b]) =
                  IF b = c THEN Range(waitQueue[b]) \cup {t} ELSE Range(waitQueue[b])
        <4>1. /\ Range(waitQueue'[c]) = Range(waitQueue[c]) \cup {t}
              /\ \A b \in Condition \ {c} : waitQueue'[b] = waitQueue[b]
          BY WaitFacts
        <4> QED  BY <4>1
      <3>3. t \notin Range(waitQueue[d]) /\ t \notin Range(waitQueue[e])
        BY WaitFacts
      <3> QED  BY <2>3, <3>1, <3>2, <3>3
    <2> QED  BY <2>1, <2>2, <2>3 DEF WaitQueuesExact
  <1> QED  BY <1>1, <1>2, <1>3, <1>4, <1>5

(* What Signal does: the first waiter leaves the wait queue and its        *)
(* semaphore goes from 0 to 1.                                             *)
LEMMA SignalFacts ==
    ASSUME SInv, NEW c \in Condition, DoSignal(c),
           UNCHANGED << lockHolder, pc, arg >>
    PROVE  \E u \in Thread :
             /\ u \in Range(waitQueue[c]) /\ pc[u] = "W" /\ arg[u] = CondLock[c]
             /\ VEffect(u) /\ value[u] = 0
             /\ IsInjective(waitQueue'[c])
             /\ Range(waitQueue'[c]) = Range(waitQueue[c]) \ {u}
             /\ \A d \in Condition \ {c} : waitQueue'[d] = waitQueue[d]
             /\ \A d \in Condition \ {c} : u \notin Range(waitQueue[d])
  <1> USE DEF SInv, SyncInv
  <1> DEFINE u == Head(waitQueue[c])
  <1>1. /\ u \in Thread /\ u \in Range(waitQueue[c])
        /\ IsInjective(Tail(waitQueue[c]))
        /\ Range(Tail(waitQueue[c])) = Range(waitQueue[c]) \ {u}
    BY TailFacts DEF DoSignal, SynchTypeOK, WaitQueuesExact
  <1>2. pc[u] = "W" /\ arg[u] = CondLock[c]
    BY <1>1 DEF WaitQueuesExact
  <1>3. value[u] = 0
    BY <1>1, <1>2 DEF WaitersOK
  <1>4. VEffect(u)
    BY <1>1, ThreadVFacts DEF DoSignal, Sem
  <1>5. /\ waitQueue'[c] = Tail(waitQueue[c])
        /\ \A d \in Condition \ {c} : waitQueue'[d] = waitQueue[d]
    BY DEF DoSignal, SynchTypeOK
  <1>6. \A d \in Condition \ {c} : u \notin Range(waitQueue[d])
    BY <1>1 DEF WaitQueuesExact
  <1> QED  BY <1>1, <1>2, <1>3, <1>4, <1>5, <1>6

LEMMA SignalStep ==
    ASSUME SInv, NEW c \in Condition, DoSignal(c),
           UNCHANGED << lockHolder, pc, arg >>
    PROVE  SyncInv'
  <1> USE DEF SInv, SyncInv
  <1>1. PICK u \in Thread :
             /\ u \in Range(waitQueue[c]) /\ pc[u] = "W" /\ arg[u] = CondLock[c]
             /\ VEffect(u) /\ value[u] = 0
             /\ IsInjective(waitQueue'[c])
             /\ Range(waitQueue'[c]) = Range(waitQueue[c]) \ {u}
             /\ \A d \in Condition \ {c} : waitQueue'[d] = waitQueue[d]
             /\ \A d \in Condition \ {c} : u \notin Range(waitQueue[d])
    BY SignalFacts
  <1>2. ArgOK' /\ FinishedOutside' /\ BroadcastHoldsLock'
    BY <1>1 DEF ArgOK, FinishedOutside, BroadcastHoldsLock, VEffect
  <1>3. QueueExact' /\ NoLostWakeup'
    BY <1>1, VQueues DEF Moves, Sem
  <1>4. /\ value'[u] = 1
        /\ \A x \in Sem \ {u} : value'[x] = value[x] /\ queue'[x] = queue[x]
    BY <1>1 DEF VEffect, SynchTypeOK, Sem
  <1>5. LockExclusion'
    BY <1>4, LocksKept DEF LockViewKept, Sem
  <1>6. \A d \in Condition :
          Range(waitQueue'[d]) = Range(waitQueue[d]) \ {u}
    BY <1>1
  <1>7. WaitersOK'
    <2> SUFFICES ASSUME NEW x \in Thread
          PROVE  LET waiting == {d \in Condition : x \in Range(waitQueue'[d])}
                 IN  IF pc[x] = "W"
                       THEN \/ value'[x] = 0 /\ waiting # {}
                            \/ value'[x] = 1 /\ waiting = {}
                       ELSE value'[x] = 0 /\ waiting = {} /\ queue'[x] = << >>
      BY DEF WaitersOK
    <2>1. CASE x = u
      BY <1>1, <1>4, <1>6, <2>1
    <2>2. CASE x # u
      <3>1. value'[x] = value[x] /\ queue'[x] = queue[x]
        BY <1>4, <2>2 DEF Sem
      <3>2. \A d \in Condition : x \in Range(waitQueue'[d]) <=> x \in Range(waitQueue[d])
        BY <1>6, <2>2
      <3> QED  BY <3>1, <3>2 DEF WaitersOK
    <2> QED  BY <2>1, <2>2
  <1>8. WaitQueuesExact'
    <2>1. \A d \in Condition : IsInjective(waitQueue'[d])
      BY <1>1 DEF WaitQueuesExact
    <2>2. \A d \in Condition : \A x \in Range(waitQueue'[d]) :
              pc'[x] = "W" /\ arg'[x] = CondLock[d]
      BY <1>6 DEF WaitQueuesExact
    <2>3. \A d, e \in Condition : d # e =>
              Range(waitQueue'[d]) \cap Range(waitQueue'[e]) = {}
      BY <1>6 DEF WaitQueuesExact
    <2> QED  BY <2>1, <2>2, <2>3 DEF WaitQueuesExact
  <1> QED  BY <1>2, <1>3, <1>5, <1>7, <1>8

(* The rest of the kernel blocks or deletes no thread that is inside       *)
(* synch.cc, and leaves the objects alone.                                 *)
LEMMA OtherSteps ==
    ASSUME SInv, KernelStep \/ \E t \in Thread : OtherCode(t)
    PROVE  SyncInv'
  <1> USE DEF SInv, SyncInv
  <1>1. UNCHANGED synchVars
    BY DEF KernelStep, OtherCode
  <1>2. SleepersKept /\ FinishedOutside'
    <2>1. readyList # << >> => /\ Head(readyList) \in Thread
                               /\ status[Head(readyList)] = "READY"
      BY TailFacts DEF IInv, TypeOK, ReadyListExact
    <2>2. cpu \in {"code", "tick"} => /\ status[currentThread] = "RUNNING"
                                      /\ ~finishing /\ toBeDestroyed = NULL
      BY DEF IInv, TypeOK, OneRunning, ControlOK, CarcassSafe
    <2> USE DEF IInv, TypeOK, SleepersKept, FinishedOutside, synchVars
    <2>3. ASSUME NEW t \in Thread, OtherCode(t)
          PROVE  SleepersKept /\ FinishedOutside'
      <3>1. ASSUME NEW u \in Thread, Fork(u)
            PROVE  SleepersKept /\ FinishedOutside'
        BY <1>1, <2>2, <3>1 DEF Fork, ReadyToRun, InKernel
      <3>2. CASE Yield
        BY <1>1, <2>1, <2>2, <3>2 DEF Yield, YieldFrom, InKernel
      <3>3. CASE EnableInterrupts
        BY <1>1, <2>2, <3>3 DEF EnableInterrupts, InKernel
      <3>4. CASE Finish
        BY <1>1, <2>2, <2>3, <3>4 DEF Finish, StartSleep, InKernel, OtherCode
      <3> QED  BY <2>3, <3>1, <3>2, <3>3, <3>4 DEF OtherCode
    <2>4. CASE TimerInterrupt \/ TickReturn \/ Idle \/ IdleReturn
      BY <1>1, <2>2, <2>4 DEF TimerInterrupt, TickReturn, Idle, IdleReturn
    <2>5. CASE TickYield
      BY <1>1, <2>1, <2>2, <2>5 DEF TickYield, YieldFrom
    <2>6. CASE Dispatch
      BY <1>1, <2>1, <2>6 DEF Dispatch
    <2>7. CASE Begin \/ ReturnFromRun
      BY <1>1, <2>7 DEF Begin, ReturnFromRun, CheckToBeDestroyed, ControlOK
    <2> QED  BY <2>3, <2>4, <2>5, <2>6, <2>7 DEF KernelStep, Scheduling
  <1>3. ArgOK' /\ BroadcastHoldsLock'
    BY <1>1 DEF ArgOK, BroadcastHoldsLock, synchVars
  <1>4. QueueExact' /\ NoLostWakeup'
    BY <1>1, <1>2, QuietQueues DEF Moves, synchVars
  <1>5. LockExclusion'
    BY <1>1, LocksKept DEF LockViewKept, synchVars
  <1>6. WaitersOK' /\ WaitQueuesExact'
    BY <1>1, WaitersKept DEF WaiterViewKept, WaitersOK, synchVars
  <1> QED  BY <1>2, <1>3, <1>4, <1>5, <1>6

-----------------------------------------------------------------------------
(* The invariant holds of every reachable state.                           *)

LEMMA InitSInv == SynchInit => SInv
  <1> SUFFICES ASSUME SynchInit PROVE SInv
    OBVIOUS
  <1> USE DEF SynchInit, SemaphoreInit, LockInit, ConditionInit
  <1>1. IInv
    BY InitIInv
  <1>2. SynchTypeOK
    BY DEF SynchTypeOK, Pc, Sem
  <1>3. ArgOK /\ FinishedOutside /\ BroadcastHoldsLock
    BY DEF ArgOK, FinishedOutside, BroadcastHoldsLock, Init
  <1>4. \A s \in Sem : queue[s] = << >> /\ Range(queue[s]) = {} /\ IsInjective(queue[s])
    BY DEF Range, IsInjective
  <1>5. \A t \in Thread : ~InP(t)
    BY DEF InP
  <1>6. QueueExact
    BY <1>4, <1>5 DEF QueueExact
  <1>7. NoLostWakeup
    BY <1>2, <1>4 DEF NoLostWakeup, SynchTypeOK
  <1>8. LockExclusion
    <2> SUFFICES ASSUME NEW l \in Lock PROVE value[l] = 1 /\ Inside(l) = {}
      BY DEF LockExclusion
    <2> QED  BY DEF Inside, Sem
  <1>9. \A c \in Condition : Range(waitQueue[c]) = {} /\ IsInjective(waitQueue[c])
    BY DEF Range, IsInjective
  <1>10. WaitQueuesExact
    BY <1>9 DEF WaitQueuesExact
  <1>11. \A t \in Thread : value[t] = 0 /\ queue[t] = << >> /\ pc[t] # "W"
    BY DEF Sem
  <1>12. WaitersOK
    BY <1>9, <1>11 DEF WaitersOK
  <1> QED  BY <1>1, <1>2, <1>3, <1>6, <1>7, <1>8, <1>10, <1>12 DEF SInv, SyncInv

LEMMA NextSInv == SInv /\ [SynchNext]_allVars => SInv'
  <1> SUFFICES ASSUME SInv, [SynchNext]_allVars PROVE SInv'
    OBVIOUS
  <1>1. IInv' /\ SynchTypeOK'
    BY SchedulerStep, QueuedAreWakeable, NextIInv, TypeStep DEF SInv, SyncInv
  <1>2. SyncInv'
    <2>1. CASE UNCHANGED allVars
      <3>1. UNCHANGED << value, queue, lockHolder, waitQueue, pc, arg, status,
                         finishing, currentThread, toBeDestroyed >>
        BY <2>1 DEF allVars, vars, synchVars
      <3>2. ArgOK' /\ FinishedOutside' /\ BroadcastHoldsLock'
        BY <3>1 DEF SInv, SyncInv, ArgOK, FinishedOutside, BroadcastHoldsLock
      <3>3. QueueExact' /\ NoLostWakeup'
        BY <3>1, QuietQueues DEF Moves, SleepersKept
      <3>4. LockExclusion'
        BY <3>1, LocksKept DEF LockViewKept
      <3>5. WaitersOK' /\ WaitQueuesExact'
        BY <3>1, WaitersKept DEF WaiterViewKept, WaitersOK, SInv, SyncInv
      <3> QED  BY <3>2, <3>3, <3>4, <3>5 DEF SyncInv
    <2>2. ASSUME NEW t \in Thread, SemStep(t) PROVE SyncInv'
      BY <2>2, CallSteps, VSteps, PSleepStep, PTakeStep DEF SemStep
    <2>3. ASSUME NEW t \in Thread, LockStep(t) PROVE SyncInv'
      BY <2>3, CallSteps, SetHolderStep, ReleaseStep DEF LockStep
    <2>4. ASSUME NEW t \in Thread, CondStep(t) PROVE SyncInv'
      BY <2>4, CallSteps, WaitStep, SignalStep
         DEF CondStep, Signal, BroadcastSignal, SInv, SyncInv, ArgOK
    <2>5. ASSUME NEW s \in DeviceSem, HandlerV(s) PROVE SyncInv'
      BY <2>5, VSteps
    <2> QED  BY <2>1, <2>2, <2>3, <2>4, <2>5, OtherSteps DEF SynchNext
  <1> QED  BY <1>1, <1>2 DEF SInv

LEMMA SynchInvariance == SynchSpec => []SInv
  BY InitSInv, NextSInv, PTL DEF SynchSpec

-----------------------------------------------------------------------------
(* The queues of semaphores and conditions hold exactly the threads that   *)
(* wait there, whatever the threads and the interrupt handlers do.         *)
THEOREM QueuesAreSafe == SynchSpec => []QueuesSafe
  <1>1. SInv => QueuesSafe
    BY DEF SInv, SyncInv, QueuesSafe
  <1> QED  BY <1>1, SynchInvariance, PTL

(* While threads sleep in P, every unit of the semaphore's value is owed   *)
(* to a thread that is awake in P, for any number of threads.              *)
THEOREM NoWakeupLost == SynchSpec => []NoLostWakeup
  <1>1. SInv => NoLostWakeup
    BY DEF SInv, SyncInv
  <1> QED  BY <1>1, SynchInvariance, PTL

(* At most one thread is between Acquire's P and Release's V, and the      *)
(* semaphore of the lock is 0 exactly while one is.                        *)
THEOREM MutualExclusion == SynchSpec => []LockExclusion
  <1>1. SInv => LockExclusion
    BY DEF SInv, SyncInv
  <1> QED  BY <1>1, SynchInvariance, PTL

(* The ReadyToRun in V never meets a thread that is not asleep or that is  *)
(* on its way out.                                                         *)
THEOREM WakesSleepersOnly == SynchSpec => []SleepersWakeable
  <1>1. SInv => SleepersWakeable
    BY QueuedAreWakeable DEF SInv, SyncInv
  <1> QED  BY <1>1, SynchInvariance, PTL

(* synch.cc uses the scheduler as its callers must: whichever thread P, V, *)
(* Signal and Broadcast hand to ReadyToRun is asleep and not finishing, so *)
(* every behaviour of the synchronisation objects is one of module Threads *)
(* and everything proved there of the scheduler holds under them.          *)
THEOREM SchedulerContract == SynchSpec => ThreadsContract
  <1>1. SynchInit => Init
    BY DEF SynchInit
  <1>2. SInv /\ [SynchNext]_allVars => [Next]_vars
    BY SchedulerStep, QueuedAreWakeable DEF SInv, SyncInv
  <1> QED
    BY <1>1, <1>2, SynchInvariance, PTL DEF SynchSpec, ThreadsContract, Spec

-----------------------------------------------------------------------------
(* The Mesa monitor.                                                       *)

(* The thread inside a lock is the holder the callers see. *)
LEMMA HolderIs ==
    ASSUME NEW l \in Lock
    PROVE  /\ Inside(l) = {} => holderOf[l] = NULL
           /\ \A t : Inside(l) = {t} => holderOf[l] = t
  BY DEF holderOf

LEMMA HolderIsNext ==
    ASSUME NEW l \in Lock
    PROVE  /\ Inside(l)' = {} => holderOf'[l] = NULL
           /\ \A t : Inside(l)' = {t} => holderOf'[l] = t
  BY DEF holderOf

LEMMA HolderKept ==
    ASSUME LockExclusion, NEW l \in Lock, Inside(l)' = Inside(l)
    PROVE  holderOf'[l] = holderOf[l]
  BY HolderIs, HolderIsNext DEF LockExclusion

(* Only the holder of k changes when only its inside does. *)
LEMMA HolderChanges ==
    ASSUME LockExclusion, NEW k \in Lock,
           \A l \in Lock \ {k} : Inside(l)' = Inside(l)
    PROVE  holderOf' = [holderOf EXCEPT ![k] = holderOf'[k]]
  <1>1. \A l \in Lock \ {k} : holderOf'[l] = holderOf[l]
    BY HolderKept
  <1>2. /\ holderOf' = [l \in Lock |-> holderOf'[l]]
        /\ holderOf = [l \in Lock |-> holderOf[l]]
    BY DEF holderOf
  <1> QED  BY <1>1, <1>2

(* A step that leaves the insides of the locks, the wait queues and the    *)
(* threads in Wait as they are is not seen.                                *)
LEMMA MonitorStutters ==
    ASSUME LockExclusion,
           \A l \in Lock : Inside(l)' = Inside(l),
           UNCHANGED waitQueue,
           \A u \in Thread :
               \/ pc'[u] = pc[u] /\ arg'[u] = arg[u]
               \/ {pc[u], pc'[u]} \cap {"W", "WA"} = {}
               \/ pc[u] = "W" /\ pc'[u] = "WA" /\ arg'[u] = arg[u]
    PROVE  UNCHANGED << holderOf, waitingFor, reentering >>
  <1>1. holderOf' = holderOf
    <2>1. \A l \in Lock : holderOf'[l] = holderOf[l]
      BY HolderKept
    <2>2. /\ holderOf' = [l \in Lock |-> holderOf'[l]]
          /\ holderOf = [l \in Lock |-> holderOf[l]]
      BY DEF holderOf
    <2> QED  BY <2>1, <2>2
  <1>2. waitingFor' = waitingFor
    BY DEF waitingFor
  <1>3. reentering' = reentering
    BY DEF reentering
  <1> QED  BY <1>1, <1>2, <1>3

(* P of the lock's semaphore is the moment a thread enters the monitor. *)
LEMMA PTakeEnters ==
    ASSUME SInv, NEW t \in Thread, PTake(t)
    PROVE  [Mesa!MonitorNext]_(Mesa!monitorVars)
  <1> USE DEF SInv, SyncInv
  <1>1. CASE pc[t] \in {"P", "W"}
    <2>1. \A l \in Lock : Inside(l)' = Inside(l)
      BY <1>1, PTakeFacts DEF Inside, AfterP
    <2>2. \A u \in Thread : \/ pc'[u] = pc[u] /\ arg'[u] = arg[u]
                            \/ {pc[u], pc'[u]} \cap {"W", "WA"} = {}
                            \/ pc[u] = "W" /\ pc'[u] = "WA" /\ arg'[u] = arg[u]
      BY <1>1, PTakeFacts DEF AfterP
    <2> QED  BY <2>1, <2>2, PTakeFacts, MonitorStutters DEF Mesa!monitorVars
  <1>2. CASE pc[t] \in {"A", "WA"}
    <2>1. PICK k \in Lock : k = arg[t] /\ PSem(t) = k
      BY <1>2 DEF ArgOK, PSem
    <2>2. value[k] = 1 /\ Inside(k) = {}
      BY <2>1, PTakeFacts DEF LockExclusion
    <2>3. /\ UNCHANGED << arg, lockHolder, waitQueue >>
          /\ pc'[t] \in {"AH", "WH"}
          /\ \A u \in Thread \ {t} : pc'[u] = pc[u]
      BY <1>2, PTakeFacts DEF AfterP
    <2>4. Inside(k)' = {t}
      BY <2>1, <2>2, <2>3 DEF Inside
    <2>5. \A l \in Lock \ {k} : Inside(l)' = Inside(l)
      BY <1>2, <2>1, <2>3 DEF Inside
    <2>6. holderOf[k] = NULL /\ holderOf' = [holderOf EXCEPT ![k] = t]
      <3>1. holderOf[k] = NULL /\ holderOf'[k] = t
        BY <2>2, <2>4, HolderIs, HolderIsNext
      <3> QED  BY <2>5, <3>1, HolderChanges
    <2>7. waitingFor' = waitingFor
      BY <2>3 DEF waitingFor
    <2>8. \A c \in Condition : t \notin Range(waitQueue[c])
      BY <1>2 DEF WaitQueuesExact
    <2>9. reentering' = [reentering EXCEPT ![k] = @ \ {t}]
      BY <1>2, <2>1, <2>3 DEF reentering
    <2>10. Mesa!Free(t) \/ t \in reentering[k]
      <3>1. CASE pc[t] = "A"
        BY <2>8, <3>1 DEF Mesa!Free, waitingFor, reentering
      <3>2. CASE pc[t] = "WA"
        BY <2>1, <2>8, <3>2 DEF reentering
      <3> QED  BY <1>2, <3>1, <3>2
    <2>11. Mesa!Enter(t, k)
      BY <2>6, <2>7, <2>9, <2>10 DEF Mesa!Enter
    <2> QED  BY <2>11 DEF Mesa!MonitorNext
  <1> QED  BY <1>1, <1>2, PTakeFacts DEF InP

(* A thread outside synch.cc is free to call the monitor. *)
LEMMA CallerFree ==
    ASSUME SInv, NEW t \in Thread, pc[t] = "none"
    PROVE  Mesa!Free(t)
  BY DEF SInv, SyncInv, WaitQueuesExact, Mesa!Free, waitingFor, reentering

LEMMA ReleaseLeaves ==
    ASSUME SInv, NEW t \in Thread, NEW l \in Lock, Release(t, l)
    PROVE  Mesa!Leave(t, l)
  <1>1. VEffect(l) /\ pc[t] = "none" /\ lockHolder[l] = t
        /\ lockHolder' = [lockHolder EXCEPT ![l] = NULL]
        /\ UNCHANGED << waitQueue, pc, arg >>
    BY ThreadVFacts DEF Release, Calling, Sem, SInv
  <1>2. /\ Inside(l) = {t} /\ Inside(l)' = {}
        /\ \A k \in Lock \ {l} : Inside(k)' = Inside(k)
    BY <1>1, LockGivenUp
  <1>3. holderOf[l] = t /\ holderOf' = [holderOf EXCEPT ![l] = NULL]
    <2>1. holderOf[l] = t /\ holderOf'[l] = NULL
      BY <1>2, HolderIs, HolderIsNext
    <2> QED  BY <1>2, <2>1, HolderChanges DEF SInv, SyncInv
  <1>4. waitingFor' = waitingFor /\ reentering' = reentering
    BY <1>1 DEF waitingFor, reentering
  <1> QED  BY <1>1, <1>3, <1>4, CallerFree DEF Mesa!Leave

LEMMA WaitWaits ==
    ASSUME SInv, NEW t \in Thread, NEW c \in Condition, Wait(t, c)
    PROVE  Mesa!WaitFor(t, c)
  <1> USE DEF SInv, SyncInv
  <1>1. PICK k \in Lock : k = CondLock[c]
    OBVIOUS
  <1>2. /\ Inside(k) = {t} /\ Inside(k)' = {}
        /\ \A l \in Lock \ {k} : Inside(l)' = Inside(l)
    BY <1>1, WaitFacts, LockGivenUp
  <1>3. holderOf[k] = t /\ holderOf' = [holderOf EXCEPT ![k] = NULL]
    <2>1. holderOf[k] = t /\ holderOf'[k] = NULL
      BY <1>2, HolderIs, HolderIsNext
    <2> QED  BY <1>2, <2>1, HolderChanges
  <1>4. waitingFor' = [waitingFor EXCEPT ![c] = @ \cup {t}]
    <2>1. /\ Range(waitQueue'[c]) = Range(waitQueue[c]) \cup {t}
          /\ \A d \in Condition \ {c} : waitQueue'[d] = waitQueue[d]
      BY WaitFacts
    <2> QED  BY <2>1 DEF waitingFor
  <1>5. reentering' = reentering
    <2>1. ASSUME NEW u \in Thread, NEW l \in Lock
          PROVE  (/\ pc'[u] \in {"W", "WA"} /\ arg'[u] = l
                  /\ \A d \in Condition : u \notin Range(waitQueue'[d]))
                 <=> (/\ pc[u] \in {"W", "WA"} /\ arg[u] = l
                      /\ \A d \in Condition : u \notin Range(waitQueue[d]))
      <3>1. CASE u = t
        <4>1. pc[t] = "none" /\ t \in Range(waitQueue'[c])
          BY WaitFacts
        <4> QED  BY <3>1, <4>1
      <3>2. CASE u # t
        <4>1. pc'[u] = pc[u] /\ arg'[u] = arg[u]
          BY <3>2, WaitFacts
        <4>2. \A d \in Condition : u \in Range(waitQueue'[d]) <=> u \in Range(waitQueue[d])
          BY <3>2, WaitFacts
        <4> QED  BY <4>1, <4>2
      <3> QED  BY <3>1, <3>2
    <2> QED  BY <2>1 DEF reentering
  <1>6. Mesa!Free(t)
    BY WaitFacts, CallerFree
  <1> QED  BY <1>1, <1>3, <1>4, <1>5, <1>6 DEF Mesa!WaitFor

(* Signal, alone or in a Broadcast, frees one waiter. *)
LEMMA SignalNotifies ==
    ASSUME SInv, NEW t \in Thread, NEW c \in Condition, DoSignal(c),
           lockHolder[CondLock[c]] = t, UNCHANGED << lockHolder, pc, arg >>
    PROVE  Mesa!Notify(t, c)
  <1> USE DEF SInv, SyncInv
  <1>1. PICK u \in Thread :
             /\ u \in Range(waitQueue[c]) /\ pc[u] = "W" /\ arg[u] = CondLock[c]
             /\ VEffect(u) /\ value[u] = 0
             /\ IsInjective(waitQueue'[c])
             /\ Range(waitQueue'[c]) = Range(waitQueue[c]) \ {u}
             /\ \A d \in Condition \ {c} : waitQueue'[d] = waitQueue[d]
             /\ \A d \in Condition \ {c} : u \notin Range(waitQueue[d])
    BY SignalFacts
  <1>2. PICK k \in Lock : k = CondLock[c]
    OBVIOUS
  <1>3. \A l \in Lock : Inside(l)' = Inside(l)
    BY DEF Inside
  <1>4. holderOf[k] = t /\ holderOf' = holderOf
    <2>1. t \in Inside(k)
      BY <1>2 DEF Inside
    <2>2. Inside(k) = {t}
      BY <2>1 DEF LockExclusion
    <2>3. holderOf[k] = t
      BY <2>2, HolderIs
    <2>4. \A l \in Lock : holderOf'[l] = holderOf[l]
      BY <1>3, HolderKept
    <2>5. /\ holderOf' = [l \in Lock |-> holderOf'[l]]
          /\ holderOf = [l \in Lock |-> holderOf[l]]
      BY DEF holderOf
    <2> QED  BY <2>3, <2>4, <2>5
  <1>5. u \in waitingFor[c] /\ waitingFor' = [waitingFor EXCEPT ![c] = @ \ {u}]
    BY <1>1 DEF waitingFor
  <1>6. reentering' = [reentering EXCEPT ![k] = @ \cup {u}]
    <2>1. \A d \in Condition : Range(waitQueue'[d]) = Range(waitQueue[d]) \ {u}
      BY <1>1
    <2>2. ASSUME NEW x \in Thread, NEW l \in Lock
          PROVE  (/\ pc'[x] \in {"W", "WA"} /\ arg'[x] = l
                  /\ \A d \in Condition : x \notin Range(waitQueue'[d]))
                 <=> \/ l = k /\ x = u
                     \/ /\ pc[x] \in {"W", "WA"} /\ arg[x] = l
                        /\ \A d \in Condition : x \notin Range(waitQueue[d])
      <3>1. CASE x = u
        BY <1>1, <1>2, <2>1, <3>1
      <3>2. CASE x # u
        BY <2>1, <3>2
      <3> QED  BY <3>1, <3>2
    <2>3. ASSUME NEW l \in Lock
          PROVE  reentering'[l] = IF l = k THEN reentering[l] \cup {u} ELSE reentering[l]
      BY <2>2 DEF reentering
    <2>4. /\ reentering' = [l \in Lock |-> reentering'[l]]
          /\ reentering = [l \in Lock |-> reentering[l]]
      BY DEF reentering
    <2> QED  BY <2>3, <2>4
  <1> QED  BY <1>2, <1>4, <1>5, <1>6 DEF Mesa!Notify

(* Locks and condition variables implement the Mesa monitor of module      *)
(* Monitor: every Acquire, Release, Wait, Signal and Broadcast, with all   *)
(* that happens between their semaphore operations, is to its callers one  *)
(* step of it.                                                             *)
THEOREM MonitorImplemented == SynchSpec => MesaMonitor
  <1>1. SynchInit => Mesa!MonitorInit
    <2> SUFFICES ASSUME SynchInit PROVE Mesa!MonitorInit
      OBVIOUS
    <2>1. \A l \in Lock : Inside(l) = {}
      BY DEF SynchInit, LockInit, Inside
    <2>2. \A c \in Condition : Range(waitQueue[c]) = {}
      BY DEF SynchInit, ConditionInit, Range
    <2>3. holderOf = [l \in Lock |-> NULL]
      BY <2>1 DEF holderOf
    <2>4. waitingFor = [c \in Condition |-> {}]
      BY <2>2 DEF waitingFor
    <2>5. reentering = [l \in Lock |-> {}]
      BY DEF SynchInit, reentering
    <2> QED  BY <2>3, <2>4, <2>5 DEF Mesa!MonitorInit
  <1>2. SInv /\ [SynchNext]_allVars => [Mesa!MonitorNext]_(Mesa!monitorVars)
    <2> SUFFICES ASSUME SInv, [SynchNext]_allVars
                 PROVE  [Mesa!MonitorNext]_(Mesa!monitorVars)
      OBVIOUS
    <2> USE DEF SInv, SyncInv
    <2>1. ASSUME UNCHANGED << lockHolder, waitQueue, pc, arg >>
          PROVE  UNCHANGED Mesa!monitorVars
      <3>1. \A l \in Lock : Inside(l)' = Inside(l)
        BY <2>1 DEF Inside
      <3> QED  BY <2>1, <3>1, MonitorStutters DEF Mesa!monitorVars
    <2>2. CASE UNCHANGED allVars \/ KernelStep
      BY <2>1, <2>2 DEF allVars, synchVars, KernelStep
    <2>3. ASSUME NEW t \in Thread, NEW p \in Pc \ {"AH", "WH", "W", "WA"}, NEW a,
                 Goto(t, p, a), pc[t] \in {"none", "B"},
                 UNCHANGED << lockHolder, waitQueue >>
          PROVE  UNCHANGED Mesa!monitorVars
      <3>1. /\ \A u \in Thread \ {t} : pc'[u] = pc[u] /\ arg'[u] = arg[u]
            /\ pc'[t] = p
        BY <2>3 DEF Goto, SynchTypeOK
      <3>2. \A l \in Lock : Inside(l)' = Inside(l)
        BY <2>3, <3>1 DEF Inside
      <3> QED  BY <2>3, <3>1, <3>2, MonitorStutters DEF Mesa!monitorVars
    <2>4. ASSUME NEW t \in Thread, SemStep(t)
          PROVE  [Mesa!MonitorNext]_(Mesa!monitorVars)
      <3>1. CASE \E s \in Semaphore : CallP(t, s)
        BY <2>3, <3>1 DEF CallP, Calling, Pc
      <3>2. CASE \E s \in Semaphore : V(t, s)
        BY <2>1, <3>2 DEF V
      <3>3. CASE PSleep(t)
        BY <2>1, <3>3 DEF PSleep
      <3> QED  BY <2>4, <3>1, <3>2, <3>3, PTakeEnters DEF SemStep
    <2>5. ASSUME NEW t \in Thread, LockStep(t)
          PROVE  [Mesa!MonitorNext]_(Mesa!monitorVars)
      <3>1. CASE SetHolder(t)
        <4>1. /\ \A u \in Thread \ {t} : pc'[u] = pc[u] /\ arg'[u] = arg[u]
              /\ pc'[t] = "none" /\ pc[t] \in {"AH", "WH"}
              /\ UNCHANGED waitQueue
          BY <3>1 DEF SetHolder, Goto, SynchTypeOK
        <4>2. \A l \in Lock : Inside(l)' = Inside(l)
          BY <3>1, SetHolderStep
        <4> QED  BY <4>1, <4>2, MonitorStutters DEF Mesa!monitorVars
      <3>2. CASE \E l \in Lock : CallAcquire(t, l)
        BY <2>3, <3>2 DEF CallAcquire, Calling, Pc
      <3>3. CASE \E l \in Lock : Release(t, l)
        BY <3>3, ReleaseLeaves DEF Mesa!MonitorNext
      <3> QED  BY <2>5, <3>1, <3>2, <3>3 DEF LockStep
    <2>6. ASSUME NEW t \in Thread, CondStep(t)
          PROVE  [Mesa!MonitorNext]_(Mesa!monitorVars)
      <3>1. CASE \E c \in Condition : Wait(t, c)
        BY <3>1, WaitWaits DEF Mesa!MonitorNext
      <3>2. CASE \E c \in Condition : Signal(t, c)
        BY <3>2, SignalNotifies DEF Signal, Mesa!MonitorNext
      <3>3. CASE \E c \in Condition : CallBroadcast(t, c)
        BY <2>3, <3>3 DEF CallBroadcast, Calling, Pc
      <3>4. CASE BroadcastSignal(t)
        BY <3>4, SignalNotifies
           DEF BroadcastSignal, BroadcastHoldsLock, ArgOK, Mesa!MonitorNext
      <3>5. CASE BroadcastReturn(t)
        BY <2>3, <3>5 DEF BroadcastReturn, Pc
      <3> QED  BY <2>6, <3>1, <3>2, <3>3, <3>4, <3>5 DEF CondStep
    <2>7. ASSUME NEW t \in Thread, OtherCode(t)
          PROVE  [Mesa!MonitorNext]_(Mesa!monitorVars)
      BY <2>1, <2>7 DEF OtherCode, synchVars
    <2>8. ASSUME NEW s \in DeviceSem, HandlerV(s)
          PROVE  [Mesa!MonitorNext]_(Mesa!monitorVars)
      BY <2>1, <2>8 DEF HandlerV
    <2> QED  BY <2>2, <2>4, <2>5, <2>6, <2>7, <2>8 DEF SynchNext
  <1> QED
    BY <1>1, <1>2, SynchInvariance, PTL DEF SynchSpec, MesaMonitor, Mesa!MonitorSpec
=============================================================================
