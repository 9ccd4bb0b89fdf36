------------------------------- MODULE Synch -------------------------------
(***************************************************************************)
(* Semaphores, locks and condition variables (threads/synch.cc), running   *)
(* on the scheduler of module Threads.                                     *)
(*                                                                         *)
(* A lock is built on a semaphore of its own and Condition::Wait makes a   *)
(* new one for every call, so a semaphore is named by a member of          *)
(* Semaphore, by its lock, or by the thread whose Wait made it.            *)
(* Interrupts go from off to on at the end of every P and V: between two   *)
(* such ticks a thread is not interrupted, and that is one step here.      *)
(***************************************************************************)
EXTENDS Threads, FiniteSets

CONSTANTS
    Semaphore,   \* semaphores used directly
    DeviceSem,   \* those an interrupt handler does V on
    Lock,
    Condition,
    CondLock,    \* the lock all callers pass with a condition
    InitValue,   \* initial value of each semaphore
    MaxValue     \* bound: no V on a semaphore of Semaphore beyond this value

Sem == Semaphore \cup Lock \cup Thread

ASSUME SynchAssumption ==
    /\ IsFiniteSet(Thread)
    /\ DeviceSem \subseteq Semaphore
    /\ CondLock \in [Condition -> Lock]
    /\ InitValue \in [Semaphore -> Nat]
    /\ MaxValue \in Nat
    /\ Semaphore \cap Lock = {}
    /\ (Semaphore \cup Lock) \cap Thread = {}
    /\ NULL \notin Sem \cup Condition

VARIABLES
    value,       \* Semaphore::value
    queue,       \* Semaphore::queue
    lockHolder,  \* Lock::lockHolder
    waitQueue,   \* Condition::waitQueue, a waiter named by its thread
    pc,          \* what a thread is doing in synch.cc, "none" outside it
    arg          \* the object it is doing it to

synchVars == << value, queue, lockHolder, waitQueue, pc, arg >>
allVars == << vars, synchVars >>

(*   "P"   in P of the semaphore arg                                       *)
(*   "A"   in Acquire of the lock arg, in P                                *)
(*   "AH"  in Acquire, after P and before lockHolder is set                *)
(*   "W"   in Wait with the lock arg, in P of the waiter                   *)
(*   "WA"  in Wait, in P of the Acquire                                    *)
(*   "WH"  in Wait, after that P and before lockHolder is set              *)
(*   "B"   in Broadcast of the condition arg                               *)
Pc == {"none", "P", "A", "AH", "W", "WA", "WH", "B"}

SynchTypeOK ==
    /\ value \in [Sem -> Nat]
    /\ queue \in [Sem -> Seq(Thread)]
    /\ lockHolder \in [Lock -> Thread \cup {NULL}]
    /\ waitQueue \in [Condition -> Seq(Thread)]
    /\ pc \in [Thread -> Pc]
    /\ arg \in [Thread -> Sem \cup Condition \cup {NULL}]

(* The constructors; the semaphore of a lock starts at 1. *)
SemaphoreInit ==
    /\ value = [s \in Sem |-> IF s \in Semaphore THEN InitValue[s]
                              ELSE IF s \in Lock THEN 1 ELSE 0]
    /\ queue = [s \in Sem |-> << >>]
LockInit == lockHolder = [l \in Lock |-> NULL]
ConditionInit == waitQueue = [c \in Condition |-> << >>]

SynchInit ==
    /\ Init
    /\ SemaphoreInit /\ LockInit /\ ConditionInit
    /\ pc = [t \in Thread |-> "none"]
    /\ arg = [t \in Thread |-> NULL]

-----------------------------------------------------------------------------
(* The thread t is inside P, and of which semaphore. *)
InP(t) == pc[t] \in {"P", "A", "W", "WA"}
PSem(t) == IF pc[t] = "W" THEN t ELSE arg[t]

(* The current thread may start a call: it runs kernel code of its own.    *)
Calling(t) ==
    /\ t = currentThread
    /\ cpu = "code"
    /\ level = "IntOn"
    /\ pc[t] = "none"

Goto(t, p, a) ==
    /\ pc' = [pc EXCEPT ![t] = p]
    /\ arg' = [arg EXCEPT ![t] = a]

(* The body of Semaphore::V on s: wake the first in the queue, if any.     *)
(* wake is how the scheduler is told, and none what happens otherwise.     *)
DoV(s, wake(_), none) ==
    /\ value' = [value EXCEPT ![s] = @ + 1]
    /\ queue' = [queue EXCEPT ![s] = IF @ = << >> THEN @ ELSE Tail(@)]
    /\ IF queue[s] = << >> THEN none ELSE wake(Head(queue[s]))

(* Mutant: V wakes a thread only when it takes value from 0 to 1. *)
ThreadVFirst(s) ==
    IF value[s] = 0
      THEN DoV(s, ThreadWakes, CriticalSection)
      ELSE /\ value' = [value EXCEPT ![s] = @ + 1]
           /\ queue' = queue
           /\ CriticalSection

(* V called by the current thread. *)
ThreadV(s) == DoV(s, ThreadWakes, CriticalSection)

-----------------------------------------------------------------------------
(* Semaphore::P.  The loop is entered with interrupts on when P is called  *)
(* and with interrupts off when Sleep returns.                             *)

CallP(t, s) ==
    /\ Calling(t)
    /\ Goto(t, "P", s)
    /\ UNCHANGED << vars, value, queue, lockHolder, waitQueue >>

(* value == 0: join the queue and sleep. *)
PSleep(t) ==
    /\ t = currentThread
    /\ InP(t)
    /\ value[PSem(t)] = 0
    /\ Sleep
    /\ queue' = [queue EXCEPT ![PSem(t)] = Append(@, t)]
    /\ UNCHANGED << value, lockHolder, waitQueue, pc, arg >>

(* Mutant: Wait returns without acquiring the lock again. *)
AfterPNoReacquire(p) == CASE p \in {"P", "W"} -> "none"
                          [] p = "A"  -> "AH"
                          [] p = "WA" -> "WH"

(* Where a thread goes on when P returns. *)
AfterP(p) == CASE p = "P"  -> "none"
               [] p = "A"  -> "AH"
               [] p = "W"  -> "WA"
               [] p = "WA" -> "WH"

(* Mutant: P tests value once, with if in place of while. *)
PTakeNoRetest(t) ==
    /\ t = currentThread
    /\ InP(t)
    /\ value[PSem(t)] > 0 \/ level = "IntOff"
    /\ CriticalSection \/ EnableInterrupts
    /\ value' = [value EXCEPT ![PSem(t)] = @ - 1]
    /\ pc' = [pc EXCEPT ![t] = AfterP(@)]
    /\ UNCHANGED << queue, lockHolder, waitQueue, arg >>

(* value > 0: decrement, interrupts back on. *)
PTake(t) ==
    /\ t = currentThread
    /\ InP(t)
    /\ value[PSem(t)] > 0
    /\ CriticalSection \/ EnableInterrupts
    /\ value' = [value EXCEPT ![PSem(t)] = @ - 1]
    /\ pc' = [pc EXCEPT ![t] = AfterP(@)]
    /\ UNCHANGED << queue, lockHolder, waitQueue, arg >>

(* Semaphore::V by a thread. *)
V(t, s) ==
    /\ Calling(t)
    /\ value[s] < MaxValue
    /\ ThreadV(s)
    /\ UNCHANGED << lockHolder, waitQueue, pc, arg >>

(* Mutant: V in a handler looks at the head of the queue and leaves it.    *)
HandlerVNoRemove(s) ==
    /\ InHandler
    /\ value[s] < MaxValue
    /\ value' = [value EXCEPT ![s] = @ + 1]
    /\ IF queue[s] = << >> THEN UNCHANGED vars ELSE HandlerWakes(Head(queue[s]))
    /\ UNCHANGED << queue, lockHolder, waitQueue, pc, arg >>

(* Semaphore::V by an interrupt handler. *)
HandlerV(s) ==
    /\ InHandler
    /\ value[s] < MaxValue
    /\ DoV(s, HandlerWakes, UNCHANGED vars)
    /\ UNCHANGED << lockHolder, waitQueue, pc, arg >>

-----------------------------------------------------------------------------
(* Lock::Acquire, of a lock the caller does not hold already. *)
CallAcquire(t, l) ==
    /\ Calling(t)
    /\ lockHolder[l] # t
    /\ Goto(t, "A", l)
    /\ UNCHANGED << vars, value, queue, lockHolder, waitQueue >>

(* lockHolder = currentThread, once P has returned and its tick is over.   *)
(* In Wait the waiter semaphore is then deleted.                           *)
SetHolder(t) ==
    /\ t = currentThread
    /\ cpu = "code"
    /\ pc[t] \in {"AH", "WH"}
    /\ lockHolder' = [lockHolder EXCEPT ![arg[t]] = t]
    /\ Goto(t, "none", NULL)
    /\ UNCHANGED << vars, value, queue, waitQueue >>

(* Lock::Release, by the thread that holds the lock (an ASSERT). *)
Release(t, l) ==
    /\ Calling(t)
    /\ lockHolder[l] = t
    /\ lockHolder' = [lockHolder EXCEPT ![l] = NULL]
    /\ ThreadV(l)
    /\ UNCHANGED << waitQueue, pc, arg >>

-----------------------------------------------------------------------------
(* Condition::Wait up to the end of its Release: a new waiter semaphore of *)
(* value 0 goes on the wait queue before the lock is given up.             *)
Wait(t, c) ==
    /\ Calling(t)
    /\ lockHolder[CondLock[c]] = t
    /\ waitQueue' = [waitQueue EXCEPT ![c] = Append(@, t)]
    /\ lockHolder' = [lockHolder EXCEPT ![CondLock[c]] = NULL]
    /\ ThreadV(CondLock[c])
    /\ Goto(t, "W", CondLock[c])

(* Mutant: Signal leaves the waiter on the wait queue. *)
DoSignalKeeps(c) ==
    /\ waitQueue[c] # << >>
    /\ waitQueue' = waitQueue
    /\ ThreadV(Head(waitQueue[c]))

(* Condition::Signal: V on the first waiter, if any. *)
DoSignal(c) ==
    /\ waitQueue[c] # << >>
    /\ waitQueue' = [waitQueue EXCEPT ![c] = Tail(@)]
    /\ ThreadV(Head(waitQueue[c]))

Signal(t, c) ==
    /\ Calling(t)
    /\ lockHolder[CondLock[c]] = t
    /\ DoSignal(c)
    /\ UNCHANGED << lockHolder, pc, arg >>

(* Condition::Broadcast: Signal until the wait queue is empty. *)
CallBroadcast(t, c) ==
    /\ Calling(t)
    /\ lockHolder[CondLock[c]] = t
    /\ Goto(t, "B", c)
    /\ UNCHANGED << vars, value, queue, lockHolder, waitQueue >>

BroadcastSignal(t) ==
    /\ t = currentThread
    /\ pc[t] = "B"
    /\ DoSignal(arg[t])
    /\ UNCHANGED << lockHolder, pc, arg >>

BroadcastReturn(t) ==
    /\ t = currentThread
    /\ cpu = "code"
    /\ pc[t] = "B"
    /\ waitQueue[arg[t]] = << >>
    /\ Goto(t, "none", NULL)
    /\ UNCHANGED << vars, value, queue, lockHolder, waitQueue >>

-----------------------------------------------------------------------------
(* The rest of the kernel: it leaves the synchronisation objects alone.    *)

(* A thread outside synch.cc: it forks, yields, finishes (holding no lock) *)
(* or, at the end of Kernel::Initialize, turns interrupts on.              *)
OtherCode(t) ==
    /\ t = currentThread
    /\ pc[t] = "none"
    /\ \/ \E u \in Thread : Fork(u)
       \/ Yield
       \/ EnableInterrupts
       \/ Finish /\ \A l \in Lock : lockHolder[l] # t
    /\ UNCHANGED synchVars

KernelStep ==
    /\ TimerInterrupt \/ TickReturn \/ TickYield \/ Scheduling
    /\ UNCHANGED synchVars

SemStep(t) ==
    \/ \E s \in Semaphore : CallP(t, s) \/ V(t, s)
    \/ PSleep(t) \/ PTake(t)

LockStep(t) == SetHolder(t) \/ \E l \in Lock : CallAcquire(t, l) \/ Release(t, l)

CondStep(t) ==
    \/ \E c \in Condition : Wait(t, c) \/ Signal(t, c) \/ CallBroadcast(t, c)
    \/ BroadcastSignal(t) \/ BroadcastReturn(t)

SynchNext ==
    \/ \E t \in Thread : SemStep(t) \/ LockStep(t) \/ CondStep(t) \/ OtherCode(t)
    \/ \E s \in DeviceSem : HandlerV(s)
    \/ KernelStep

SynchSpec == SynchInit /\ [][SynchNext]_allVars

-----------------------------------------------------------------------------
(* Properties.                                                             *)

(* A thread is in the queue of exactly the semaphore it sleeps on: queued  *)
(* threads are BLOCKED inside P of that semaphore and queued once, and     *)
(* every BLOCKED thread that is not finishing is queued.  So V only hands  *)
(* sleeping threads to ReadyToRun and no sleeper is out of every V's reach.*)
QueueExact ==
    /\ \A s \in Sem :
         /\ IsInjective(queue[s])
         /\ \A t \in Range(queue[s]) :
              status[t] = "BLOCKED" /\ InP(t) /\ PSem(t) = s
    /\ \A t \in Thread :
         status[t] = "BLOCKED" /\ InP(t) => t \in Range(queue[PSem(t)])

(* The threads inside P of s that are not asleep: they will test value.    *)
Testing(s) == {t \in Thread : InP(t) /\ PSem(t) = s /\ t \notin Range(queue[s])}

(* No wakeup is lost: while threads sleep on s, each unit of its value is  *)
(* owed to a thread that is awake inside P and about to test value again.  *)
(* And none is taken twice, though several woken threads test it.          *)
NoLostWakeup ==
    \A s \in Sem : /\ value[s] >= 0
                   /\ queue[s] # << >> => value[s] <= Cardinality(Testing(s))

(* The threads between the P and the V of the lock's semaphore. *)
Inside(l) == {t \in Thread : \/ lockHolder[l] = t
                             \/ pc[t] \in {"AH", "WH"} /\ arg[t] = l}

(* Mutual exclusion: the semaphore of a lock and its holder agree, also    *)
(* while a time slice falls between P and the assignment of lockHolder.    *)
LockExclusion ==
    \A l \in Lock :
        \/ value[l] = 1 /\ Inside(l) = {}
        \/ value[l] = 0 /\ \E t \in Thread : Inside(l) = {t}

(* The ASSERT of every Signal in a Broadcast holds, though the thread may  *)
(* have lost the CPU after each of them.                                   *)
BroadcastHoldsLock ==
    \A t \in Thread : pc[t] = "B" => lockHolder[CondLock[arg[t]]] = t

(* No signal is lost and no waiter is freed too early: a thread in Wait is *)
(* either still on the wait queue, its semaphore untouched, or has been    *)
(* signalled exactly once; a semaphore outside Wait is idle, so deleting   *)
(* it frees nobody's sleeper.                                              *)
WaitersOK ==
    \A t \in Thread :
        LET waiting == {c \in Condition : t \in Range(waitQueue[c])}
        IN  IF pc[t] = "W"
              THEN \/ value[t] = 0 /\ waiting # {}
                   \/ value[t] = 1 /\ waiting = {}
              ELSE value[t] = 0 /\ waiting = {} /\ queue[t] = << >>

(* The queues of semaphores and conditions hold exactly the threads that   *)
(* wait there, so V and Signal reach each of them once.                    *)
QueuesSafe == QueueExact /\ WaitersOK /\ BroadcastHoldsLock

(* Semaphores, locks and conditions use the scheduler as module Threads    *)
(* says its callers do.  V hands the scheduler whatever is first in its    *)
(* queue; that this is always a BLOCKED thread that is not finishing is    *)
(* what makes all that is shown there hold of the scheduler under          *)
(* synch.cc.                                                               *)
ThreadsContract == Spec

-----------------------------------------------------------------------------
(* What the callers of locks and conditions see is a Mesa monitor.  A      *)
(* thread is inside a lock from the P of its Acquire on, and a waiter is   *)
(* signalled from the V of the Signal on.                                  *)
holderOf == [l \in Lock |-> IF Inside(l) = {} THEN NULL
                           ELSE CHOOSE t \in Inside(l) : TRUE]
waitingFor == [c \in Condition |-> Range(waitQueue[c])]
reentering == [l \in Lock |->
    {t \in Thread : /\ pc[t] \in {"W", "WA"} /\ arg[t] = l
                    /\ \A c \in Condition : t \notin Range(waitQueue[c])}]

Mesa == INSTANCE Monitor WITH holder <- holderOf, waiting <- waitingFor,
                              signalled <- reentering

(* Locks and condition variables implement the monitor. *)
MesaMonitor == Mesa!MonitorSpec
=============================================================================
