----------------------------- MODULE Interrupts -----------------------------
(***************************************************************************)
(* Simulated time (machine/interrupt.cc, machine/timer.cc, machine/stats.h *)
(* and threads/alarm.cc): the sorted list of pending interrupts, the ticks *)
(* that find the due ones, the idle machine that jumps to the next one,    *)
(* and the timer that schedules itself again.                              *)
(*                                                                         *)
(* Module Threads lets an interrupt come at any tick; here is what decides *)
(* which.  One thread has the CPU: it enables and disables interrupts,     *)
(* executes user instructions, starts devices, and sleeps.  Each call of a *)
(* handler is a step.  A device has at most one interrupt pending, which   *)
(* the modules of the devices check.                                       *)
(***************************************************************************)
EXTENDS Lists

CONSTANTS
    Device,      \* the devices besides the timer
    Polling,     \* those that may schedule themselves again in CallBack
    Latency,     \* Latency[d]: how long device d may take
    UserTick, SystemTick, TimerTicks,   \* stats.h
    MaxTicks     \* bound: the clock stops when it has got here

ASSUME InterruptAssumption ==
    /\ Polling \subseteq Device /\ "timer" \notin Device
    /\ \A d \in Device : Latency[d] \subseteq Nat \ {0}
    /\ {UserTick, SystemTick, TimerTicks} \subseteq Nat \ {0} /\ UserTick <= SystemTick

(* class PendingInterrupt. *)
PendingInterrupt == [call : Device \cup {"timer"}, when : Nat]

ASSUME NullIsNoInterrupt == NULL \notin PendingInterrupt

VARIABLES
    level, pending, inHandler, yieldOnReturn, status,   \* class Interrupt
    stats,       \* class Statistics: the four counters of ticks
    randomize,   \* class Timer
    pc,          \* where the CPU is: in a thread ("run"), in the loop of
                 \* CheckIfDue ("due"), in OneTick or Idle behind it ("ticked",
                 \* "idled"), in Yield, in the loop of Sleep ("idle")
    oldStatus,   \* the status OneTick puts back; NULL outside of OneTick
    waitFor,     \* the device the thread sleeps for
    fired        \* history: the last handler called, and when

intVars == << level, inHandler, yieldOnReturn, status, oldStatus >>
vars == << intVars, pending, stats, randomize, pc, waitFor, fired >>

Now == stats.totalTicks

(* What PendingCompare compares. *)
When(S) == [p \in S |-> p.when]

(* Interrupt::Schedule. *)
Schedule(list, d, fromNow) ==
    LET p == [call |-> d, when |-> Now + fromNow]
    IN  Insert(list, p, When({p} \cup DOMAIN list.next))

(* The delays Timer::SetInterrupt chooses from. *)
TimerDelay == IF randomize THEN 1 .. 2 * TimerTicks ELSE {TimerTicks}

(* The constructors of Interrupt, Statistics, Timer and Alarm; interrupts  *)
(* are off until Kernel::Initialize enables them.                          *)
StatisticsInit ==
    stats = [totalTicks |-> 0, idleTicks |-> 0, systemTicks |-> 0, userTicks |-> 0]
InterruptInit ==
    /\ level = "IntOff" /\ inHandler = FALSE /\ yieldOnReturn = FALSE
    /\ status = "SystemMode"
TimerInit ==
    /\ randomize \in BOOLEAN
    /\ \E delay \in TimerDelay : pending = Schedule(EmptyList, "timer", delay)

Init ==
    /\ StatisticsInit /\ InterruptInit /\ TimerInit
    /\ oldStatus = NULL
    /\ pc = "run" /\ waitFor = NULL
    /\ fired = [call |-> NULL, when |-> 0, at |-> 0]

-----------------------------------------------------------------------------
(* CheckIfDue, up to its loop: is there a handler to call at time t?       *)
IsDue(t) == ~IsEmpty(pending) /\ ListFront(pending).when <= t

(* OneTick up to the loop over the handlers, in the status st. *)
OneTick(st) ==
    LET ticks == IF st = "SystemMode" THEN SystemTick ELSE UserTick
        kind  == IF st = "SystemMode" THEN "systemTicks" ELSE "userTicks"
    IN  /\ Now < MaxTicks
        /\ stats' = [stats EXCEPT !.totalTicks = @ + ticks, ![kind] = @ + ticks]
        /\ status' = st
        /\ oldStatus' = IF oldStatus = NULL THEN st ELSE oldStatus
        /\ level' = "IntOff"
        /\ inHandler' = IsDue(Now + ticks)
        /\ pc' = IF IsDue(Now + ticks) THEN "due" ELSE "ticked"
        /\ UNCHANGED << pending, yieldOnReturn, randomize, waitFor, fired >>

(* Interrupt::SetLevel: enabling interrupts takes a tick. *)
Enable ==
    /\ pc = "run" /\ status = "SystemMode" /\ level = "IntOff"
    /\ OneTick("SystemMode")

Disable ==
    /\ pc = "run" /\ status = "SystemMode" /\ level = "IntOn"
    /\ level' = "IntOff"
    /\ UNCHANGED << inHandler, yieldOnReturn, status, oldStatus, pending, stats, randomize,
                    pc, waitFor, fired >>

(* The loop of Machine::Run: an instruction, which may have been a system  *)
(* call, and then OneTick.                                                 *)
Instruction ==
    /\ pc = "run" /\ level = "IntOn"
    /\ OneTick("UserMode")

(* RaiseException. *)
Trap ==
    /\ pc = "run" /\ status = "UserMode"
    /\ status' = "SystemMode"
    /\ UNCHANGED << level, inHandler, yieldOnReturn, oldStatus, pending, stats, randomize,
                    pc, waitFor, fired >>

IsPending(d) == \E p \in DOMAIN pending.next : p.call = d

(* The kernel starts a device. *)
Request(d) ==
    /\ pc = "run" /\ status = "SystemMode" /\ ~IsPending(d)
    /\ \E latency \in Latency[d] : pending' = Schedule(pending, d, latency)
    /\ UNCHANGED << intVars, stats, randomize, pc, waitFor, fired >>

-----------------------------------------------------------------------------
(* Mutant: the loop ends after one handler. *)
MoreDueOnce(list) == FALSE

(* The condition of the loop of CheckIfDue. *)
MoreDue(list) == ~IsEmpty(list) /\ ListFront(list).when <= Now

(* The part of the loop all handlers share: rest is the list afterwards.   *)
Fire(p, rest) ==
    /\ pc = "due" /\ p = ListFront(pending)
    /\ pending' = rest
    /\ fired' = [call |-> p.call, when |-> p.when, at |-> Now]
    /\ inHandler' = MoreDue(rest)
    /\ pc' = IF MoreDue(rest) THEN "due"
             ELSE IF status = "IdleMode" THEN "idled" ELSE "ticked"
    /\ UNCHANGED << level, status, oldStatus, stats, randomize >>

(* Interrupt::YieldOnReturn, as Alarm::CallBack calls it. *)
YieldOnReturn == yieldOnReturn' = (yieldOnReturn \/ status # "IdleMode")

(* Timer::CallBack: Alarm::CallBack, then SetInterrupt. *)
TimerCallBack ==
    \E delay \in TimerDelay :
       /\ LET p == ListFront(pending)
          IN  p.call = "timer" /\ Fire(p, Schedule(RemoveFront(pending), "timer", delay))
       /\ YieldOnReturn
       /\ UNCHANGED waitFor

(* The CallBack of a device that is done: the thread waiting for it wakes. *)
DeviceCallBack ==
    /\ LET p == ListFront(pending)
       IN  /\ p.call # "timer"
           /\ Fire(p, RemoveFront(pending))
           /\ waitFor' = IF waitFor = p.call THEN NULL ELSE waitFor
    /\ UNCHANGED yieldOnReturn

(* ... of one that found nothing and looks again later (ConsoleInput and   *)
(* NetworkInput).                                                          *)
PollAgain ==
    LET p == ListFront(pending)
    IN  /\ p.call \in Polling
        /\ \E latency \in Latency[p.call] :
              Fire(p, Schedule(RemoveFront(pending), p.call, latency))
        /\ UNCHANGED << yieldOnReturn, waitFor >>

-----------------------------------------------------------------------------
(* Mutant: the flag stays set. *)
AfterTickKept ==
    /\ pc = "ticked"
    /\ level' = "IntOn"
    /\ yieldOnReturn' = yieldOnReturn
    /\ pc' = IF yieldOnReturn THEN "yield" ELSE "run"
    /\ status' = IF yieldOnReturn THEN "SystemMode" ELSE oldStatus
    /\ oldStatus' = IF yieldOnReturn THEN oldStatus ELSE NULL
    /\ UNCHANGED << inHandler, pending, stats, randomize, waitFor, fired >>

(* The rest of OneTick.  A Yield ends by enabling interrupts, which is a   *)
(* OneTick inside this one; when the inner ones return, this one puts back *)
(* the status the outermost found.                                         *)
AfterTick ==
    /\ pc = "ticked"
    /\ level' = "IntOn"
    /\ yieldOnReturn' = FALSE
    /\ pc' = IF yieldOnReturn THEN "yield" ELSE "run"
    /\ status' = IF yieldOnReturn THEN "SystemMode" ELSE oldStatus
    /\ oldStatus' = IF yieldOnReturn THEN oldStatus ELSE NULL
    /\ UNCHANGED << inHandler, pending, stats, randomize, waitFor, fired >>

Yield == pc = "yield" /\ OneTick("SystemMode")

(* Thread::Sleep with nobody else ready; "never" is a sleep no device ends. *)
Sleep(d) ==
    /\ pc = "run" /\ status = "SystemMode" /\ level = "IntOff"
    /\ d = "never" \/ IsPending(d)
    /\ waitFor' = d
    /\ pc' = "idle"
    /\ UNCHANGED << intVars, pending, stats, randomize, fired >>

(* Mutant: the clock is not advanced to the next interrupt. *)
IdleStays ==
    /\ pc = "idle" /\ Now < MaxTicks
    /\ status' = "IdleMode"
    /\ inHandler' = IsDue(Now)
    /\ pc' = IF IsDue(Now) THEN "due" ELSE "idled"
    /\ UNCHANGED << level, yieldOnReturn, oldStatus, pending, stats, randomize, waitFor, fired >>

(* Interrupt::Idle up to the loop of CheckIfDue, which advances the clock. *)
Idle ==
    /\ pc = "idle" /\ Now < MaxTicks
    /\ ~IsEmpty(pending)
    /\ LET ticks == IF IsDue(Now) THEN 0 ELSE ListFront(pending).when - Now
       IN  stats' = [stats EXCEPT !.totalTicks = @ + ticks, !.idleTicks = @ + ticks]
    /\ status' = "IdleMode"
    /\ inHandler' = TRUE
    /\ pc' = "due"
    /\ UNCHANGED << level, yieldOnReturn, oldStatus, pending, randomize, waitFor, fired >>

(* "No threads ready or runnable, and no pending interrupts." *)
NothingPending == pc = "idle" /\ IsEmpty(pending)

(* The return from Idle to the loop of Sleep, and from there, if a thread  *)
(* is ready now, to that thread.                                           *)
Idled ==
    /\ pc = "idled"
    /\ status' = "SystemMode"
    /\ pc' = IF waitFor = NULL THEN "run" ELSE "idle"
    /\ UNCHANGED << level, inHandler, yieldOnReturn, oldStatus, pending, stats, randomize,
                    waitFor, fired >>

Next ==
    \/ Enable \/ Disable \/ Instruction \/ Trap \/ AfterTick \/ Yield \/ Idle \/ Idled
    \/ TimerCallBack \/ DeviceCallBack \/ PollAgain
    \/ \E d \in Device : Request(d)
    \/ \E d \in Device \cup {"never"} : Sleep(d)

Spec == Init /\ [][Next]_vars

(* The simulation goes on; every thread that does not stop takes ticks. *)
FairSpec == Spec /\ WF_vars(Next)

-----------------------------------------------------------------------------
(* Time is kept and no interrupt is missed: the list is sound and sorted;  *)
(* between the calls of CheckIfDue nothing in it is due, although handlers *)
(* schedule while it runs; handlers are called in the order of their       *)
(* times, each at its time or, as a tick of the kernel is coarse, less     *)
(* than a SystemTick later; the counters account for all the time; and     *)
(* handlers run with interrupts off.                                       *)
OnTime ==
    /\ SortedSanityCheck(pending, When(DOMAIN pending.next))
    /\ pc # "due" => \A p \in DOMAIN pending.next : p.when > Now
    /\ \A p \in DOMAIN pending.next : p.when >= fired.when
    /\ fired.at - fired.when \in 0 .. SystemTick - 1
    /\ Now = stats.idleTicks + stats.systemTicks + stats.userTicks
    /\ inHandler <=> pc = "due"
    /\ inHandler => level = "IntOff"

(* The timer never stops: it is always pending, so that an idle machine    *)
(* has a next interrupt and does not halt, and a time slice that ends      *)
(* makes the thread yield in the very tick that ended it, never later and  *)
(* never because of a tick the machine idled through.                      *)
TimeSlices ==
    /\ IsPending("timer") /\ ~NothingPending
    /\ yieldOnReturn => pc \in {"due", "ticked"} /\ status # "IdleMode"
    /\ pc = "run" => oldStatus = NULL

(* Every interrupt that is scheduled for a time before the bound of the    *)
(* clock is called: none is lost from the list, the loop of CheckIfDue     *)
(* ends although handlers schedule again in it, and the ticks and the idle *)
(* loop reach its time.  A device has at most one interrupt pending.       *)
InterruptsCome ==
    \A d \in Device \cup {"timer"} :
       LET Timely(p) == p.call = d /\ p.when < MaxTicks
       IN  (\E p \in DOMAIN pending.next : Timely(p))
              ~> pc = "due" /\ Timely(ListFront(pending))
=============================================================================
