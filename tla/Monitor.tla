------------------------------ MODULE Monitor ------------------------------
(***************************************************************************)
(* What locks and Mesa-style condition variables promise their callers,    *)
(* with no scheduler, no semaphore and no queue: a lock has at most one    *)
(* holder, Wait gives up the lock and starts waiting in one step, Signal   *)
(* releases one waiter, and a released waiter competes for the lock like   *)
(* everyone else.                                                          *)
(***************************************************************************)
CONSTANTS Thread, Lock, Condition, CondLock, NULL

VARIABLES
    holder,    \* the thread inside each lock, or NULL
    waiting,   \* the threads waiting for each condition
    signalled  \* for each lock, the waiters that must re-enter it

monitorVars == << holder, waiting, signalled >>

MonitorInit ==
    /\ holder = [l \in Lock |-> NULL]
    /\ waiting = [c \in Condition |-> {}]
    /\ signalled = [l \in Lock |-> {}]

(* A thread that waits, or has to come back from Wait, can do nothing else.*)
Free(t) == /\ \A c \in Condition : t \notin waiting[c]
           /\ \A l \in Lock : t \notin signalled[l]

Enter(t, l) ==
    /\ holder[l] = NULL
    /\ Free(t) \/ t \in signalled[l]
    /\ holder' = [holder EXCEPT ![l] = t]
    /\ signalled' = [signalled EXCEPT ![l] = @ \ {t}]
    /\ UNCHANGED waiting

Leave(t, l) ==
    /\ Free(t)
    /\ holder[l] = t
    /\ holder' = [holder EXCEPT ![l] = NULL]
    /\ UNCHANGED << waiting, signalled >>

WaitFor(t, c) ==
    /\ Free(t)
    /\ holder[CondLock[c]] = t
    /\ holder' = [holder EXCEPT ![CondLock[c]] = NULL]
    /\ waiting' = [waiting EXCEPT ![c] = @ \cup {t}]
    /\ UNCHANGED signalled

Notify(t, c) ==
    /\ holder[CondLock[c]] = t
    /\ \E u \in waiting[c] :
         /\ waiting' = [waiting EXCEPT ![c] = @ \ {u}]
         /\ signalled' = [signalled EXCEPT ![CondLock[c]] = @ \cup {u}]
    /\ UNCHANGED holder

MonitorNext ==
    \E t \in Thread :
        \/ \E l \in Lock : Enter(t, l) \/ Leave(t, l)
        \/ \E c \in Condition : WaitFor(t, c) \/ Notify(t, c)

MonitorSpec == MonitorInit /\ [][MonitorNext]_monitorVars
=============================================================================
