----------------------------- MODULE SynchList -----------------------------
(***************************************************************************)
(* Lists shared between threads (threads/synchlist.cc): Append adds an     *)
(* item and signals a waiter, RemoveFront waits until there is one.  The   *)
(* lock and the condition are used by their contract, module Monitor: Wait *)
(* gives up the lock and starts to wait in one step, and a signalled       *)
(* waiter has to compete for the lock again, so the list may be empty once *)
(* more when it gets there.  The lists inside are the linked lists of      *)
(* module Lists.  Next to the lists are the semaphores that the thread     *)
(* self test uses (Kernel::ThreadSelfTest), by their contract too: all     *)
(* that P and V do to one is done with interrupts off.  Module Synch shows *)
(* that the code keeps both contracts.  The specification has names of its *)
(* own, so that ListsProofs can extend this module next to Interrupts.     *)
(***************************************************************************)
EXTENDS Lists

CONSTANTS
    List,
    Semaphore,
    Thread,
    Program,    \* what each thread does, a sequence of operations
    Forked,     \* the threads that another one forks
    TestRounds  \* bound: the rounds of a self test, 10 in the code, 5 of SimpleThread

Operation ==
    [op : {"append"}, of : List]
      \cup [op : {"remove"}, of : List]
      \cup [op : {"forward"}, of : List]   \* append what was removed last
      \cup [op : {"apply"}, of : List]
      \cup [op : {"P", "V"}, of : Semaphore]
      \cup [op : {"fork"}, of : Forked]
      \cup [op : {"yield"}, of : {NULL}]
      \cup [op : {"delete"}, of : List \cup Semaphore]

(* Items: which operation of which thread made them. *)
Item == Thread \X Nat

(* A program forwards what the operation just before it took out of a      *)
(* list: List::Append ASSERTs that an item is in a list once.              *)
ProgramsAllowed ==
    /\ \A t \in Thread : Program[t] \in Seq(Operation)
    /\ \A t \in Thread : \A i \in 1 .. Len(Program[t]) :
          Program[t][i].op = "forward" => i > 1 /\ Program[t][i - 1].op = "remove"
    /\ IsFiniteSet(Thread) /\ Forked \subseteq Thread
    /\ NULL \notin Item

ASSUME ListPrograms == ProgramsAllowed /\ TestRounds \in Nat

VARIABLES
    list,        \* the linked list inside each SynchList
    holder,      \* the thread inside the lock of each list
    listEmpty,   \* the waiters of the condition of each list
    ip, at,      \* the operation a thread is at, and where in it
    item,        \* what it removed last
    value,       \* of each semaphore
    started,     \* the threads that run: not forked, or forked by now
    deleted,     \* the lists and semaphores that are gone
    appended, removed    \* history, for each list

listVars == << list, appended, removed >>
testVars == << value, started, deleted >>
synchListVars == << listVars, testVars, holder, listEmpty, ip, at, item >>

SynchListTypeOK ==
    /\ \A l \in List : Elements(list[l]) \in Seq(Item)
    /\ holder \in [List -> Thread \cup {NULL}]
    /\ listEmpty \in [List -> Seq(Thread)]
    /\ ip \in [Thread -> Nat \ {0}]
    /\ at \in [Thread -> {"acquire", "inside", "waiting", "woken", "leave"}]
    /\ item \in [Thread -> Item \cup {NULL}]
    /\ value \in [Semaphore -> Nat]
    /\ started \in SUBSET Thread
    /\ deleted \in SUBSET (List \cup Semaphore)
    /\ appended \in [List -> Seq(Item)]
    /\ removed \in [List -> Seq(Item)]

SynchListInit ==
    /\ list = [l \in List |-> EmptyList]
    /\ holder = [l \in List |-> NULL]
    /\ listEmpty = [l \in List |-> << >>]
    /\ ip = [t \in Thread |-> 1]
    /\ at = [t \in Thread |-> "acquire"]
    /\ item = [t \in Thread |-> NULL]
    /\ value = [s \in Semaphore |-> 0]
    /\ started = Thread \ Forked
    /\ deleted = {}
    /\ appended = [l \in List |-> << >>]
    /\ removed = [l \in List |-> << >>]

Do(op, o) == [op |-> op, of |-> o]
Rounds(n, first, second) ==
    [i \in 1 .. 2 * n |-> IF i % 2 = 1 THEN first ELSE second]

(* Thread::SelfTest and the thread it forks: rounds of Yield, which only   *)
(* lets another thread run.                                                *)
SimpleThread == [i \in 1 .. TestRounds |-> Do("yield", NULL)]
SelfTestThread == << Do("fork", "forked"), Do("yield", NULL) >> \o SimpleThread

(* Semaphore::SelfTest and its helper: "sping" is ping, "test" the         *)
(* semaphore under test.                                                   *)
SelfTestSemaphore ==
    << Do("fork", "pong") >> \o Rounds(TestRounds, Do("V", "sping"), Do("P", "test"))
      \o << Do("delete", "sping") >>
SelfTestSemaphoreHelper == Rounds(TestRounds, Do("P", "sping"), Do("V", "test"))

(* SynchList::SelfTest and its helper: "ping" is selfTestPing, "this" the  *)
(* list under test.                                                        *)
SelfTest ==
    << Do("fork", "helper") >> \o Rounds(TestRounds, Do("append", "ping"), Do("remove", "this"))
      \o << Do("delete", "ping") >>
SelfTestHelper == Rounds(TestRounds, Do("remove", "ping"), Do("forward", "this"))

(* Kernel::ThreadSelfTest; LibSelfTest is in module Containers. *)
ThreadSelfTest ==
    SelfTestThread
      \o SelfTestSemaphore \o << Do("delete", "test") >>
      \o SelfTest \o << Do("delete", "this") >>

Running(t) == t \in started /\ ip[t] <= Len(Program[t])
Op(t) == Program[t][ip[t]].op
Of(t) == Program[t][ip[t]].of
ListOps == {"append", "remove", "forward", "apply"}

-----------------------------------------------------------------------------
(* Mutant: a woken waiter goes on without the lock. *)
AcquireUnlessWoken(t) ==
    /\ Running(t) /\ Op(t) \in ListOps /\ at[t] \in {"acquire", "woken"}
    /\ at[t] = "woken" \/ holder[Of(t)] = NULL
    /\ holder' = [holder EXCEPT ![Of(t)] = t]
    /\ at' = [at EXCEPT ![t] = "inside"]
    /\ UNCHANGED << listVars, testVars, listEmpty, ip, item >>

(* lock->Acquire(), at the start of an operation or inside Wait. *)
Acquire(t) ==
    /\ Running(t) /\ Op(t) \in ListOps /\ at[t] \in {"acquire", "woken"}
    /\ holder[Of(t)] = NULL
    /\ holder' = [holder EXCEPT ![Of(t)] = t]
    /\ at' = [at EXCEPT ![t] = "inside"]
    /\ UNCHANGED << listVars, testVars, listEmpty, ip, item >>

(* Mutant: a signal without effect. *)
SignalledNobody(l) == {}

(* Condition::Signal wakes the first waiter, if there is one. *)
Signalled(l) == IF listEmpty[l] = << >> THEN {} ELSE {Head(listEmpty[l])}

(* The body of Append: list->Append, then listEmpty->Signal. *)
DoAppend(t) ==
    LET l == Of(t)
        new == IF Op(t) = "forward" THEN item[t] ELSE << t, ip[t] >>
    IN  /\ Running(t) /\ at[t] = "inside" /\ Op(t) \in {"append", "forward"}
        /\ list' = [list EXCEPT ![l] = ListAppend(@, new)]
        /\ appended' = [appended EXCEPT ![l] = Append(@, new)]
        /\ listEmpty' = [listEmpty EXCEPT ![l] = IF Signalled(l) = {} THEN @ ELSE Tail(@)]
        /\ at' = [u \in Thread |-> IF u = t THEN "leave"
                                   ELSE IF u \in Signalled(l) THEN "woken" ELSE at[u]]
        /\ UNCHANGED << testVars, holder, ip, item, removed >>

(* RemoveFront: while (list->IsEmpty()) listEmpty->Wait(lock). *)
Wait(t) ==
    LET l == Of(t)
    IN  /\ Running(t) /\ at[t] = "inside" /\ Op(t) = "remove"
        /\ IsEmpty(list[l])
        /\ holder' = [holder EXCEPT ![l] = NULL]
        /\ listEmpty' = [listEmpty EXCEPT ![l] = Append(@, t)]
        /\ at' = [at EXCEPT ![t] = "waiting"]
        /\ UNCHANGED << listVars, testVars, ip, item >>

(* ... item = list->RemoveFront(). *)
DoRemove(t) ==
    LET l == Of(t)
    IN  /\ Running(t) /\ at[t] = "inside" /\ Op(t) = "remove"
        /\ ~IsEmpty(list[l])
        /\ item' = [item EXCEPT ![t] = ListFront(list[l])]
        /\ removed' = [removed EXCEPT ![l] = Append(@, ListFront(list[l]))]
        /\ list' = [list EXCEPT ![l] = RemoveFront(@)]
        /\ at' = [at EXCEPT ![t] = "leave"]
        /\ UNCHANGED << testVars, appended, holder, listEmpty, ip >>

(* Apply: the function sees the items, and leaves the list alone. *)
DoApply(t) ==
    /\ Running(t) /\ at[t] = "inside" /\ Op(t) = "apply"
    /\ at' = [at EXCEPT ![t] = "leave"]
    /\ UNCHANGED << listVars, testVars, holder, listEmpty, ip, item >>

(* lock->Release(), and the return. *)
Leave(t) ==
    /\ at[t] = "leave"
    /\ holder' = [holder EXCEPT ![Of(t)] = NULL]
    /\ at' = [at EXCEPT ![t] = "acquire"]
    /\ ip' = [ip EXCEPT ![t] = @ + 1]
    /\ UNCHANGED << listVars, testVars, listEmpty, item >>

(* Semaphore::P, for the caller that finds value above 0, and V. *)
SemaphoreOp(t) ==
    /\ Running(t) /\ Op(t) \in {"P", "V"}
    /\ Op(t) = "P" => value[Of(t)] > 0
    /\ value' = [value EXCEPT ![Of(t)] = IF Op(t) = "P" THEN @ - 1 ELSE @ + 1]
    /\ ip' = [ip EXCEPT ![t] = @ + 1]
    /\ UNCHANGED << listVars, started, deleted, holder, listEmpty, at, item >>

(* Thread::Fork, Thread::Yield and delete. *)
ThreadOp(t) ==
    /\ Running(t) /\ Op(t) \in {"fork", "yield", "delete"}
    /\ started' = started \cup (IF Op(t) = "fork" THEN {Of(t)} ELSE {})
    /\ deleted' = deleted \cup (IF Op(t) = "delete" THEN {Of(t)} ELSE {})
    /\ ip' = [ip EXCEPT ![t] = @ + 1]
    /\ UNCHANGED << listVars, value, holder, listEmpty, at, item >>

Step(t) == Acquire(t) \/ DoAppend(t) \/ Wait(t) \/ DoRemove(t)
           \/ DoApply(t) \/ Leave(t) \/ SemaphoreOp(t) \/ ThreadOp(t)
SynchListNext == \E t \in Thread : Step(t)
SynchListSpec == SynchListInit /\ [][SynchListNext]_synchListVars

(* A ready thread runs again. *)
FairSynchListSpec == SynchListSpec /\ \A t \in Thread : WF_synchListVars(Step(t))

-----------------------------------------------------------------------------
(* The threads on their way to an item of l: woken, or already inside.     *)
Coming(l) == {t \in Thread : /\ Running(t) /\ Op(t) = "remove" /\ Of(t) = l
                             /\ at[t] \in {"woken", "inside"}}

(* Each list is first in, first out: no item is lost, taken twice or       *)
(* overtaken, whatever threads work on it, and its pointers stay sound.    *)
(* Nor does one lie there unnoticed: as long as a thread waits, there are  *)
(* as many others on their way as there are items.                         *)
FirstInFirstOut ==
    \A l \in List :
        /\ appended[l] = removed[l] \o Elements(list[l])
        /\ SanityCheck(list[l])
        /\ listEmpty[l] # << >> => list[l].numInList <= Cardinality(Coming(l))

(* A signal is not lost and a wake-up for an item that is gone is waited   *)
(* out: if nobody waits for more than is appended, every thread finishes.  *)
ProgramsFinish == <>(\A t \in Thread : t \in started /\ ~Running(t))

(* The self tests delete the semaphores and lists they used as soon as     *)
(* their own last P or RemoveFront returns (synch.cc:147, synchlist.cc:129,*)
(* kernel.cc:154 and 160): the helper is not still in, or on its way to,   *)
(* an operation on one of them, and nothing is left in a list.             *)
SafeToDelete ==
    \A o \in deleted :
        /\ \A t \in Thread : \A i \in ip[t] .. Len(Program[t]) : Program[t][i].of # o
        /\ o \in List => holder[o] = NULL /\ listEmpty[o] = << >> /\ IsEmpty(list[o])
=============================================================================
