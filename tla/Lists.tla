------------------------------- MODULE Lists -------------------------------
(***************************************************************************)
(* The singly linked lists of lib/list.cc: List, SortedList and            *)
(* ListIterator, pointers and all, as operators on list objects.           *)
(*                                                                         *)
(* Append, Prepend and Insert ASSERT that the item is not in the list, so  *)
(* an item stands for its ListElement: next[x] is the next of the element  *)
(* that holds x, and DOMAIN next the elements that have been allocated and *)
(* not deleted.  Following a pointer to a deleted element is an error TLC  *)
(* reports.                                                                *)
(***************************************************************************)
EXTENDS Naturals, Sequences, SequencesExt, FiniteSets, TLC

CONSTANT NULL

(* List::List. *)
EmptyList == [first |-> NULL, last |-> NULL, numInList |-> 0, next |-> << >>]

IsEmpty(l) == l.numInList = 0
ListFront(l) == l.first

(* The pointers a ListIterator, or a loop over ptr->next, goes through, up *)
(* to the NULL where it stops.                                             *)
Pointers(l) ==
    LET ptr[i \in 1 .. Cardinality(DOMAIN l.next) + 1] ==
            IF i = 1 THEN l.first
            ELSE IF ptr[i - 1] = NULL THEN NULL ELSE l.next[ptr[i - 1]]
    IN  ptr

(* The elements behind them. *)
Elements(l) ==
    LET ptr == Pointers(l)
    IN  [i \in 1 .. Cardinality({k \in DOMAIN ptr : ptr[k] # NULL}) |-> ptr[i]]

IsInList(l, x) == x \in ToSet(Elements(l))

(* A new ListElement for x, and one that is deleted. *)
Allocated(next, x, succ) ==
    [y \in DOMAIN next \cup {x} |-> IF y = x THEN succ ELSE next[y]]
Deleted(next, x) == [y \in DOMAIN next \ {x} |-> next[y]]

(* Mutant: the new element is linked but last keeps pointing to the old. *)
ListAppendLast(l, x) ==
    [first |-> IF IsEmpty(l) THEN x ELSE l.first,
     last |-> IF IsEmpty(l) THEN x ELSE l.last,
     numInList |-> l.numInList + 1,
     next |-> Allocated(IF IsEmpty(l) THEN l.next ELSE [l.next EXCEPT ![l.last] = x], x, NULL)]

(* List::Append, for an x that is not in the list. *)
ListAppend(l, x) ==
    [first |-> IF IsEmpty(l) THEN x ELSE l.first,
     last |-> x,
     numInList |-> l.numInList + 1,
     next |-> Allocated(IF IsEmpty(l) THEN l.next ELSE [l.next EXCEPT ![l.last] = x], x, NULL)]

(* List::Prepend. *)
ListPrepend(l, x) ==
    [first |-> x,
     last |-> IF IsEmpty(l) THEN x ELSE l.last,
     numInList |-> l.numInList + 1,
     next |-> Allocated(l.next, x, l.first)]

(* List::RemoveFront, what it leaves; it returns ListFront(l). *)
RemoveFront(l) ==
    [first |-> IF l.first = l.last THEN NULL ELSE l.next[l.first],
     last |-> IF l.first = l.last THEN NULL ELSE l.last,
     numInList |-> l.numInList - 1,
     next |-> Deleted(l.next, l.first)]

(* List::Remove, for an x that is in the list. *)
ListRemove(l, x) ==
    IF x = l.first THEN RemoveFront(l)
    ELSE LET prev == CHOOSE p \in DOMAIN l.next : l.next[p] = x
         IN  [first |-> l.first,
              last |-> IF l.next[x] = NULL THEN prev ELSE l.last,
              numInList |-> l.numInList - 1,
              next |-> Deleted([l.next EXCEPT ![prev] = l.next[x]], x)]

(* SortedList::Insert, with a compare that looks at key[x] of an item x:   *)
(* x goes in front of the first element that is bigger, that is behind     *)
(* those that compare as equal.                                            *)
Insert(l, x, key) ==
    IF IsEmpty(l) \/ key[x] < key[l.first] THEN ListPrepend(l, x)
    ELSE LET e   == Elements(l)
             ptr == e[Min({i \in DOMAIN e : l.next[e[i]] = NULL \/ key[x] < key[l.next[e[i]]]})]
         IN  IF l.next[ptr] = NULL THEN ListAppend(l, x)
             ELSE [first |-> l.first,
                   last |-> l.last,
                   numInList |-> l.numInList + 1,
                   next |-> Allocated([l.next EXCEPT ![ptr] = x], x, l.next[ptr])]

(* List::SanityCheck. *)
SanityCheck(l) ==
    LET e == Elements(l) IN
    CASE l.first = NULL -> l.numInList = 0 /\ l.last = NULL
      [] l.first # NULL /\ l.first = l.last ->
           l.numInList = 1 /\ l.next[l.last] = NULL
      [] OTHER ->
           /\ l.numInList <= Len(e)
           /\ e[l.numInList] = l.last
           /\ l.next[l.last] = NULL

(* SortedList::SanityCheck. *)
SortedSanityCheck(l, key) ==
    LET e == Elements(l)
    IN  SanityCheck(l) /\ \A i \in 1 .. Len(e) - 1 : key[e[i]] <= key[e[i + 1]]

(* List::SelfTest on the values p, all different: TRUE if no ASSERT fails. *)
ListSelfTest(p) ==
    LET appended == FoldLeft(ListAppend, EmptyList, p)
        removed[i \in 0 .. Len(p)] ==
            IF i = 0 THEN appended ELSE ListRemove(removed[i - 1], p[i])
    IN  /\ SanityCheck(EmptyList) /\ Elements(EmptyList) = << >>
        /\ \A i \in DOMAIN p : IsInList(appended, p[i])
        /\ SanityCheck(appended)
        /\ \A i \in DOMAIN p : ~IsInList(removed[i], p[i])
        /\ IsEmpty(removed[Len(p)]) /\ SanityCheck(removed[Len(p)])

(* SortedList::SelfTest, which begins with that of List. *)
SortedSelfTest(p, key) ==
    LET inserted == FoldLeft(LAMBDA l, x : Insert(l, x, key), EmptyList, p)
        removed[i \in 0 .. Len(p)] ==
            IF i = 0 THEN inserted ELSE RemoveFront(removed[i - 1])
        q(i) == ListFront(removed[i - 1])
    IN  /\ ListSelfTest(p)
        /\ \A i \in DOMAIN p : IsInList(inserted, p[i])
        /\ SortedSanityCheck(inserted, key)
        /\ \A i \in DOMAIN p : ~IsInList(removed[i], q(i))
        /\ \A i \in 1 .. Len(p) - 1 : key[q(i)] <= key[q(i + 1)]
        /\ IsEmpty(removed[Len(p)]) /\ SanityCheck(removed[Len(p)])
=============================================================================
