---------------------------- MODULE ListsProofs ----------------------------
(***************************************************************************)
(* Proofs about the linked lists of list.cc and the two components that    *)
(* keep their state in them: the pending interrupts of module Interrupts   *)
(* and the synchronised lists of module SynchList.                         *)
(*                                                                         *)
(* Lists of any length come first.  InOrder says that following the        *)
(* pointers of l visits the elements e[1], ..., e[n] and that these are    *)
(* all there are; each operation is shown to turn a list in one order into *)
(* a list in another.                                                      *)
(*                                                                         *)
(* Then Interrupts, for any devices, latencies and lengths of the ticks:   *)
(* the list of pending interrupts stays sorted and its pointers sound, no  *)
(* interrupt is missed or comes late, and the timer never stops.  Agenda   *)
(* is what Schedule and RemoveFront preserve, by the lemmas about lists;   *)
(* the actions need no more of the list than that its front is due first.  *)
(*                                                                         *)
(* Last SynchList, for any lists, threads and programs.                    *)
(***************************************************************************)
EXTENDS Interrupts, SynchList, FiniteSetTheorems, SequenceTheorems, WellFoundedInduction,
        TLAPS

InOrder(l, e, n) ==
    /\ n \in Nat /\ e \in [1..n -> DOMAIN l.next]
    /\ \A x \in DOMAIN l.next : x # NULL /\ \E i \in 1..n : e[i] = x
    /\ \A i, j \in 1..n : e[i] = e[j] => i = j
    /\ l.numInList = n
    /\ l.first = IF n = 0 THEN NULL ELSE e[1]
    /\ l.last = IF n = 0 THEN NULL ELSE e[n]
    /\ \A i \in 1..n : l.next[e[i]] = IF i = n THEN NULL ELSE e[i + 1]

(* x behind the first k of the n elements of e. *)
Inserted(e, n, k, x) ==
    [i \in 1..(n + 1) |-> IF i <= k THEN e[i] ELSE IF i = k + 1 THEN x ELSE e[i - 1]]

-----------------------------------------------------------------------------
(* A set of numbers that is not empty has a least one. *)
LEMMA LeastOf ==
  ASSUME NEW S \in SUBSET Nat, S # {}
  PROVE  Min(S) \in S /\ \A y \in S : Min(S) <= y
  <1>1. \E x \in S : \A y \in S : ~(<< y, x >> \in OpToRel(<, Nat))
    BY NatLessThanWellFounded, WFMin
  <1>2. PICK x \in S : \A y \in S : << y, x >> \notin OpToRel(<, Nat)
    BY <1>1
  <1>3. \A y \in S : ~(y < x)
    BY <1>2, Zenon DEF OpToRel
  <1>4. \A y \in S : x <= y
    BY <1>3
  <1> QED  BY <1>4 DEF Min

(* An iterator visits the elements in order, each once, and stops. *)
LEMMA PointersInOrder ==
  ASSUME NEW l, NEW e, NEW n, InOrder(l, e, n)
  PROVE  /\ Cardinality(DOMAIN l.next) = n
         /\ Pointers(l) = [i \in 1..(n + 1) |-> IF i <= n THEN e[i] ELSE NULL]
  <1>1. n \in Nat /\ e \in [1..n -> DOMAIN l.next]
    BY DEF InOrder
  <1>2. Cardinality(DOMAIN l.next) = n
    <2>1. e \in Bijection(1..n, DOMAIN l.next)
      BY <1>1 DEF InOrder, Bijection, Injection, Surjection, IsInjective
    <2>2. ExistsBijection(1..n, DOMAIN l.next)
      BY <2>1 DEF ExistsBijection
    <2> QED  BY <1>1, <2>2, FS_CountingElements
  <1>3. PICK f : f = [i \in 1..(n + 1) |-> IF i <= n THEN e[i] ELSE NULL]
    OBVIOUS
  <1>4. f = [i \in 1..(n + 1) |->
               IF i = 1 THEN l.first ELSE IF f[i - 1] = NULL THEN NULL ELSE l.next[f[i - 1]]]
    <2>1. ASSUME NEW i \in 1..(n + 1)
          PROVE  f[i] = IF i = 1 THEN l.first
                        ELSE IF f[i - 1] = NULL THEN NULL ELSE l.next[f[i - 1]]
      <3>1. CASE i = 1
        BY <1>1, <1>3, <3>1 DEF InOrder
      <3>2. CASE i # 1
        <4>1. i - 1 \in 1..n /\ f[i - 1] = e[i - 1] /\ e[i - 1] \in DOMAIN l.next
          BY <1>1, <1>3, <3>2
        <4>2. f[i - 1] # NULL
          BY <4>1 DEF InOrder
        <4>3. l.next[e[i - 1]] = IF i - 1 = n THEN NULL ELSE e[(i - 1) + 1]
          BY <4>1 DEF InOrder
        <4> QED  BY <1>1, <1>3, <3>2, <4>1, <4>2, <4>3
      <3> QED  BY <3>1, <3>2
    <2> QED  BY <1>3, <2>1
  <1>5. PICK g : g = Pointers(l)
    OBVIOUS
  <1>6. g = [i \in 1..(n + 1) |->
               IF i = 1 THEN l.first ELSE IF g[i - 1] = NULL THEN NULL ELSE l.next[g[i - 1]]]
    BY <1>2, <1>4, <1>5, Zenon DEF Pointers
  <1>7. \A i \in 1..(n + 1) : g[i] = f[i]
    <2> DEFINE Wrong == {i \in 1..(n + 1) : g[i] # f[i]}
    <2> SUFFICES ASSUME Wrong # {} PROVE FALSE
      OBVIOUS
    <2>1. Wrong \in SUBSET Nat
      BY <1>1
    <2>2. PICK i \in Wrong : \A j \in Wrong : i <= j
      BY <2>1, LeastOf
    <2>3. i \in 1..(n + 1) /\ g[i] # f[i]
      OBVIOUS
    <2>4. i # 1
      BY <1>4, <1>6, <2>3
    <2>5. i - 1 \in 1..(n + 1) /\ i - 1 \notin Wrong
      BY <1>1, <2>2, <2>3, <2>4
    <2>6. g[i - 1] = f[i - 1]
      BY <2>5
    <2>7. g[i] = IF g[i - 1] = NULL THEN NULL ELSE l.next[g[i - 1]]
      BY <1>6, <2>3, <2>4, Zenon
    <2>8. f[i] = IF f[i - 1] = NULL THEN NULL ELSE l.next[f[i - 1]]
      BY <1>4, <2>3, <2>4, Zenon
    <2> QED  BY <2>3, <2>6, <2>7, <2>8, Zenon
  <1>8. DOMAIN g = 1..(n + 1) /\ g = [i \in DOMAIN g |-> g[i]]
    BY <1>6
  <1>9. g = [i \in 1..(n + 1) |-> IF i <= n THEN e[i] ELSE NULL]
    BY <1>3, <1>7, <1>8
  <1> QED  BY <1>2, <1>5, <1>9

LEMMA ElementsInOrder ==
  ASSUME NEW l, NEW e, NEW n, InOrder(l, e, n)
  PROVE  Elements(l) = e
  <1>1. n \in Nat /\ e \in [1..n -> DOMAIN l.next]
    BY DEF InOrder
  <1>2. PICK ptr : ptr = Pointers(l)
    OBVIOUS
  <1>3. ptr = [i \in 1..(n + 1) |-> IF i <= n THEN e[i] ELSE NULL]
    BY <1>2, PointersInOrder
  <1>4. \A i \in 1..n : e[i] # NULL
    BY <1>1 DEF InOrder
  <1>5. {k \in DOMAIN ptr : ptr[k] # NULL} = 1..n
    BY <1>1, <1>3, <1>4
  <1>6. Cardinality(1..n) = n
    BY <1>1, FS_Interval
  <1>7. Elements(l) = [i \in 1..n |-> ptr[i]]
    BY <1>2, <1>5, <1>6, Zenon DEF Elements
  <1> QED  BY <1>1, <1>3, <1>7

(* List::SanityCheck succeeds. *)
LEMMA SanityInOrder ==
  ASSUME NEW l, NEW e, NEW n, InOrder(l, e, n)
  PROVE  SanityCheck(l)
  <1>1. n \in Nat /\ e \in [1..n -> DOMAIN l.next]
    BY DEF InOrder
  <1>2. Elements(l) = e /\ Len(e) = n
    BY <1>1, ElementsInOrder
  <1>3. \A i \in 1..n : e[i] # NULL
    BY <1>1 DEF InOrder
  <1>4. CASE n = 0
    BY <1>4 DEF InOrder, SanityCheck
  <1>5. CASE n # 0
    <2>1. l.first = e[1] /\ l.last = e[n] /\ l.numInList = n /\ l.next[e[n]] = NULL
          /\ 1 \in 1..n /\ n \in 1..n
      BY <1>1, <1>5 DEF InOrder
    <2>2. l.first # NULL
      BY <1>3, <2>1
    <2>3. CASE l.first = l.last
      <3>1. n = 1
        BY <2>1, <2>3, ZenonT(40) DEF InOrder
      <3> QED  BY <2>1, <2>2, <2>3, <3>1 DEF SanityCheck
    <2>4. CASE l.first # l.last
      BY <1>1, <1>2, <2>1, <2>2, <2>4 DEF SanityCheck
    <2> QED  BY <2>3, <2>4
  <1> QED  BY <1>4, <1>5

-----------------------------------------------------------------------------
(* An element that is linked in behind the first k others. *)
LEMMA LinkedIn ==
  ASSUME NEW l, NEW e, NEW n, InOrder(l, e, n), NEW x, x \notin DOMAIN l.next, x # NULL,
         NEW k \in 0..n, NEW l2,
         l2.numInList = n + 1,
         l2.first = IF k = 0 THEN x ELSE l.first,
         l2.last = IF k = n THEN x ELSE l.last,
         DOMAIN l2.next = DOMAIN l.next \cup {x},
         l2.next[x] = IF k = n THEN NULL ELSE e[k + 1],
         \A i \in 1..n : l2.next[e[i]] = IF i = k THEN x ELSE l.next[e[i]]
  PROVE  InOrder(l2, Inserted(e, n, k, x), n + 1)
  <1>1. n \in Nat /\ e \in [1..n -> DOMAIN l.next] /\ k \in Nat /\ k <= n
    BY DEF InOrder
  <1>2. PICK f : f = Inserted(e, n, k, x)
    OBVIOUS
  <1>3. /\ \A i \in 1..k : f[i] = e[i] /\ i \in 1..n
        /\ f[k + 1] = x
        /\ \A i \in (k + 1)..n : f[i + 1] = e[i] /\ i \in 1..n
        /\ \A i \in (k + 2)..(n + 1) : f[i] = e[i - 1] /\ i - 1 \in 1..n
    BY <1>1, <1>2 DEF Inserted
  <1>4. \A i \in 1..(n + 1) : i \in 1..k \/ i = k + 1 \/ i \in (k + 2)..(n + 1)
    BY <1>1
  <1>5. f \in [1..(n + 1) -> DOMAIN l2.next]
    <2>1. \A i \in 1..(n + 1) : f[i] \in DOMAIN l2.next
      BY <1>1, <1>3, <1>4
    <2>2. DOMAIN f = 1..(n + 1) /\ f = [i \in DOMAIN f |-> f[i]]
      BY <1>2 DEF Inserted
    <2> QED  BY <2>1, <2>2
  <1>6. \A y \in DOMAIN l2.next : y # NULL /\ \E i \in 1..(n + 1) : f[i] = y
    <2> SUFFICES ASSUME NEW y \in DOMAIN l2.next
                 PROVE  y # NULL /\ \E i \in 1..(n + 1) : f[i] = y
      OBVIOUS
    <2>1. CASE y = x
      <3>1. k + 1 \in 1..(n + 1)
        BY <1>1
      <3> QED  BY <1>3, <2>1, <3>1
    <2>2. CASE y \in DOMAIN l.next
      <3>1. PICK i \in 1..n : e[i] = y
        BY <2>2 DEF InOrder
      <3>2. \/ i \in 1..k /\ i \in 1..(n + 1)
            \/ i \in (k + 1)..n /\ i + 1 \in 1..(n + 1)
        BY <1>1
      <3>3. y # NULL
        BY <2>2 DEF InOrder
      <3> QED  BY <1>3, <3>1, <3>2, <3>3
    <2> QED  BY <2>1, <2>2
  <1>7. \A i, j \in 1..(n + 1) : f[i] = f[j] => i = j
    <2>1. \A i \in 1..n : e[i] # x
      BY <1>1
    <2>2. \A i, j \in 1..n : e[i] = e[j] => i = j
      BY DEF InOrder
    <2> SUFFICES ASSUME NEW i \in 1..(n + 1), NEW j \in 1..(n + 1), f[i] = f[j] PROVE i = j
      OBVIOUS
    <2>3. ASSUME NEW h \in 1..(n + 1), h # k + 1
          PROVE  \E p \in 1..n : f[h] = e[p] /\ p = IF h <= k THEN h ELSE h - 1
      <3>1. CASE h \in 1..k
        BY <1>1, <1>3, <3>1
      <3>2. CASE h \in (k + 2)..(n + 1)
        <4>1. f[h] = e[h - 1] /\ h - 1 \in 1..n /\ ~(h <= k)
          BY <1>1, <1>3, <3>2
        <4> QED  BY <4>1
      <3> QED  BY <1>4, <2>3, <3>1, <3>2
    <2>4. CASE i = k + 1 /\ j # k + 1
      BY <1>3, <2>1, <2>3, <2>4
    <2>5. CASE i # k + 1 /\ j = k + 1
      BY <1>3, <2>1, <2>3, <2>5
    <2>6. CASE i # k + 1 /\ j # k + 1
      <3>1. PICK p \in 1..n : f[i] = e[p] /\ p = IF i <= k THEN i ELSE i - 1
        BY <2>3, <2>6
      <3>2. PICK q \in 1..n : f[j] = e[q] /\ q = IF j <= k THEN j ELSE j - 1
        BY <2>3, <2>6
      <3>3. e[p] = e[q]
        BY <3>1, <3>2
      <3>4. p = q
        BY <2>2, <3>3, Zenon
      <3> QED  BY <1>1, <2>6, <3>1, <3>2, <3>4
    <2> QED  BY <2>4, <2>5, <2>6
  <1>8. l2.first = f[1] /\ l2.last = f[n + 1]
    <2>1. l2.first = f[1]
      <3>1. CASE k = 0
        BY <1>3, <3>1
      <3>2. CASE k # 0
        <4>1. 1 \in 1..k /\ n # 0
          BY <1>1, <3>2
        <4> QED  BY <1>3, <3>2, <4>1 DEF InOrder
      <3> QED  BY <3>1, <3>2
    <2>2. l2.last = f[n + 1]
      <3>1. CASE k = n
        BY <1>3, <3>1
      <3>2. CASE k # n
        <4>1. n \in (k + 1)..n /\ n # 0
          BY <1>1, <3>2
        <4> QED  BY <1>3, <3>2, <4>1 DEF InOrder
      <3> QED  BY <3>1, <3>2
    <2> QED  BY <2>1, <2>2
  <1>9. \A i \in 1..(n + 1) : l2.next[f[i]] = IF i = n + 1 THEN NULL ELSE f[i + 1]
    <2> SUFFICES ASSUME NEW i \in 1..(n + 1)
                 PROVE  l2.next[f[i]] = IF i = n + 1 THEN NULL ELSE f[i + 1]
      OBVIOUS
    <2>1. \A j \in 1..n : l.next[e[j]] = IF j = n THEN NULL ELSE e[j + 1]
      BY DEF InOrder
    <2>2. CASE i \in 1..k
      <3>1. CASE i = k
        BY <1>1, <1>3, <2>2, <3>1
      <3>2. CASE i # k
        <4>1. i + 1 \in 1..k
          BY <1>1, <2>2, <3>2
        <4>2. f[i] = e[i] /\ i \in 1..n /\ f[i + 1] = e[i + 1] /\ i # n /\ i # n + 1
          BY <1>1, <1>3, <2>2, <3>2, <4>1
        <4> QED  BY <2>1, <3>2, <4>2
      <3> QED  BY <3>1, <3>2
    <2>3. CASE i = k + 1
      <3>1. CASE k = n
        BY <1>1, <1>3, <2>3, <3>1
      <3>2. CASE k # n
        <4>1. k + 1 \in (k + 1)..n
          BY <1>1, <3>2
        <4>2. f[(k + 1) + 1] = e[k + 1]
          BY <1>3, <4>1
        <4>3. f[i] = x /\ i # n + 1
          BY <1>1, <1>3, <2>3, <3>2
        <4> QED  BY <2>3, <3>2, <4>2, <4>3
      <3> QED  BY <3>1, <3>2
    <2>4. CASE i \in (k + 2)..(n + 1)
      <3>1. PICK j \in (k + 1)..n : j = i - 1 /\ j \in 1..n /\ j # k /\ f[i] = e[j]
        BY <1>1, <1>3, <2>4
      <3>2. l2.next[f[i]] = IF j = n THEN NULL ELSE e[j + 1]
        BY <2>1, <3>1
      <3>3. CASE j = n
        BY <1>1, <3>1, <3>2, <3>3
      <3>4. CASE j # n
        <4>1. j + 1 \in (k + 1)..n /\ j + 1 = i
          BY <1>1, <3>1, <3>4
        <4>2. f[i + 1] = e[i]
          BY <1>3, <4>1
        <4> QED  BY <1>1, <3>1, <3>2, <3>4, <4>1, <4>2
      <3> QED  BY <3>3, <3>4
    <2> QED  BY <1>4, <2>2, <2>3, <2>4
  <1>10. n + 1 \in Nat /\ n + 1 # 0
    BY <1>1
  <1>11. InOrder(l2, f, n + 1)
    BY <1>5, <1>6, <1>7, <1>8, <1>9, <1>10 DEF InOrder
  <1> QED  BY <1>2, <1>11

LEMMA EmptyInOrder == InOrder(EmptyList, << >>, 0)
  <1>1. DOMAIN << >> = {} /\ 1..0 = {}
    OBVIOUS
  <1> QED  BY <1>1 DEF InOrder, EmptyList

(* List::Prepend. *)
LEMMA PrependInOrder ==
  ASSUME NEW l, NEW e, NEW n, InOrder(l, e, n), NEW x, x \notin DOMAIN l.next, x # NULL
  PROVE  InOrder(ListPrepend(l, x), Inserted(e, n, 0, x), n + 1)
  <1>1. n \in Nat /\ e \in [1..n -> DOMAIN l.next] /\ 0 \in 0..n
    BY DEF InOrder
  <1>2. PICK l2 : l2 = ListPrepend(l, x)
    OBVIOUS
  <1>3. l2.numInList = n + 1 /\ l2.first = x
    BY <1>2 DEF ListPrepend, InOrder
  <1>4. l2.last = IF 0 = n THEN x ELSE l.last
    BY <1>1, <1>2 DEF ListPrepend, IsEmpty, InOrder
  <1>5. /\ DOMAIN l2.next = DOMAIN l.next \cup {x}
        /\ l2.next[x] = l.first
        /\ \A i \in 1..n : l2.next[e[i]] = l.next[e[i]]
    BY <1>1, <1>2 DEF ListPrepend, Allocated
  <1>6. l2.next[x] = IF 0 = n THEN NULL ELSE e[0 + 1]
    BY <1>5 DEF InOrder
  <1>7. \A i \in 1..n : l2.next[e[i]] = IF i = 0 THEN x ELSE l.next[e[i]]
    BY <1>5
  <1>8. InOrder(l2, Inserted(e, n, 0, x), n + 1)
    BY <1>1, <1>3, <1>4, <1>5, <1>6, <1>7, LinkedIn
  <1> QED  BY <1>2, <1>8

(* List::Append. *)
LEMMA AppendInOrder ==
  ASSUME NEW l, NEW e, NEW n, InOrder(l, e, n), NEW x, x \notin DOMAIN l.next, x # NULL
  PROVE  InOrder(ListAppend(l, x), Inserted(e, n, n, x), n + 1)
  <1>1. n \in Nat /\ e \in [1..n -> DOMAIN l.next] /\ n \in 0..n
    BY DEF InOrder
  <1>2. PICK l2 : l2 = ListAppend(l, x)
    OBVIOUS
  <1>3. l2.numInList = n + 1 /\ l2.last = x
    BY <1>2 DEF ListAppend, InOrder
  <1>4. l2.first = IF n = 0 THEN x ELSE l.first
    BY <1>1, <1>2 DEF ListAppend, IsEmpty, InOrder
  <1>5. DOMAIN l2.next = DOMAIN l.next \cup {x} /\ l2.next[x] = NULL
    BY <1>1, <1>2 DEF ListAppend, Allocated
  <1>6. \A i \in 1..n : l2.next[e[i]] = IF i = n THEN x ELSE l.next[e[i]]
    <2> SUFFICES ASSUME NEW i \in 1..n
                 PROVE  l2.next[e[i]] = IF i = n THEN x ELSE l.next[e[i]]
      OBVIOUS
    <2>1. n # 0 /\ n \in 1..n /\ ~IsEmpty(l) /\ l.last = e[n]
      BY <1>1 DEF IsEmpty, InOrder
    <2>2. e[i] = e[n] <=> i = n
      BY <2>1 DEF InOrder
    <2>3. e[i] \in DOMAIN l.next /\ e[n] \in DOMAIN l.next
      BY <1>1, <2>1
    <2>4. l2.next = Allocated([l.next EXCEPT ![l.last] = x], x, NULL)
      BY <1>2, <2>1 DEF ListAppend
    <2> QED  BY <2>1, <2>2, <2>3, <2>4 DEF Allocated
  <1>7. InOrder(l2, Inserted(e, n, n, x), n + 1)
    BY <1>1, <1>3, <1>4, <1>5, <1>6, LinkedIn
  <1> QED  BY <1>2, <1>7

(* List::RemoveFront takes the first element and leaves the others. *)
LEMMA RemoveFrontInOrder ==
  ASSUME NEW l, NEW e, NEW n, InOrder(l, e, n), n # 0
  PROVE  /\ ListFront(l) = e[1] /\ ListFront(l) \in DOMAIN l.next
         /\ DOMAIN RemoveFront(l).next = DOMAIN l.next \ {ListFront(l)}
         /\ InOrder(RemoveFront(l), [i \in 1..(n - 1) |-> e[i + 1]], n - 1)
  <1>1. n \in Nat /\ e \in [1..n -> DOMAIN l.next] /\ 1 \in 1..n /\ n \in 1..n
    BY DEF InOrder
  <1>2. ListFront(l) = e[1] /\ l.first = e[1] /\ l.last = e[n] /\ l.numInList = n
    BY DEF InOrder, ListFront
  <1>3. \A i, j \in 1..n : e[i] = e[j] => i = j
    BY DEF InOrder
  <1>4. \A i \in 1..n : l.next[e[i]] = IF i = n THEN NULL ELSE e[i + 1]
    BY DEF InOrder
  <1>5. PICK l2 : l2 = RemoveFront(l)
    OBVIOUS
  <1>6. PICK f : f = [i \in 1..(n - 1) |-> e[i + 1]]
    OBVIOUS
  <1>7. /\ \A i \in 1..(n - 1) : f[i] = e[i + 1] /\ i + 1 \in 1..n /\ i + 1 # 1
        /\ DOMAIN f = 1..(n - 1) /\ n - 1 \in Nat
    BY <1>1, <1>6
  <1>8. /\ DOMAIN l2.next = DOMAIN l.next \ {e[1]} /\ l2.numInList = n - 1
        /\ \A y \in DOMAIN l.next : y # e[1] => l2.next[y] = l.next[y]
    BY <1>2, <1>5 DEF RemoveFront, Deleted
  <1>9. \A i \in 1..(n - 1) : f[i] \in DOMAIN l.next /\ f[i] # e[1]
    BY <1>1, <1>3, <1>7
  <1>10. f \in [1..(n - 1) -> DOMAIN l2.next]
    BY <1>6, <1>8, <1>9
  <1>11. \A y \in DOMAIN l2.next : y # NULL /\ \E i \in 1..(n - 1) : f[i] = y
    <2> SUFFICES ASSUME NEW y \in DOMAIN l2.next
                 PROVE  y # NULL /\ \E i \in 1..(n - 1) : f[i] = y
      OBVIOUS
    <2>1. y \in DOMAIN l.next /\ y # e[1]
      BY <1>8
    <2>2. y # NULL
      BY <2>1 DEF InOrder
    <2>3. PICK i \in 1..n : e[i] = y
      BY <2>1 DEF InOrder
    <2>4. i - 1 \in 1..(n - 1) /\ (i - 1) + 1 = i
      BY <1>1, <2>1, <2>3
    <2>5. f[i - 1] = y
      BY <1>7, <2>3, <2>4
    <2> QED  BY <2>2, <2>4, <2>5
  <1>12. \A i, j \in 1..(n - 1) : f[i] = f[j] => i = j
    <2> SUFFICES ASSUME NEW i \in 1..(n - 1), NEW j \in 1..(n - 1), f[i] = f[j] PROVE i = j
      OBVIOUS
    <2>1. i + 1 \in 1..n /\ j + 1 \in 1..n /\ e[i + 1] = e[j + 1]
      BY <1>7
    <2>2. i + 1 = j + 1
      BY <1>3, <2>1, Zenon
    <2> QED  BY <1>1, <2>2
  <1>13. /\ l2.first = IF n - 1 = 0 THEN NULL ELSE f[1]
         /\ l2.last = IF n - 1 = 0 THEN NULL ELSE f[n - 1]
    <2>1. e[1] = e[n] <=> n = 1
      BY <1>1, <1>3
    <2>2. CASE n = 1
      BY <1>2, <1>5, <2>1, <2>2 DEF RemoveFront
    <2>3. CASE n # 1
      <3>1. f[1] = e[1 + 1] /\ f[n - 1] = e[(n - 1) + 1]
        BY <1>1, <1>7, <2>3
      <3>2. l2.first = l.next[e[1]] /\ l2.last = e[n]
        BY <1>2, <1>5, <2>1, <2>3 DEF RemoveFront
      <3>3. l.next[e[1]] = e[1 + 1]
        BY <1>1, <1>4, <2>3
      <3>4. (n - 1) + 1 = n /\ n - 1 # 0
        BY <1>1, <2>3
      <3> QED  BY <3>1, <3>2, <3>3, <3>4
    <2> QED  BY <2>2, <2>3
  <1>14. \A i \in 1..(n - 1) : l2.next[f[i]] = IF i = n - 1 THEN NULL ELSE f[i + 1]
    <2> SUFFICES ASSUME NEW i \in 1..(n - 1)
                 PROVE  l2.next[f[i]] = IF i = n - 1 THEN NULL ELSE f[i + 1]
      OBVIOUS
    <2>1. f[i] = e[i + 1] /\ i + 1 \in 1..n /\ l2.next[f[i]] = l.next[f[i]]
      BY <1>7, <1>8, <1>9
    <2>2. l.next[e[i + 1]] = IF i + 1 = n THEN NULL ELSE e[(i + 1) + 1]
      BY <1>4, <2>1
    <2>3. CASE i = n - 1
      BY <1>1, <2>1, <2>2, <2>3
    <2>4. CASE i # n - 1
      <3>1. i + 1 \in 1..(n - 1) /\ i + 1 # n
        BY <1>1, <2>4
      <3>2. f[i + 1] = e[(i + 1) + 1]
        BY <1>7, <3>1
      <3> QED  BY <2>1, <2>2, <2>4, <3>1, <3>2
    <2> QED  BY <2>3, <2>4
  <1>15. InOrder(l2, f, n - 1)
    BY <1>7, <1>8, <1>10, <1>11, <1>12, <1>13, <1>14 DEF InOrder
  <1> QED  BY <1>1, <1>2, <1>5, <1>6, <1>8, <1>15

(* SortedList::Insert puts x behind all that are not bigger and in front   *)
(* of one that is.                                                         *)
LEMMA InsertInOrder ==
  ASSUME NEW l, NEW e, NEW n, InOrder(l, e, n), NEW x, x \notin DOMAIN l.next, x # NULL,
         NEW key, \A y \in DOMAIN l.next \cup {x} : key[y] \in Nat
  PROVE  /\ DOMAIN Insert(l, x, key).next = DOMAIN l.next \cup {x}
         /\ \E k \in 0..n :
              /\ InOrder(Insert(l, x, key), Inserted(e, n, k, x), n + 1)
              /\ \A i \in 1..k : key[e[i]] <= key[x]
              /\ k < n => key[x] < key[e[k + 1]]
  <1>1. n \in Nat /\ e \in [1..n -> DOMAIN l.next]
    BY DEF InOrder
  <1>2. \A i \in 1..n : e[i] \in DOMAIN l.next /\ e[i] # NULL
    BY <1>1 DEF InOrder
  <1>3. PICK l2 : l2 = Insert(l, x, key)
    OBVIOUS
  <1>4. CASE IsEmpty(l) \/ key[x] < key[l.first]
    <2>1. l2 = ListPrepend(l, x)
      BY <1>3, <1>4 DEF Insert
    <2>2. DOMAIN l2.next = DOMAIN l.next \cup {x}
      BY <2>1 DEF ListPrepend, Allocated
    <2>3. 0 \in 0..n /\ 1..0 = {} /\ InOrder(l2, Inserted(e, n, 0, x), n + 1)
      BY <1>1, <2>1, PrependInOrder
    <2>4. 0 < n => key[x] < key[e[0 + 1]]
      BY <1>1, <1>4 DEF InOrder, IsEmpty
    <2> QED  BY <1>3, <2>2, <2>3, <2>4
  <1>5. CASE ~(IsEmpty(l) \/ key[x] < key[l.first])
    <2>1. n # 0 /\ n \in 1..n /\ 1 \in 1..n /\ l.first = e[1]
      BY <1>1, <1>5 DEF InOrder, IsEmpty
    <2>2. key[e[1]] <= key[x]
      BY <1>2, <1>5, <2>1
    <2>3. \A i \in 1..n : l.next[e[i]] = IF i = n THEN NULL ELSE e[i + 1]
      BY DEF InOrder
    <2>4. PICK Stops : Stops = {i \in 1..n : l.next[e[i]] = NULL \/ key[x] < key[l.next[e[i]]]}
      OBVIOUS
    <2>5. n \in Stops /\ Stops \in SUBSET Nat
      BY <1>1, <2>1, <2>3, <2>4
    <2>6. PICK k \in Stops : k = Min(Stops) /\ \A j \in Stops : k <= j
      BY <2>5, LeastOf
    <2>7. k \in 1..n /\ k \in 0..n
      <3>1. \A i \in Stops : i \in 1..n
        BY <2>4, Zenon
      <3>2. k \in 1..n
        BY <2>6, <3>1, Zenon
      <3> QED  BY <1>1, <3>2
    <2>8. \A i \in 1..k : key[e[i]] <= key[x]
      <3> SUFFICES ASSUME NEW i \in 1..k, i # 1 PROVE key[e[i]] <= key[x]
        BY <2>2
      <3>1. PICK j \in 1..n : j + 1 = i /\ j # n /\ j < k
        <4>1. i - 1 \in 1..n /\ (i - 1) + 1 = i /\ i - 1 # n /\ i - 1 < k
          BY <1>1, <2>7
        <4> QED  BY <4>1
      <3>2. j \notin Stops
        BY <1>1, <2>6, <2>7, <3>1
      <3>3. l.next[e[j]] = e[i]
        BY <2>3, <3>1
      <3>4. ~(key[x] < key[e[i]])
        BY <2>4, <3>2, <3>3
      <3>5. e[i] \in DOMAIN l.next
        BY <1>1, <1>2, <2>7
      <3> QED  BY <3>4, <3>5
    <2>9. k < n => key[x] < key[e[k + 1]]
      <3> SUFFICES ASSUME k < n PROVE key[x] < key[e[k + 1]]
        OBVIOUS
      <3>1. l.next[e[k]] = e[k + 1] /\ k + 1 \in 1..n
        BY <1>1, <2>3, <2>7
      <3> QED  BY <1>2, <2>4, <2>6, <3>1
    <2>10. Elements(l) = e /\ DOMAIN e = 1..n
      BY <1>1, ElementsInOrder
    <2>11. l2 = IF l.next[e[k]] = NULL THEN ListAppend(l, x)
                ELSE [first |-> l.first, last |-> l.last, numInList |-> l.numInList + 1,
                      next |-> Allocated([l.next EXCEPT ![e[k]] = x], x, l.next[e[k]])]
      BY <1>3, <1>5, <2>4, <2>6, <2>10, Zenon DEF Insert
    <2>12. CASE k = n
      <3>1. l2 = ListAppend(l, x)
        BY <2>3, <2>7, <2>11, <2>12
      <3>2. InOrder(l2, Inserted(e, n, k, x), n + 1)
        BY <2>12, <3>1, AppendInOrder
      <3>3. DOMAIN l2.next = DOMAIN l.next \cup {x}
        BY <3>1 DEF ListAppend, Allocated
      <3> QED  BY <1>3, <2>7, <2>8, <2>9, <3>2, <3>3
    <2>13. CASE k # n
      <3>1. l.next[e[k]] = e[k + 1] /\ e[k + 1] # NULL /\ k # 0
        BY <1>1, <1>2, <2>3, <2>7, <2>13
      <3>2. /\ l2.first = l.first /\ l2.last = l.last /\ l2.numInList = n + 1
            /\ l2.next = Allocated([l.next EXCEPT ![e[k]] = x], x, e[k + 1])
        BY <2>11, <3>1 DEF InOrder
      <3>3. DOMAIN l2.next = DOMAIN l.next \cup {x} /\ l2.next[x] = e[k + 1]
        BY <3>2 DEF Allocated
      <3>4. \A i \in 1..n : l2.next[e[i]] = IF i = k THEN x ELSE l.next[e[i]]
        <4> SUFFICES ASSUME NEW i \in 1..n
                     PROVE  l2.next[e[i]] = IF i = k THEN x ELSE l.next[e[i]]
          OBVIOUS
        <4>1. e[i] = e[k] <=> i = k
          BY <2>7 DEF InOrder
        <4>2. e[i] \in DOMAIN l.next /\ e[i] # x
          BY <1>2
        <4> QED  BY <3>2, <4>1, <4>2 DEF Allocated
      <3>5. /\ l2.first = IF k = 0 THEN x ELSE l.first
            /\ l2.last = IF k = n THEN x ELSE l.last
            /\ l2.next[x] = IF k = n THEN NULL ELSE e[k + 1]
        BY <2>13, <3>1, <3>2, <3>3
      <3>6. InOrder(l2, Inserted(e, n, k, x), n + 1)
        BY <2>7, <3>2, <3>3, <3>4, <3>5, LinkedIn
      <3> QED  BY <1>3, <2>7, <2>8, <2>9, <3>3, <3>6
    <2> QED  BY <2>12, <2>13
  <1> QED  BY <1>4, <1>5

-----------------------------------------------------------------------------
(* The pending interrupts. *)
(* l is in the order of its times, and has one interrupt of a device. *)
Agenda(l) ==
    /\ DOMAIN l.next \subseteq PendingInterrupt
    /\ \A p, q \in DOMAIN l.next : p.call = q.call => p = q
    /\ InOrder(l, Elements(l), l.numInList)
    /\ \A i, j \in 1..l.numInList : i <= j => Elements(l)[i].when <= Elements(l)[j].when

-----------------------------------------------------------------------------
(* To show that l is an agenda, any order will do. *)
LEMMA AgendaByOrder ==
  ASSUME NEW l, NEW e, NEW n, InOrder(l, e, n),
         DOMAIN l.next \subseteq PendingInterrupt,
         \A p, q \in DOMAIN l.next : p.call = q.call => p = q,
         \A i, j \in 1..n : i <= j => e[i].when <= e[j].when
  PROVE  Agenda(l)
  <1>1. Elements(l) = e
    BY ElementsInOrder
  <1>2. l.numInList = n
    BY DEF InOrder
  <1> QED  BY <1>1, <1>2 DEF Agenda

LEMMA EmptyAgenda == Agenda(EmptyList) /\ DOMAIN EmptyList.next = {}
  <1>1. DOMAIN EmptyList.next = {} /\ 1..0 = {}
    BY DEF EmptyList
  <1> QED  BY <1>1, EmptyInOrder, AgendaByOrder

(* The front of the list is due first. *)
LEMMA FrontFirst ==
  ASSUME NEW l, Agenda(l)
  PROVE  /\ IsEmpty(l) => DOMAIN l.next = {}
         /\ ~IsEmpty(l) => /\ ListFront(l) \in DOMAIN l.next
                           /\ \A p \in DOMAIN l.next : ListFront(l).when <= p.when
  <1>1. PICK e, n : e = Elements(l) /\ n = l.numInList
    OBVIOUS
  <1>2. InOrder(l, e, n) /\ \A i, j \in 1..n : i <= j => e[i].when <= e[j].when
    BY <1>1 DEF Agenda
  <1>3. n \in Nat /\ \A p \in DOMAIN l.next : \E i \in 1..n : e[i] = p
    BY <1>2 DEF InOrder
  <1>4. IsEmpty(l) <=> n = 0
    BY <1>1 DEF IsEmpty
  <1>5. CASE n = 0
    BY <1>3, <1>4, <1>5
  <1>6. CASE n # 0
    <2>1. 1 \in 1..n /\ \A i \in 1..n : 1 <= i
      BY <1>3, <1>6
    <2>2. ListFront(l) = e[1] /\ ListFront(l) \in DOMAIN l.next
      BY <1>2, <1>6, RemoveFrontInOrder
    <2>3. \A p \in DOMAIN l.next : e[1].when <= p.when
      BY <1>2, <1>3, <2>1
    <2> QED  BY <1>4, <1>6, <2>2, <2>3
  <1> QED  BY <1>5, <1>6

LEMMA RemoveFrontAgenda ==
  ASSUME NEW l, Agenda(l), ~IsEmpty(l)
  PROVE  /\ Agenda(RemoveFront(l))
         /\ DOMAIN RemoveFront(l).next = DOMAIN l.next \ {ListFront(l)}
  <1>1. PICK e, n : e = Elements(l) /\ n = l.numInList
    OBVIOUS
  <1>2. InOrder(l, e, n) /\ \A i, j \in 1..n : i <= j => e[i].when <= e[j].when
    BY <1>1 DEF Agenda
  <1>3. n # 0 /\ n \in Nat
    BY <1>1, <1>2 DEF IsEmpty, InOrder
  <1>4. PICK f : f = [i \in 1..(n - 1) |-> e[i + 1]]
    OBVIOUS
  <1>5. /\ DOMAIN RemoveFront(l).next = DOMAIN l.next \ {ListFront(l)}
        /\ InOrder(RemoveFront(l), f, n - 1)
    BY <1>2, <1>3, <1>4, RemoveFrontInOrder
  <1>6. \A i, j \in 1..(n - 1) : i <= j => f[i].when <= f[j].when
    <2> SUFFICES ASSUME NEW i \in 1..(n - 1), NEW j \in 1..(n - 1), i <= j
                 PROVE  f[i].when <= f[j].when
      OBVIOUS
    <2>1. i + 1 \in 1..n /\ j + 1 \in 1..n /\ i + 1 <= j + 1
      BY <1>3
    <2>2. e[i + 1].when <= e[j + 1].when
      BY <1>2, <2>1
    <2> QED  BY <1>4, <2>2
  <1>7. Agenda(RemoveFront(l))
    BY <1>5, <1>6, AgendaByOrder DEF Agenda
  <1> QED  BY <1>5, <1>7

(* Interrupt::Schedule, for a device that has nothing pending. *)
LEMMA ScheduleAgenda ==
  ASSUME NEW l, Agenda(l), NEW d \in Device \cup {"timer"}, NEW fromNow \in Nat, Now \in Nat,
         \A p \in DOMAIN l.next : p.call # d
  PROVE  /\ Agenda(Schedule(l, d, fromNow))
         /\ DOMAIN Schedule(l, d, fromNow).next
              = DOMAIN l.next \cup {[call |-> d, when |-> Now + fromNow]}
         /\ ~IsEmpty(Schedule(l, d, fromNow))
  <1>1. PICK e, n : e = Elements(l) /\ n = l.numInList
    OBVIOUS
  <1>2. InOrder(l, e, n) /\ \A i, j \in 1..n : i <= j => e[i].when <= e[j].when
    BY <1>1 DEF Agenda
  <1>3. PICK x \in PendingInterrupt : x = [call |-> d, when |-> Now + fromNow]
    <2>1. Now + fromNow \in Nat
      OBVIOUS
    <2> QED  BY <2>1 DEF PendingInterrupt
  <1>4. x # NULL /\ x.call = d /\ x \notin DOMAIN l.next /\ x.when \in Nat
    BY <1>3, NullIsNoInterrupt DEF PendingInterrupt
  <1>5. PICK key : key = When({x} \cup DOMAIN l.next)
    OBVIOUS
  <1>6. \A y \in DOMAIN l.next \cup {x} : key[y] = y.when /\ key[y] \in Nat
    BY <1>4, <1>5 DEF When, Agenda, PendingInterrupt
  <1>7. PICK l2 : l2 = Insert(l, x, key) /\ l2 = Schedule(l, d, fromNow)
    BY <1>3, <1>5, Zenon DEF Schedule
  <1>8. DOMAIN l2.next = DOMAIN l.next \cup {x}
    BY <1>2, <1>4, <1>6, <1>7, InsertInOrder, ZenonT(40)
  <1>9. PICK k \in 0..n :
          /\ InOrder(l2, Inserted(e, n, k, x), n + 1)
          /\ \A i \in 1..k : key[e[i]] <= key[x]
          /\ k < n => key[x] < key[e[k + 1]]
    <2>1. \A y \in DOMAIN l.next \cup {x} : key[y] \in Nat
      BY <1>6, Zenon
    <2>2. \E k \in 0..n :
            /\ InOrder(Insert(l, x, key), Inserted(e, n, k, x), n + 1)
            /\ \A i \in 1..k : key[e[i]] <= key[x]
            /\ k < n => key[x] < key[e[k + 1]]
      BY <1>2, <1>4, <2>1, InsertInOrder, Zenon
    <2> QED  BY <1>7, <2>2, Zenon
  <1>10. PICK f : f = Inserted(e, n, k, x)
    OBVIOUS
  <1>11. n \in Nat /\ k \in Nat /\ k <= n /\ \A i \in 1..n : e[i] \in DOMAIN l.next
    BY <1>2 DEF InOrder
  <1>12. \A i \in 1..n : e[i].when \in Nat /\ key[e[i]] = e[i].when
    BY <1>6, <1>11 DEF Agenda, PendingInterrupt
  <1>13. /\ \A i \in 1..k : e[i].when <= x.when
         /\ \A i \in (k + 1)..n : x.when <= e[i].when
    <2>1. \A i \in 1..k : e[i].when <= x.when
      BY <1>6, <1>9, <1>11, <1>12
    <2>2. ASSUME NEW i \in (k + 1)..n PROVE x.when <= e[i].when
      <3>1. k < n /\ k + 1 \in 1..n /\ i \in 1..n /\ k + 1 <= i
        BY <1>11
      <3>2. x.when < e[k + 1].when
        BY <1>6, <1>9, <1>12, <3>1
      <3>3. e[k + 1].when <= e[i].when
        BY <1>2, <3>1
      <3> QED  BY <1>4, <1>12, <3>1, <3>2, <3>3
    <2> QED  BY <2>1, <2>2
  <1>14. \A i, j \in 1..(n + 1) : i <= j => f[i].when <= f[j].when
    <2> SUFFICES ASSUME NEW i \in 1..(n + 1), NEW j \in 1..(n + 1), i <= j
                 PROVE  f[i].when <= f[j].when
      OBVIOUS
    <2>1. ASSUME NEW h \in 1..(n + 1)
          PROVE  /\ h <= k => h \in 1..k /\ h \in 1..n /\ f[h] = e[h]
                 /\ h = k + 1 => f[h] = x
                 /\ h > k + 1 => f[h] = e[h - 1] /\ h - 1 \in 1..n /\ h - 1 \in (k + 1)..n
      BY <1>10, <1>11 DEF Inserted
    <2>2. CASE j <= k
      <3>1. f[i] = e[i] /\ f[j] = e[j] /\ i \in 1..n /\ j \in 1..n
        BY <1>11, <2>1, <2>2
      <3> QED  BY <1>2, <3>1
    <2>3. CASE j = k + 1
      <3>1. CASE i = k + 1
        BY <1>4, <2>1, <2>3, <3>1
      <3>2. CASE i # k + 1
        <4>1. f[i] = e[i] /\ i \in 1..k /\ f[j] = x
          BY <1>11, <2>1, <2>3, <3>2
        <4> QED  BY <1>13, <4>1
      <3> QED  BY <3>1, <3>2
    <2>4. CASE j > k + 1
      <3>1. f[j] = e[j - 1] /\ j - 1 \in 1..n /\ j - 1 \in (k + 1)..n
        BY <2>1, <2>4
      <3>2. CASE i <= k
        <4>1. f[i] = e[i] /\ i \in 1..n /\ i <= j - 1
          BY <1>11, <2>1, <2>4, <3>2
        <4>2. e[i].when <= e[j - 1].when
          BY <1>2, <3>1, <4>1
        <4> QED  BY <3>1, <4>1, <4>2
      <3>3. CASE i = k + 1
        <4>1. f[i] = x
          BY <2>1, <3>3
        <4> QED  BY <1>13, <3>1, <4>1
      <3>4. CASE i > k + 1
        <4>1. f[i] = e[i - 1] /\ i - 1 \in 1..n /\ i - 1 <= j - 1
          BY <1>11, <2>1, <3>4
        <4>2. e[i - 1].when <= e[j - 1].when
          BY <1>2, <3>1, <4>1
        <4> QED  BY <3>1, <4>1, <4>2
      <3> QED  BY <1>11, <3>2, <3>3, <3>4
    <2> QED  BY <1>11, <2>2, <2>3, <2>4
  <1>15. \A p, q \in DOMAIN l2.next : p.call = q.call => p = q
    BY <1>4, <1>8 DEF Agenda
  <1>16. DOMAIN l2.next \subseteq PendingInterrupt
    BY <1>8 DEF Agenda
  <1>17. InOrder(l2, f, n + 1)
    BY <1>9, <1>10
  <1>18. Agenda(l2)
    BY <1>14, <1>15, <1>16, <1>17, AgendaByOrder
  <1>19. ~IsEmpty(l2)
    BY <1>11, <1>17 DEF InOrder, IsEmpty
  <1> QED  BY <1>3, <1>7, <1>8, <1>18, <1>19

-----------------------------------------------------------------------------
TypeOK ==
    /\ level \in {"IntOff", "IntOn"}
    /\ inHandler \in BOOLEAN /\ yieldOnReturn \in BOOLEAN /\ randomize \in BOOLEAN
    /\ stats \in [totalTicks : Nat, idleTicks : Nat, systemTicks : Nat, userTicks : Nat]
    /\ fired.when \in Nat /\ fired.at \in Nat

Accounted == Now = stats.idleTicks + stats.systemTicks + stats.userTicks

(* Outside of the loop of CheckIfDue nothing is due; in it something is,   *)
(* and since less than a SystemTick.                                       *)
PendingInv ==
    /\ Agenda(pending) /\ IsPending("timer")
    /\ \A p \in DOMAIN pending.next :
         /\ p.when >= fired.when
         /\ IF pc = "due" THEN Now < p.when + SystemTick ELSE p.when > Now
    /\ pc = "due" => ~IsEmpty(pending) /\ ListFront(pending).when <= Now

FiredInv == fired.when <= Now /\ fired.at - fired.when \in 0 .. SystemTick - 1

(* Where the CPU is decides what the interrupt level, the machine status   *)
(* and the flags can be.                                                   *)
ModeInv ==
    /\ inHandler <=> pc = "due"
    /\ pc \in {"due", "idle", "idled"} => level = "IntOff"
    /\ pc \in {"run", "idle", "idled"} \/ (pc = "due" /\ status = "IdleMode") => oldStatus = NULL
    /\ yieldOnReturn => pc \in {"due", "ticked"} /\ status # "IdleMode"

TInv == TypeOK /\ Accounted /\ PendingInv /\ FiredInv /\ ModeInv

(* All delays are positive. *)
LEMMA Delays ==
  ASSUME randomize \in BOOLEAN
  PROVE  /\ \A delay \in TimerDelay : delay \in Nat /\ delay > 0
         /\ \A d \in Device : \A latency \in Latency[d] : latency \in Nat /\ latency > 0
         /\ UserTick \in Nat /\ SystemTick \in Nat /\ 0 < UserTick /\ UserTick <= SystemTick
  BY InterruptAssumption DEF TimerDelay

(* The counters add up to the clock. *)
Counted(s) ==
    /\ s \in [totalTicks : Nat, idleTicks : Nat, systemTicks : Nat, userTicks : Nat]
    /\ s.totalTicks = s.idleTicks + s.systemTicks + s.userTicks

(* One of the counters is advanced, together with the clock. *)
Advanced(s, ticks, s2) ==
    \/ s2 = [s EXCEPT !.totalTicks = @ + ticks, !.idleTicks = @ + ticks]
    \/ s2 = [s EXCEPT !.totalTicks = @ + ticks, !.systemTicks = @ + ticks]
    \/ s2 = [s EXCEPT !.totalTicks = @ + ticks, !.userTicks = @ + ticks]

LEMMA Counting ==
  ASSUME NEW s, Counted(s), NEW ticks \in Nat, NEW s2, Advanced(s, ticks, s2)
  PROVE  Counted(s2) /\ s2.totalTicks = s.totalTicks + ticks
  <1>1. PICK a \in Nat, b \in Nat, c \in Nat, d \in Nat :
          /\ s = [totalTicks |-> a, idleTicks |-> b, systemTicks |-> c, userTicks |-> d]
          /\ a = b + c + d
    BY DEF Counted
  <1>2. \E i, j, k \in Nat :
          /\ s2 = [totalTicks |-> a + ticks, idleTicks |-> i, systemTicks |-> j, userTicks |-> k]
          /\ a + ticks = i + j + k
    <2>1. CASE s2 = [s EXCEPT !.totalTicks = @ + ticks, !.idleTicks = @ + ticks]
      <3>1. s2 = [totalTicks |-> a + ticks, idleTicks |-> b + ticks, systemTicks |-> c,
                  userTicks |-> d]
        BY <1>1, <2>1
      <3>2. b + ticks \in Nat /\ a + ticks = (b + ticks) + c + d
        BY <1>1
      <3> QED  BY <3>1, <3>2
    <2>2. CASE s2 = [s EXCEPT !.totalTicks = @ + ticks, !.systemTicks = @ + ticks]
      <3>1. s2 = [totalTicks |-> a + ticks, idleTicks |-> b, systemTicks |-> c + ticks,
                  userTicks |-> d]
        BY <1>1, <2>2
      <3>2. c + ticks \in Nat /\ a + ticks = b + (c + ticks) + d
        BY <1>1
      <3> QED  BY <3>1, <3>2
    <2>3. CASE s2 = [s EXCEPT !.totalTicks = @ + ticks, !.userTicks = @ + ticks]
      <3>1. s2 = [totalTicks |-> a + ticks, idleTicks |-> b, systemTicks |-> c,
                  userTicks |-> d + ticks]
        BY <1>1, <2>3
      <3>2. d + ticks \in Nat /\ a + ticks = b + c + (d + ticks)
        BY <1>1
      <3> QED  BY <3>1, <3>2
    <2> QED  BY <2>1, <2>2, <2>3 DEF Advanced
  <1>3. a + ticks \in Nat
    OBVIOUS
  <1> QED  BY <1>1, <1>2, <1>3 DEF Counted

LEMMA InitTInv == Init => TInv
  <1> SUFFICES ASSUME Init PROVE TInv
    OBVIOUS
  <1> USE DEF Init, StatisticsInit, InterruptInit, TimerInit
  <1>1. TypeOK /\ Accounted /\ ModeInv
    <2>1. TypeOK
      BY DEF TypeOK
    <2>2. Accounted
      BY DEF Accounted, Now
    <2>3. ModeInv
      BY DEF ModeInv
    <2> QED  BY <2>1, <2>2, <2>3
  <1>2. Now = 0 /\ pc = "run" /\ fired.when = 0 /\ fired.at = 0
    BY DEF Now
  <1>3. FiredInv
    BY <1>1, <1>2, Delays DEF FiredInv, TypeOK
  <1>4. PICK delay \in TimerDelay : pending = Schedule(EmptyList, "timer", delay)
    OBVIOUS
  <1>5. delay \in Nat /\ delay > 0
    BY <1>1, Delays DEF TypeOK
  <1>6. /\ Agenda(pending)
        /\ DOMAIN pending.next = {} \cup {[call |-> "timer", when |-> Now + delay]}
    BY <1>2, <1>4, <1>5, EmptyAgenda, ScheduleAgenda
  <1>7. PICK x : x = [call |-> "timer", when |-> Now + delay]
    OBVIOUS
  <1>8. x.call = "timer" /\ x.when = delay /\ DOMAIN pending.next = {x}
    BY <1>2, <1>5, <1>6, <1>7
  <1>9. IsPending("timer")
    BY <1>8 DEF IsPending
  <1>10. PendingInv
    BY <1>2, <1>5, <1>6, <1>8, <1>9 DEF PendingInv
  <1> QED  BY <1>1, <1>3, <1>10 DEF TInv

(* A step that leaves time and the list alone, outside of CheckIfDue. *)
LEMMA NoTimeStep ==
  ASSUME TInv, UNCHANGED << pending, stats, fired >>, pc # "due", pc' # "due"
  PROVE  Accounted' /\ PendingInv' /\ FiredInv'
  <1>1. Now' = Now
    BY DEF Now
  <1>2. Accounted' /\ FiredInv'
    BY <1>1 DEF TInv, Accounted, FiredInv, Now
  <1>3. Agenda(pending') /\ IsPending("timer")'
    BY DEF TInv, PendingInv, IsPending
  <1>4. PendingInv'
    BY <1>1, <1>3 DEF TInv, PendingInv
  <1> QED  BY <1>2, <1>4

LEMMA QuietStep ==
  ASSUME TInv, Disable \/ Trap \/ AfterTick \/ Idled
               \/ \E d \in Device \cup {"never"} : Sleep(d)
  PROVE  TInv'
  <1>1. UNCHANGED << pending, stats, fired >> /\ pc # "due" /\ pc' # "due"
    BY DEF Disable, Trap, AfterTick, Idled, Sleep
  <1>2. Accounted' /\ PendingInv' /\ FiredInv'
    BY <1>1, NoTimeStep
  <1>3. TypeOK'
    BY DEF TInv, TypeOK, Disable, Trap, AfterTick, Idled, Sleep, intVars
  <1>4. ModeInv'
    <2>1. CASE Disable \/ Trap
      BY <2>1 DEF TInv, ModeInv, Disable, Trap
    <2>2. CASE AfterTick
      BY <2>2 DEF TInv, ModeInv, AfterTick
    <2>3. CASE Idled
      BY <2>3 DEF TInv, ModeInv, Idled
    <2>4. ASSUME NEW d, Sleep(d) PROVE ModeInv'
      BY <2>4 DEF TInv, ModeInv, Sleep, intVars
    <2> QED  BY <2>1, <2>2, <2>3, <2>4
  <1> QED  BY <1>2, <1>3, <1>4 DEF TInv

(* The ticks that are counted, and whether anything is due then. *)
LEMMA OneTickStep ==
  ASSUME TInv, NEW st \in {"SystemMode", "UserMode"}, OneTick(st), pc # "due",
         ~yieldOnReturn
  PROVE  TInv'
  <1>1. PICK ticks \in Nat : /\ ticks = IF st = "SystemMode" THEN SystemTick ELSE UserTick
                             /\ ticks <= SystemTick
    BY Delays DEF TInv, TypeOK
  <1>2. /\ Now \in Nat /\ SystemTick \in Nat /\ pending' = pending /\ fired' = fired
        /\ fired.when \in Nat
    BY Delays DEF TInv, TypeOK, Now, OneTick
  <1>3. Now' = Now + ticks /\ TypeOK' /\ Accounted'
    <2>1. stats' = IF st = "SystemMode"
                   THEN [stats EXCEPT !.totalTicks = @ + ticks, !.systemTicks = @ + ticks]
                   ELSE [stats EXCEPT !.totalTicks = @ + ticks, !.userTicks = @ + ticks]
      BY <1>1 DEF OneTick
    <2>2. Counted(stats') /\ stats'.totalTicks = stats.totalTicks + ticks
      <3>1. Counted(stats)
        BY DEF Counted, TInv, TypeOK, Accounted, Now
      <3>2. Advanced(stats, ticks, stats')
        BY <2>1 DEF Advanced
      <3> QED  BY <3>1, <3>2, Counting, Zenon
    <2>3. yieldOnReturn' \in BOOLEAN /\ randomize' \in BOOLEAN /\ level' = "IntOff"
      BY DEF TInv, TypeOK, OneTick
    <2>4. inHandler' \in BOOLEAN
      BY Zenon DEF OneTick, IsDue
    <2> QED  BY <1>2, <2>2, <2>3, <2>4 DEF Counted, TInv, TypeOK, Accounted, Now
  <1>4. PICK due \in BOOLEAN : due <=> IsDue(Now + ticks)
    OBVIOUS
  <1>5. /\ inHandler' \in BOOLEAN /\ (inHandler' <=> due)
        /\ pc' = IF due THEN "due" ELSE "ticked"
        /\ status' = st /\ level' = "IntOff" /\ yieldOnReturn' = yieldOnReturn
    <2>1. /\ inHandler' = IsDue(Now + ticks)
          /\ pc' = IF IsDue(Now + ticks) THEN "due" ELSE "ticked"
      BY <1>1, Zenon DEF OneTick
    <2>2. status' = st /\ level' = "IntOff" /\ yieldOnReturn' = yieldOnReturn
      BY DEF OneTick
    <2>3. inHandler' \in BOOLEAN
      BY <1>3 DEF TypeOK
    <2> QED  BY <1>4, <2>1, <2>2, <2>3, Zenon
  <1>6. ModeInv'
    BY <1>5 DEF TInv, ModeInv
  <1>7. FiredInv'
    BY <1>2, <1>3 DEF TInv, FiredInv
  <1>8. Agenda(pending') /\ IsPending("timer")' /\ Agenda(pending)
    BY <1>2 DEF TInv, PendingInv, IsPending
  <1>9. \A p \in DOMAIN pending.next : p.when \in Nat /\ p.when >= fired.when /\ p.when > Now
    BY DEF TInv, PendingInv, Agenda, PendingInterrupt
  <1>10. \A p \in DOMAIN pending.next : Now' < p.when + SystemTick
    BY <1>1, <1>2, <1>3, <1>9
  <1>11. due => ~IsEmpty(pending) /\ ListFront(pending).when <= Now'
    BY <1>3, <1>4 DEF IsDue
  <1>12. ~due => \A p \in DOMAIN pending.next : p.when > Now'
    <2> SUFFICES ASSUME ~due, NEW p \in DOMAIN pending.next PROVE p.when > Now'
      OBVIOUS
    <2>1. ~IsEmpty(pending) /\ ListFront(pending) \in DOMAIN pending.next
          /\ ListFront(pending).when <= p.when
      BY <1>8, FrontFirst
    <2>2. ~(ListFront(pending).when <= Now')
      BY <1>3, <1>4, <2>1 DEF IsDue
    <2> QED  BY <1>2, <1>3, <1>9, <2>1, <2>2
  <1>13. PendingInv'
    BY <1>2, <1>5, <1>8, <1>9, <1>10, <1>11, <1>12 DEF PendingInv, IsEmpty
  <1> QED  BY <1>3, <1>6, <1>7, <1>13 DEF TInv

LEMMA TickStep ==
  ASSUME TInv, Enable \/ Instruction \/ Yield
  PROVE  TInv'
  <1>1. pc # "due" /\ ~yieldOnReturn
    BY DEF TInv, ModeInv, Enable, Instruction, Yield
  <1> QED  BY <1>1, OneTickStep DEF Enable, Instruction, Yield

(* The idle machine jumps to the first interrupt, not over it. *)
LEMMA IdleStep ==
  ASSUME TInv, Idle
  PROVE  TInv'
  <1>1. /\ Now \in Nat /\ SystemTick \in Nat /\ SystemTick > 0 /\ fired.when \in Nat
        /\ pending' = pending /\ fired' = fired /\ ~IsEmpty(pending) /\ pc = "idle"
    BY Delays, InterruptAssumption DEF TInv, TypeOK, Now, Idle
  <1>2. Agenda(pending') /\ IsPending("timer")' /\ Agenda(pending)
    BY <1>1 DEF TInv, PendingInv, IsPending
  <1>3. PICK front : front = ListFront(pending)
    OBVIOUS
  <1>4. \A p \in DOMAIN pending.next : p.when \in Nat /\ p.when >= fired.when /\ p.when > Now
    BY <1>1 DEF TInv, PendingInv, Agenda, PendingInterrupt
  <1>5. /\ front \in DOMAIN pending.next
        /\ \A p \in DOMAIN pending.next : front.when <= p.when
    BY <1>1, <1>2, <1>3, FrontFirst
  <1>6. ~IsDue(Now)
    BY <1>1, <1>3, <1>4, <1>5 DEF IsDue
  <1>7. PICK ticks \in Nat : ticks = front.when - Now /\ Now + ticks = front.when
    BY <1>1, <1>4, <1>5
  <1>8. stats' = [stats EXCEPT !.totalTicks = @ + ticks, !.idleTicks = @ + ticks]
    BY <1>3, <1>6, <1>7 DEF Idle
  <1>9. Now' = front.when /\ TypeOK' /\ Accounted'
    <2>1. Counted(stats') /\ stats'.totalTicks = stats.totalTicks + ticks
      <3>1. Counted(stats)
        BY DEF Counted, TInv, TypeOK, Accounted, Now
      <3>2. Advanced(stats, ticks, stats')
        BY <1>8 DEF Advanced
      <3>3. ticks \in Nat
        OBVIOUS
      <3> QED  BY <3>1, <3>2, <3>3, Counting, Zenon
    <2>2. inHandler' \in BOOLEAN /\ yieldOnReturn' \in BOOLEAN /\ randomize' \in BOOLEAN
          /\ level' = level
      BY DEF TInv, TypeOK, Idle
    <2> QED  BY <1>1, <1>7, <2>1, <2>2 DEF Counted, TInv, TypeOK, Accounted, Now
  <1>10. ModeInv'
    BY DEF TInv, ModeInv, Idle
  <1>11. FiredInv'
    BY <1>1, <1>4, <1>5, <1>9 DEF TInv, FiredInv
  <1>12. \A p \in DOMAIN pending.next : Now' < p.when + SystemTick
    BY <1>1, <1>4, <1>5, <1>9
  <1>13. pc' = "due"
    BY DEF Idle
  <1>14. PendingInv'
    BY <1>1, <1>2, <1>3, <1>4, <1>5, <1>9, <1>12, <1>13 DEF PendingInv, IsEmpty
  <1> QED  BY <1>9, <1>10, <1>11, <1>14 DEF TInv

-----------------------------------------------------------------------------
(* The handler at the front has been called and the list is rest, which    *)
(* has what was behind it and at most one interrupt that is still to come. *)
LEMMA FireStep ==
  ASSUME TInv, NEW p, NEW rest, Fire(p, rest), Agenda(rest),
         \E q \in DOMAIN rest.next : q.call = "timer",
         \A q \in DOMAIN rest.next : q \in DOMAIN pending.next \/ q.when > Now
  PROVE  Accounted' /\ PendingInv' /\ FiredInv' /\ (inHandler' <=> pc' = "due")
  <1>1. /\ pc = "due" /\ p = ListFront(pending) /\ pending' = rest /\ stats' = stats
        /\ fired'.when = p.when /\ fired'.at = Now /\ Now' = Now
    BY DEF Fire, Now
  <1>2. /\ Agenda(pending) /\ ~IsEmpty(pending)
        /\ \A q \in DOMAIN pending.next : Now < q.when + SystemTick
        /\ ListFront(pending).when <= Now
    BY <1>1 DEF TInv, PendingInv
  <1>3. Now \in Nat /\ SystemTick \in Nat /\ fired.when \in Nat
    BY Delays DEF TInv, TypeOK, Now
  <1>4. p \in DOMAIN pending.next /\ \A q \in DOMAIN pending.next : p.when <= q.when
    BY <1>1, <1>2, FrontFirst
  <1>5. /\ \A q \in DOMAIN pending.next : q.when \in Nat
        /\ \A q \in DOMAIN rest.next : q.when \in Nat
    BY <1>2 DEF Agenda, PendingInterrupt
  <1>6. Accounted'
    BY <1>1 DEF TInv, Accounted, Now
  <1>7. FiredInv'
    <2>1. p.when <= Now /\ Now - p.when \in 0 .. SystemTick - 1
      BY <1>1, <1>2, <1>3, <1>4, <1>5
    <2> QED  BY <1>1, <2>1 DEF FiredInv
  <1>8. PICK more \in BOOLEAN : more <=> MoreDue(rest)
    OBVIOUS
  <1>9. (inHandler' <=> more) /\ (pc' = "due" <=> more)
    BY <1>8, Zenon DEF Fire
  <1>10. \A q \in DOMAIN rest.next : q.when >= p.when /\ Now < q.when + SystemTick
    BY <1>1, <1>2, <1>3, <1>4, <1>5, InterruptAssumption
  <1>11. more => ~IsEmpty(rest) /\ ListFront(rest).when <= Now
    BY <1>8 DEF MoreDue
  <1>12. ~more => \A q \in DOMAIN rest.next : q.when > Now
    <2> SUFFICES ASSUME ~more, NEW q \in DOMAIN rest.next PROVE q.when > Now
      OBVIOUS
    <2>1. ~IsEmpty(rest) /\ ListFront(rest) \in DOMAIN rest.next
          /\ ListFront(rest).when <= q.when
      BY FrontFirst
    <2>2. ~(ListFront(rest).when <= Now)
      BY <1>8, <2>1 DEF MoreDue
    <2> QED  BY <1>3, <1>5, <2>1, <2>2
  <1>13. Agenda(pending') /\ IsPending("timer")'
    BY <1>1 DEF IsPending
  <1>14. PendingInv'
    BY <1>1, <1>9, <1>10, <1>11, <1>12, <1>13 DEF PendingInv, IsEmpty
  <1> QED  BY <1>6, <1>7, <1>9, <1>14

(* What a handler finds. *)
LEMMA FrontPending ==
  ASSUME TInv, pc = "due"
  PROVE  /\ Now \in Nat /\ ListFront(pending) \in DOMAIN pending.next
         /\ ListFront(pending).call \in Device \cup {"timer"}
         /\ Agenda(RemoveFront(pending))
         /\ DOMAIN RemoveFront(pending).next = DOMAIN pending.next \ {ListFront(pending)}
         /\ \A q \in DOMAIN RemoveFront(pending).next : q.call # ListFront(pending).call
  <1>1. Agenda(pending) /\ ~IsEmpty(pending)
    BY DEF TInv, PendingInv
  <1>2. ListFront(pending) \in DOMAIN pending.next
    BY <1>1, FrontFirst
  <1>3. /\ Agenda(RemoveFront(pending))
        /\ DOMAIN RemoveFront(pending).next = DOMAIN pending.next \ {ListFront(pending)}
    BY <1>1, RemoveFrontAgenda
  <1>4. Now \in Nat
    BY DEF TInv, TypeOK, Now
  <1> QED  BY <1>1, <1>2, <1>3, <1>4 DEF Agenda, PendingInterrupt

LEMMA ModesAfterFire ==
  ASSUME TInv, NEW p, NEW rest, Fire(p, rest), inHandler' <=> pc' = "due",
         yieldOnReturn' = yieldOnReturn \/ YieldOnReturn
  PROVE  TypeOK' /\ ModeInv'
  <1>1. yieldOnReturn' \in BOOLEAN /\ (yieldOnReturn' => yieldOnReturn \/ status # "IdleMode")
    <2>1. yieldOnReturn \in BOOLEAN
      BY DEF TInv, TypeOK
    <2>2. CASE yieldOnReturn' = yieldOnReturn
      BY <2>1, <2>2, Zenon
    <2>3. CASE YieldOnReturn
      BY <2>1, <2>3, Zenon DEF YieldOnReturn
    <2> QED  BY <2>2, <2>3
  <1>2. pc = "due" /\ UNCHANGED << level, status, oldStatus, stats, randomize >>
    BY DEF Fire
  <1>3. pc' \in {"due", IF status = "IdleMode" THEN "idled" ELSE "ticked"}
    BY Zenon DEF Fire
  <1>4. inHandler' \in BOOLEAN
    BY Zenon DEF Fire, MoreDue
  <1>5. fired'.when \in Nat /\ fired'.at \in Nat
    <2>1. p.when \in Nat
      BY <1>2, FrontPending DEF Fire, TInv, PendingInv, Agenda, PendingInterrupt
    <2> QED  BY <1>2, <2>1, FrontPending DEF Fire
  <1>6. TypeOK'
    BY <1>1, <1>2, <1>4, <1>5 DEF TInv, TypeOK
  <1>7. ModeInv'
    BY <1>1, <1>2, <1>3 DEF TInv, ModeInv
  <1> QED  BY <1>6, <1>7

LEMMA TimerStep ==
  ASSUME TInv, TimerCallBack
  PROVE  TInv'
  <1>1. PICK delay \in TimerDelay :
          /\ ListFront(pending).call = "timer"
          /\ Fire(ListFront(pending), Schedule(RemoveFront(pending), "timer", delay))
          /\ YieldOnReturn
    BY DEF TimerCallBack
  <1>2. PICK rest : rest = Schedule(RemoveFront(pending), "timer", delay)
    OBVIOUS
  <1>3. delay \in Nat /\ delay > 0 /\ pc = "due" /\ Now \in Nat
    BY <1>1, Delays, FrontPending DEF TInv, TypeOK, Fire
  <1>4. /\ Agenda(rest)
        /\ DOMAIN rest.next = (DOMAIN pending.next \ {ListFront(pending)})
                                \cup {[call |-> "timer", when |-> Now + delay]}
    BY <1>1, <1>2, <1>3, FrontPending, ScheduleAgenda
  <1>5. \E q \in DOMAIN rest.next : q.call = "timer"
    <2>1. [call |-> "timer", when |-> Now + delay].call = "timer"
      OBVIOUS
    <2> QED  BY <1>4, <2>1, Zenon
  <1>6. \A q \in DOMAIN rest.next : q \in DOMAIN pending.next \/ q.when > Now
    BY <1>3, <1>4
  <1>7. Accounted' /\ PendingInv' /\ FiredInv' /\ (inHandler' <=> pc' = "due")
    BY <1>1, <1>2, <1>4, <1>5, <1>6, FireStep
  <1> QED  BY <1>1, <1>7, ModesAfterFire DEF TInv

LEMMA DeviceStep ==
  ASSUME TInv, DeviceCallBack
  PROVE  TInv'
  <1>1. /\ ListFront(pending).call # "timer"
        /\ Fire(ListFront(pending), RemoveFront(pending))
        /\ yieldOnReturn' = yieldOnReturn
    BY DEF DeviceCallBack
  <1>2. /\ Agenda(RemoveFront(pending))
        /\ DOMAIN RemoveFront(pending).next = DOMAIN pending.next \ {ListFront(pending)}
    BY <1>1, FrontPending DEF Fire
  <1>3. \E q \in DOMAIN RemoveFront(pending).next : q.call = "timer"
    BY <1>1, <1>2 DEF TInv, PendingInv, IsPending
  <1>4. Accounted' /\ PendingInv' /\ FiredInv' /\ (inHandler' <=> pc' = "due")
    BY <1>1, <1>2, <1>3, FireStep
  <1> QED  BY <1>1, <1>4, ModesAfterFire DEF TInv

LEMMA PollStep ==
  ASSUME TInv, PollAgain
  PROVE  TInv'
  <1>0. PICK d \in Device : d = ListFront(pending).call
    BY InterruptAssumption DEF PollAgain
  <1>1. PICK latency \in Latency[d] :
          /\ Fire(ListFront(pending), Schedule(RemoveFront(pending), d, latency))
          /\ yieldOnReturn' = yieldOnReturn
    BY <1>0 DEF PollAgain
  <1>2. PICK rest : rest = Schedule(RemoveFront(pending), d, latency)
    OBVIOUS
  <1>3. latency \in Nat /\ latency > 0 /\ pc = "due" /\ Now \in Nat
    BY <1>1, Delays, FrontPending DEF TInv, TypeOK, Fire
  <1>4. /\ Agenda(rest)
        /\ DOMAIN rest.next = (DOMAIN pending.next \ {ListFront(pending)})
                                \cup {[call |-> d, when |-> Now + latency]}
    BY <1>0, <1>1, <1>2, <1>3, FrontPending, ScheduleAgenda
  <1>5. \E q \in DOMAIN rest.next : q.call = "timer"
    BY <1>0, <1>1, <1>4, InterruptAssumption DEF TInv, PendingInv, IsPending
  <1>6. \A q \in DOMAIN rest.next : q \in DOMAIN pending.next \/ q.when > Now
    BY <1>3, <1>4
  <1>7. Accounted' /\ PendingInv' /\ FiredInv' /\ (inHandler' <=> pc' = "due")
    BY <1>1, <1>2, <1>4, <1>5, <1>6, FireStep
  <1> QED  BY <1>1, <1>7, ModesAfterFire DEF TInv

LEMMA RequestStep ==
  ASSUME TInv, NEW d \in Device, Request(d)
  PROVE  TInv'
  <1>1. PICK latency \in Latency[d] : pending' = Schedule(pending, d, latency)
    BY DEF Request
  <1>2. /\ latency \in Nat /\ latency > 0 /\ Now \in Nat /\ Now' = Now
        /\ UNCHANGED << intVars, stats, randomize, pc, fired >> /\ pc = "run"
    BY <1>1, Delays DEF TInv, TypeOK, Now, Request
  <1>3. Agenda(pending) /\ \A p \in DOMAIN pending.next : p.call # d
    BY DEF TInv, PendingInv, Request, IsPending
  <1>4. PICK x : x = [call |-> d, when |-> Now + latency]
    OBVIOUS
  <1>5. Agenda(pending') /\ DOMAIN pending'.next = DOMAIN pending.next \cup {x}
    BY <1>1, <1>2, <1>3, <1>4, ScheduleAgenda
  <1>6. x.when > Now /\ x.when \in Nat
    BY <1>2, <1>4
  <1>7. fired.when \in Nat /\ fired.when <= Now
    BY DEF TInv, TypeOK, FiredInv
  <1>8. IsPending("timer")'
    BY <1>5 DEF TInv, PendingInv, IsPending
  <1>9. PendingInv'
    BY <1>2, <1>5, <1>6, <1>7, <1>8 DEF TInv, PendingInv
  <1>10. TypeOK' /\ Accounted' /\ FiredInv' /\ ModeInv'
    BY <1>2 DEF TInv, TypeOK, Accounted, FiredInv, ModeInv, intVars, Now
  <1> QED  BY <1>9, <1>10 DEF TInv

LEMMA StepTInv == TInv /\ [Next]_vars => TInv'
  <1> SUFFICES ASSUME TInv, [Next]_vars PROVE TInv'
    OBVIOUS
  <1>1. CASE UNCHANGED vars
    <2>1. Agenda(pending') /\ IsPending("timer")' /\ Now' = Now
      BY <1>1 DEF vars, TInv, PendingInv, IsPending, Now
    <2>2. PendingInv'
      BY <1>1, <2>1 DEF vars, TInv, PendingInv
    <2>3. TypeOK' /\ Accounted' /\ FiredInv' /\ ModeInv'
      BY <1>1 DEF vars, intVars, TInv, TypeOK, Accounted, FiredInv, ModeInv, Now
    <2> QED  BY <2>2, <2>3 DEF TInv
  <1>2. CASE Enable \/ Instruction \/ Yield
    BY <1>2, TickStep
  <1>3. CASE Disable \/ Trap \/ AfterTick \/ Idled \/ \E d \in Device \cup {"never"} : Sleep(d)
    BY <1>3, QuietStep
  <1>4. CASE Idle
    BY <1>4, IdleStep
  <1>5. CASE TimerCallBack \/ DeviceCallBack \/ PollAgain
    BY <1>5, TimerStep, DeviceStep, PollStep
  <1>6. CASE \E d \in Device : Request(d)
    BY <1>6, RequestStep
  <1> QED  BY <1>1, <1>2, <1>3, <1>4, <1>5, <1>6 DEF Next

LEMMA TimeInvariance == Spec => []TInv
  BY InitTInv, StepTInv, PTL DEF Spec

-----------------------------------------------------------------------------
(* No interrupt is missed, called out of order or called a SystemTick late,*)
(* and SortedList::SanityCheck holds of the list of pending interrupts,    *)
(* whatever devices there are and whenever they schedule.                  *)
THEOREM InterruptsOnTime == Spec => []OnTime
  <1>1. TInv => OnTime
    <2> SUFFICES ASSUME TInv PROVE OnTime
      OBVIOUS
    <2>1. PICK e, n : e = Elements(pending) /\ n = pending.numInList
      OBVIOUS
    <2>2. /\ InOrder(pending, e, n)
          /\ \A i, j \in 1..n : i <= j => e[i].when <= e[j].when
      BY <2>1 DEF TInv, PendingInv, Agenda
    <2>3. n \in Nat /\ e \in [1..n -> DOMAIN pending.next] /\ Len(e) = n
      BY <2>2 DEF InOrder
    <2>4. SanityCheck(pending)
      BY <2>2, SanityInOrder
    <2>5. PICK key : key = When(DOMAIN pending.next)
      OBVIOUS
    <2>6. \A i \in 1..n : key[e[i]] = e[i].when
      BY <2>3, <2>5 DEF When
    <2>7. \A i \in 1 .. Len(e) - 1 : key[e[i]] <= key[e[i + 1]]
      <3> SUFFICES ASSUME NEW i \in 1 .. n - 1 PROVE key[e[i]] <= key[e[i + 1]]
        BY <2>3
      <3>1. i \in 1..n /\ i + 1 \in 1..n /\ i <= i + 1
        BY <2>3
      <3>2. e[i].when <= e[i + 1].when
        BY <2>2, <3>1
      <3> QED  BY <2>6, <3>1, <3>2
    <2>8. SortedSanityCheck(pending, key)
      BY <2>1, <2>4, <2>7 DEF SortedSanityCheck
    <2> QED  BY <2>5, <2>8 DEF OnTime, TInv, PendingInv, FiredInv, Accounted, ModeInv
  <1> QED  BY <1>1, TimeInvariance, PTL

(* The timer is always pending, so an idle machine never halts for want of *)
(* an interrupt, and a time slice ends in the tick in which it expires.    *)
THEOREM TimerNeverStops == Spec => []TimeSlices
  <1>1. TInv => TimeSlices
    <2> SUFFICES ASSUME TInv PROVE TimeSlices
      OBVIOUS
    <2>1. Agenda(pending) /\ IsPending("timer")
      BY DEF TInv, PendingInv
    <2>2. ~IsEmpty(pending)
      BY <2>1, FrontFirst DEF IsPending
    <2> QED  BY <2>1, <2>2 DEF TimeSlices, NothingPending, TInv, ModeInv
  <1> QED  BY <1>1, TimeInvariance, PTL

-----------------------------------------------------------------------------
(* The synchronised lists.                                                 *)

(* Where a thread is between two operations, or inside one. *)
PlacesOK ==
    \A t \in Thread :
        /\ at[t] # "acquire" => Running(t) /\ Op(t) \in ListOps
        /\ at[t] \in {"waiting", "woken"} => Op(t) = "remove"

(* t has an item in its hands: removed, and not appended again yet. *)
Has(t) ==
    /\ ip[t] <= Len(Program[t])
    /\ \/ Op(t) = "remove" /\ at[t] = "leave"
       \/ Op(t) = "forward" /\ at[t] # "leave"

(* x has been appended by the operation that makes it. *)
Made(x) == x[2] < ip[x[1]] \/ (x[2] = ip[x[1]] /\ at[x[1]] = "leave")

Holds(l) == DOMAIN list[l].next

(* An item is in one list, or in the hands of one thread, or nowhere. *)
OnePlace ==
    /\ \A l \in List : Holds(l) \subseteq Item /\ \A x \in Holds(l) : Made(x)
    /\ \A l, m \in List : l # m => Holds(l) \cap Holds(m) = {}
    /\ \A t \in Thread : Has(t) => /\ item[t] \in Item /\ Made(item[t])
                                   /\ \A l \in List : item[t] \notin Holds(l)
    /\ \A t, u \in Thread : Has(t) /\ Has(u) /\ item[t] = item[u] => t = u

(* The list k is sound, and holds what of all is not gone. *)
Chain(k, gone, all) ==
    /\ InOrder(k, Elements(k), k.numInList)
    /\ Elements(k) \in Seq(Item) /\ gone \in Seq(Item)
    /\ all = gone \o Elements(k)

(* Each list is sound, and in the order of its history. *)
Chained ==
    /\ DOMAIN list = List
    /\ \A l \in List : Chain(list[l], removed[l], appended[l])

(* Who waits for an item of l waits in RemoveFront of l, once. *)
WaitsFor(l, u) == at[u] = "waiting" /\ Op(u) = "remove" /\ Of(u) = l
Once(s) == \A i, j \in 1 .. Len(s) : s[i] = s[j] => i = j
Waiters ==
    \A l \in List : /\ \A i \in 1 .. Len(listEmpty[l]) : WaitsFor(l, listEmpty[l][i])
                    /\ Once(listEmpty[l])

Served ==
    \A l \in List : listEmpty[l] # << >> => list[l].numInList <= Cardinality(Coming(l))

(* The inductive invariant of SynchList. *)
LInv == SynchListTypeOK /\ PlacesOK /\ OnePlace /\ Chained /\ Waiters /\ Served

-----------------------------------------------------------------------------
(* What a thread inside an operation on lists works on. *)
LEMMA WorksOn ==
  ASSUME ProgramsAllowed, SynchListTypeOK, NEW t \in Thread
  PROVE  /\ ip[t] \in Nat /\ ip[t] > 0 /\ Len(Program[t]) \in Nat
         /\ Running(t) =>
              /\ Op(t) \in ListOps => Of(t) \in List
              /\ Op(t) \in {"P", "V"} => Of(t) \in Semaphore
              /\ Op(t) = "fork" => Of(t) \in Thread
              /\ Op(t) = "delete" => Of(t) \in List \cup Semaphore
  <1>1. ip[t] \in Nat /\ ip[t] > 0
    BY DEF SynchListTypeOK
  <1>2. Program[t] \in Seq(Operation) /\ Forked \subseteq Thread
    BY DEF ProgramsAllowed
  <1>3. Len(Program[t]) \in Nat
    BY <1>2
  <1>4. ASSUME Running(t)
        PROVE  Program[t][ip[t]] \in Operation
    <2>1. ip[t] \in 1 .. Len(Program[t])
      BY <1>1, <1>3, <1>4 DEF Running
    <2> QED  BY <1>2, <2>1
  <1> QED  BY <1>1, <1>2, <1>3, <1>4 DEF Operation, ListOps, Op, Of

LEMMA InitLInv == ProgramsAllowed /\ SynchListInit => LInv
  <1> SUFFICES ASSUME ProgramsAllowed, SynchListInit PROVE LInv
    OBVIOUS
  <1>1. \A l \in List : list[l] = EmptyList
    BY DEF SynchListInit
  <1>2. InOrder(EmptyList, << >>, 0) /\ Elements(EmptyList) = << >>
    BY EmptyInOrder, ElementsInOrder
  <1>3. EmptyList.numInList = 0 /\ DOMAIN EmptyList.next = {}
    BY DEF EmptyList
  <1>4. SynchListTypeOK
    <2>1. << >> \in Seq(Item) /\ << >> \in Seq(Thread)
      OBVIOUS
    <2>2. \A l \in List : Elements(list[l]) \in Seq(Item)
      BY <1>1, <1>2, <2>1
    <2> QED  BY <2>1, <2>2 DEF SynchListInit, SynchListTypeOK, ProgramsAllowed
  <1>5. PlacesOK
    BY DEF SynchListInit, PlacesOK
  <1>6. OnePlace
    <2>1. \A t \in Thread : ~Has(t)
      <3> SUFFICES ASSUME NEW t \in Thread, Has(t) PROVE FALSE
        OBVIOUS
      <3>1. ip[t] = 1 /\ at[t] = "acquire"
        BY DEF SynchListInit
      <3>2. Program[t][1].op = "forward" /\ 1 <= Len(Program[t])
        BY <3>1 DEF Has, Op
      <3> QED  BY <3>2 DEF ProgramsAllowed
    <2> QED  BY <1>1, <1>3, <2>1 DEF OnePlace, Holds
  <1>7. Chained
    <2>1. \A l \in List : appended[l] = << >> /\ removed[l] = << >>
      BY DEF SynchListInit
    <2>2. Chain(EmptyList, << >>, << >>)
      BY <1>2, <1>3 DEF Chain
    <2> QED  BY <1>1, <2>1, <2>2 DEF Chained, SynchListInit
  <1>8. Waiters /\ Served
    <2>1. \A l \in List : listEmpty[l] = << >>
      BY DEF SynchListInit
    <2>2. Len(<< >>) = 0 /\ 1 .. 0 = {}
      OBVIOUS
    <2> QED  BY <2>1, <2>2 DEF Waiters, Served, Once
  <1> QED  BY <1>4, <1>5, <1>6, <1>7, <1>8 DEF LInv

-----------------------------------------------------------------------------
(* A step that leaves the lists alone keeps the items in their places if   *)
(* nobody takes one in hand.                                               *)
LEMMA QuietPlaces ==
  ASSUME OnePlace, list' = list, item' = item,
         \A u \in Thread : Has(u)' => Has(u),
         \A x \in Item : Made(x) => Made(x)'
  PROVE  OnePlace'
  <1>1. \A l : Holds(l)' = Holds(l)
    BY DEF Holds
  <1> QED  BY <1>1 DEF OnePlace

(* The places of the items after a step. *)
LEMMA PlacesAfter ==
  ASSUME \A l \in List : Holds(l)' \subseteq Item /\ \A x \in Holds(l)' : Made(x)',
         \A l, m \in List : l # m => Holds(l)' \cap Holds(m)' = {},
         \A t \in Thread : Has(t)' => \E x \in Item : /\ x = item'[t] /\ Made(x)'
                                                         /\ \A l \in List : x \notin Holds(l)',
         \A t, u \in Thread : Has(t)' /\ Has(u)' /\ item'[t] = item'[u] => t = u
  PROVE  OnePlace'
  BY DEF OnePlace, Made

LEMMA QuietChained ==
  ASSUME Chained, list' = list, appended' = appended, removed' = removed
  PROVE  Chained'
  BY DEF Chained

(* The waiters of a list after a step. *)
LEMMA WaitersAfter ==
  ASSUME \A l \in List : /\ \A i \in 1 .. Len(listEmpty'[l]) :
                              \E u : u = listEmpty'[l][i] /\ WaitsFor(l, u)'
                         /\ Once(listEmpty'[l])
  PROVE  Waiters'
  BY DEF Waiters, WaitsFor, Op, Of

(* Whoever is on its way to an item stays so. *)
LEMMA QuietServed ==
  ASSUME ProgramsAllowed, Chained, Served, NEW l \in List,
         list'[l].numInList = list[l].numInList, listEmpty'[l] # << >> => listEmpty[l] # << >>,
         Coming(l) \subseteq Coming(l)'
  PROVE  listEmpty'[l] # << >> => list'[l].numInList <= Cardinality(Coming(l)')
  <1>1. IsFiniteSet(Coming(l)')
    <2>1. Coming(l)' \subseteq Thread /\ IsFiniteSet(Thread)
      BY DEF Coming, ProgramsAllowed
    <2> QED  BY <2>1, FS_Subset
  <1>2. Cardinality(Coming(l)) <= Cardinality(Coming(l)')
    BY <1>1, FS_Subset
  <1>3. /\ Cardinality(Coming(l)) \in Nat /\ Cardinality(Coming(l)') \in Nat
        /\ list[l].numInList \in Nat
    BY <1>1, FS_Subset, FS_CardinalityType DEF Chained, Chain, InOrder
  <1> QED  BY <1>2, <1>3 DEF Served

(* Appending makes an item; a thread past its operation has made it. *)
LEMMA MadeStays ==
  ASSUME SynchListTypeOK, NEW t \in Thread, NEW x \in Item, Made(x),
         \/ ip' = ip /\ at' = [at EXCEPT ![t] = at'[t]] /\ at[t] # "leave"
         \/ ip' = [ip EXCEPT ![t] = @ + 1] /\ at' = [at EXCEPT ![t] = at'[t]]
  PROVE  Made(x)'
  <1>1. x[1] \in Thread /\ x[2] \in Nat
    BY DEF Item
  <1>2. ip[x[1]] \in Nat
    BY <1>1 DEF SynchListTypeOK
  <1>3. CASE x[1] = t
    BY <1>1, <1>2, <1>3 DEF Made, SynchListTypeOK
  <1>4. CASE x[1] # t
    BY <1>1, <1>2, <1>4 DEF Made, SynchListTypeOK
  <1> QED  BY <1>3, <1>4

(* lock->Acquire(). *)
LEMMA AcquireStep ==
  ASSUME ProgramsAllowed, LInv, NEW t \in Thread, Acquire(t)
  PROVE  LInv'
  <1>1. /\ SynchListTypeOK /\ PlacesOK /\ OnePlace /\ Chained /\ Waiters /\ Served
    BY DEF LInv
  <1>2. /\ at' = [at EXCEPT ![t] = "inside"] /\ at[t] \in {"acquire", "woken"} /\ ip' = ip
        /\ list' = list /\ appended' = appended /\ removed' = removed
        /\ item' = item /\ listEmpty' = listEmpty /\ started' = started
        /\ Running(t) /\ Op(t) \in ListOps
    BY DEF Acquire, listVars, testVars
  <1>3. at \in [Thread -> {"acquire", "inside", "waiting", "woken", "leave"}]
    BY <1>1 DEF SynchListTypeOK
  <1>4. \A u \in Thread : /\ Op(u)' = Op(u) /\ Of(u)' = Of(u)
                          /\ Running(u)' = Running(u)
                          /\ u # t => at'[u] = at[u]
    BY <1>2, <1>3 DEF Op, Of, Running
  <1>5. at'[t] = "inside"
    BY <1>2, <1>3
  <1>6. SynchListTypeOK'
    BY <1>1, <1>2, WorksOn DEF SynchListTypeOK, Acquire, testVars
  <1>7. PlacesOK'
    BY <1>1, <1>2, <1>4, <1>5 DEF PlacesOK
  <1>8. OnePlace'
    <2>1. \A u \in Thread : Has(u)' => Has(u)
      BY <1>2, <1>4, <1>5 DEF Has
    <2>2. \A x \in Item : Made(x) => Made(x)'
      BY <1>1, <1>2, <1>5, MadeStays
    <2> QED  BY <1>1, <1>2, <2>1, <2>2, QuietPlaces
  <1>9. Chained'
    BY <1>1, <1>2, QuietChained
  <1>10. Waiters'
    BY <1>1, <1>2, <1>4 DEF Waiters, WaitsFor, SynchListTypeOK
  <1>11. Served'
    <2> SUFFICES ASSUME NEW l \in List
                 PROVE  (listEmpty[l] # << >> => list[l].numInList <= Cardinality(Coming(l)))'
      BY DEF Served
    <2>1. Coming(l) \subseteq Coming(l)'
      BY <1>2, <1>4, <1>5 DEF Coming
    <2> QED  BY <1>1, <1>2, <2>1, QuietServed
  <1> QED  BY <1>6, <1>7, <1>8, <1>9, <1>10, <1>11 DEF LInv

(* RemoveFront finds the list empty and waits. *)
LEMMA WaitStep ==
  ASSUME ProgramsAllowed, LInv, NEW t \in Thread, Wait(t)
  PROVE  LInv'
  <1>1. /\ SynchListTypeOK /\ PlacesOK /\ OnePlace /\ Chained /\ Waiters /\ Served
    BY DEF LInv
  <1>2. PICK l : l = Of(t)
    OBVIOUS
  <1>3. /\ at' = [at EXCEPT ![t] = "waiting"] /\ at[t] = "inside" /\ ip' = ip
        /\ list' = list /\ appended' = appended /\ removed' = removed
        /\ item' = item /\ started' = started
        /\ listEmpty' = [listEmpty EXCEPT ![l] = Append(@, t)]
        /\ Running(t) /\ Op(t) = "remove" /\ IsEmpty(list[l])
    BY <1>2 DEF Wait, listVars, testVars
  <1>4. l \in List
    BY <1>1, <1>2, <1>3, WorksOn DEF ListOps
  <1>5. at \in [Thread -> {"acquire", "inside", "waiting", "woken", "leave"}]
    BY <1>1 DEF SynchListTypeOK
  <1>6. \A u \in Thread : /\ Op(u)' = Op(u) /\ Of(u)' = Of(u)
                          /\ Running(u)' = Running(u)
                          /\ u # t => at'[u] = at[u]
    BY <1>3, <1>5 DEF Op, Of, Running
  <1>7. at'[t] = "waiting"
    BY <1>3, <1>5
  <1>8. SynchListTypeOK'
    <2>1. listEmpty[l] \in Seq(Thread) /\ Append(listEmpty[l], t) \in Seq(Thread)
      BY <1>1, <1>4 DEF SynchListTypeOK
    <2>2. listEmpty' \in [List -> Seq(Thread)]
      BY <1>1, <1>3, <2>1 DEF SynchListTypeOK
    <2>3. holder' \in [List -> Thread \cup {NULL}]
      BY <1>1 DEF SynchListTypeOK, Wait
    <2>4. value' = value /\ deleted' = deleted
      BY DEF Wait, testVars
    <2> QED  BY <1>1, <1>3, <2>2, <2>3, <2>4 DEF SynchListTypeOK
  <1>9. PlacesOK'
    BY <1>1, <1>3, <1>6, <1>7 DEF PlacesOK, ListOps
  <1>10. OnePlace'
    <2>1. \A u \in Thread : Has(u)' => Has(u)
      BY <1>3, <1>6, <1>7 DEF Has
    <2>2. \A x \in Item : Made(x) => Made(x)'
      BY <1>1, <1>3, <1>7, MadeStays
    <2> QED  BY <1>1, <1>3, <2>1, <2>2, QuietPlaces
  <1>11. Chained'
    BY <1>1, <1>3, QuietChained
  <1>12. Waiters'
    <2>1. listEmpty \in [List -> Seq(Thread)]
      BY <1>1 DEF SynchListTypeOK
    <2>2. ASSUME NEW m \in List
          PROVE  /\ \A i \in 1 .. Len(listEmpty'[m]) :
                      \E u : u = listEmpty'[m][i] /\ WaitsFor(m, u)'
                 /\ Once(listEmpty'[m])
      <3>1. PICK q : q = listEmpty[m]
        OBVIOUS
      <3>2. q \in Seq(Thread) /\ Len(q) \in Nat
        BY <2>1, <3>1
      <3>3. Once(q) /\ \A j \in 1 .. Len(q) : q[j] \in Thread /\ WaitsFor(m, q[j])
        BY <1>1, <3>1, <3>2 DEF Waiters
      <3>4. \A j \in 1 .. Len(q) : q[j] # t /\ WaitsFor(m, q[j])'
        BY <1>3, <1>6, <3>3 DEF WaitsFor
      <3>5. CASE m # l
        <4>1. listEmpty'[m] = q
          BY <1>3, <1>4, <2>1, <3>1, <3>5
        <4> QED  BY <3>3, <3>4, <4>1
      <3>6. CASE m = l
        <4>1. listEmpty'[m] = Append(q, t)
          BY <1>3, <2>1, <3>1, <3>6
        <4>2. /\ Len(Append(q, t)) = Len(q) + 1
              /\ Append(q, t)[Len(q) + 1] = t
              /\ \A j \in 1 .. Len(q) : Append(q, t)[j] = q[j]
          BY <3>2
        <4>3. Once(Append(q, t))
          BY <3>2, <3>3, <3>4, <4>2 DEF Once
        <4>4. WaitsFor(m, t)'
          BY <1>2, <1>3, <1>6, <1>7, <3>6 DEF WaitsFor
        <4>5. \A i \in 1 .. Len(Append(q, t)) : i \in 1 .. Len(q) \/ i = Len(q) + 1
          BY <3>2, <4>2
        <4> QED  BY <3>4, <4>1, <4>2, <4>3, <4>4, <4>5
      <3> QED  BY <3>5, <3>6
    <2> QED  BY <2>2, WaitersAfter
  <1>13. Served'
    <2> SUFFICES ASSUME NEW m \in List
                 PROVE  (listEmpty[m] # << >> => list[m].numInList <= Cardinality(Coming(m)))'
      BY DEF Served
    <2>1. CASE m = l
      <3>1. list'[m].numInList = 0
        BY <1>3, <2>1 DEF IsEmpty
      <3>2. Cardinality(Coming(m)') \in Nat
        <4>1. Coming(m)' \subseteq Thread /\ IsFiniteSet(Thread)
          BY DEF Coming, ProgramsAllowed
        <4> QED  BY <4>1, FS_Subset, FS_CardinalityType
      <3> QED  BY <3>1, <3>2
    <2>2. CASE m # l
      <3>1. Coming(m) \subseteq Coming(m)'
        BY <1>2, <1>3, <1>6, <2>2 DEF Coming
      <3>2. listEmpty'[m] = listEmpty[m]
        BY <1>1, <1>3, <1>4, <2>2 DEF SynchListTypeOK
      <3> QED  BY <1>1, <1>3, <3>1, <3>2, QuietServed
    <2> QED  BY <2>1, <2>2
  <1> QED  BY <1>8, <1>9, <1>10, <1>11, <1>12, <1>13 DEF LInv

(* Apply looks at the items, and nothing else. *)
LEMMA ApplyStep ==
  ASSUME ProgramsAllowed, LInv, NEW t \in Thread, DoApply(t)
  PROVE  LInv'
  <1>1. /\ SynchListTypeOK /\ PlacesOK /\ OnePlace /\ Chained /\ Waiters /\ Served
    BY DEF LInv
  <1>2. /\ at' = [at EXCEPT ![t] = "leave"] /\ at[t] = "inside" /\ ip' = ip
        /\ list' = list /\ appended' = appended /\ removed' = removed
        /\ item' = item /\ listEmpty' = listEmpty /\ started' = started
        /\ Running(t) /\ Op(t) = "apply"
    BY DEF DoApply, listVars, testVars
  <1>3. at \in [Thread -> {"acquire", "inside", "waiting", "woken", "leave"}]
    BY <1>1 DEF SynchListTypeOK
  <1>4. \A u \in Thread : /\ Op(u)' = Op(u) /\ Of(u)' = Of(u)
                          /\ Running(u)' = Running(u)
                          /\ u # t => at'[u] = at[u]
    BY <1>2, <1>3 DEF Op, Of, Running
  <1>5. at'[t] = "leave"
    BY <1>2, <1>3
  <1>6. SynchListTypeOK'
    BY <1>1, <1>2 DEF SynchListTypeOK, DoApply, testVars
  <1>7. PlacesOK'
    BY <1>1, <1>2, <1>4, <1>5 DEF PlacesOK, ListOps
  <1>8. OnePlace'
    <2>1. \A u \in Thread : Has(u)' => Has(u)
      BY <1>2, <1>4, <1>5 DEF Has
    <2>2. \A x \in Item : Made(x) => Made(x)'
      BY <1>1, <1>2, <1>5, MadeStays
    <2> QED  BY <1>1, <1>2, <2>1, <2>2, QuietPlaces
  <1>9. Chained'
    BY <1>1, <1>2, QuietChained
  <1>10. Waiters'
    BY <1>1, <1>2, <1>4 DEF Waiters, WaitsFor, SynchListTypeOK
  <1>11. Served'
    <2> SUFFICES ASSUME NEW l \in List
                 PROVE  (listEmpty[l] # << >> => list[l].numInList <= Cardinality(Coming(l)))'
      BY DEF Served
    <2>1. Coming(l) \subseteq Coming(l)'
      BY <1>2, <1>4, <1>5 DEF Coming
    <2> QED  BY <1>1, <1>2, <2>1, QuietServed
  <1> QED  BY <1>6, <1>7, <1>8, <1>9, <1>10, <1>11 DEF LInv

(* Between two operations: t goes on to the next, with what the last       *)
(* RemoveFront gave it, and the lists stay as they are.                    *)
LEMMA NextOperation ==
  ASSUME ProgramsAllowed, LInv, NEW t \in Thread, SynchListTypeOK',
         ip' = [ip EXCEPT ![t] = @ + 1], at' = [at EXCEPT ![t] = "acquire"],
         list' = list, appended' = appended, removed' = removed,
         item' = item, listEmpty' = listEmpty, started \subseteq started',
         Running(t), at[t] = "leave" \/ Op(t) \notin ListOps
  PROVE  LInv'
  <1>1. /\ SynchListTypeOK /\ PlacesOK /\ OnePlace /\ Chained /\ Waiters /\ Served
    BY DEF LInv
  <1>2. /\ at \in [Thread -> {"acquire", "inside", "waiting", "woken", "leave"}]
        /\ ip \in [Thread -> Nat \ {0}]
    BY <1>1 DEF SynchListTypeOK
  <1>3. \A u \in Thread :
          u # t => /\ Op(u)' = Op(u) /\ Of(u)' = Of(u)
                   /\ Running(u) => Running(u)'
                   /\ ip'[u] = ip[u] /\ at'[u] = at[u]
    BY <1>2 DEF Op, Of, Running
  <1>4. at'[t] = "acquire" /\ ip'[t] = ip[t] + 1
    BY <1>2
  <1>5. at[t] \in {"leave", "acquire"}
    BY <1>1, <1>2 DEF PlacesOK
  <1>6. PlacesOK'
    BY <1>1, <1>3, <1>4 DEF PlacesOK
  <1>7. OnePlace'
    <2>1. ASSUME NEW u \in Thread, Has(u)' PROVE Has(u)
      <3>1. CASE u # t
        BY <1>3, <2>1, <3>1 DEF Has
      <3>2. CASE u = t
        <4>1. ip'[t] <= Len(Program[t]) /\ Program[t][ip'[t]].op = "forward"
          BY <1>4, <2>1, <3>2 DEF Has, Op
        <4>2. ip[t] \in Nat /\ Len(Program[t]) \in Nat /\ ip[t] > 0
          BY <1>1, WorksOn
        <4>3. ip'[t] \in 1 .. Len(Program[t]) /\ ip'[t] - 1 = ip[t] /\ ip[t] <= Len(Program[t])
          BY <1>4, <4>1, <4>2
        <4>4. Program[t][ip[t]].op = "remove"
          BY <4>1, <4>3 DEF ProgramsAllowed
        <4> QED  BY <3>2, <4>3, <4>4 DEF Has, Op, ListOps
      <3> QED  BY <3>1, <3>2
    <2>2. \A x \in Item : Made(x) => Made(x)'
      BY <1>1, <1>4, MadeStays
    <2> QED  BY <1>1, <2>1, <2>2, QuietPlaces
  <1>8. Chained'
    BY <1>1, QuietChained
  <1>9. Waiters'
    BY <1>1, <1>3, <1>5 DEF Waiters, WaitsFor, SynchListTypeOK
  <1>10. Served'
    <2> SUFFICES ASSUME NEW l \in List
                 PROVE  (listEmpty[l] # << >> => list[l].numInList <= Cardinality(Coming(l)))'
      BY DEF Served
    <2>1. Coming(l) \subseteq Coming(l)'
      BY <1>3, <1>5 DEF Coming
    <2> QED  BY <1>1, <2>1, QuietServed
  <1> QED  BY <1>6, <1>7, <1>8, <1>9, <1>10 DEF LInv

(* lock->Release(), and the return. *)
LEMMA LeaveStep ==
  ASSUME ProgramsAllowed, LInv, NEW t \in Thread, Leave(t)
  PROVE  LInv'
  <1>1. SynchListTypeOK /\ Running(t)
    BY DEF LInv, PlacesOK, Leave
  <1>2. SynchListTypeOK'
    <2>1. /\ holder' \in [List -> Thread \cup {NULL}]
          /\ at' \in [Thread -> {"acquire", "inside", "waiting", "woken", "leave"}]
      BY <1>1 DEF SynchListTypeOK, Leave
    <2>2. ip' \in [Thread -> Nat \ {0}]
      BY <1>1 DEF SynchListTypeOK, Leave
    <2> QED  BY <1>1, <2>1, <2>2 DEF SynchListTypeOK, Leave, listVars, testVars
  <1> QED  BY <1>1, <1>2, NextOperation DEF Leave, listVars, testVars

(* The operations on semaphores and threads. *)
LEMMA OtherStep ==
  ASSUME ProgramsAllowed, LInv, NEW t \in Thread, SemaphoreOp(t) \/ ThreadOp(t)
  PROVE  LInv'
  <1>1. SynchListTypeOK
    BY DEF LInv
  <1>2. /\ Running(t) /\ Op(t) \in {"P", "V", "fork", "yield", "delete"}
        /\ Op(t) \notin ListOps
    BY DEF SemaphoreOp, ThreadOp, ListOps
  <1>3. /\ Op(t) \in {"P", "V"} => Of(t) \in Semaphore
        /\ Op(t) = "fork" => Of(t) \in Thread
        /\ Op(t) = "delete" => Of(t) \in List \cup Semaphore
    BY <1>1, <1>2, WorksOn
  <1>4. at[t] = "acquire" /\ at = [at EXCEPT ![t] = "acquire"]
    BY <1>1, <1>2 DEF LInv, PlacesOK, SynchListTypeOK
  <1>5. /\ ip' = [ip EXCEPT ![t] = @ + 1] /\ at' = at
        /\ list' = list /\ appended' = appended /\ removed' = removed
        /\ item' = item /\ listEmpty' = listEmpty /\ holder' = holder
    BY DEF SemaphoreOp, ThreadOp, listVars
  <1>6. /\ value' \in [Semaphore -> Nat] /\ started' \in SUBSET Thread
        /\ deleted' \in SUBSET (List \cup Semaphore) /\ started \subseteq started'
    <2>1. CASE SemaphoreOp(t)
      BY <1>1, <1>3, <2>1 DEF SemaphoreOp, SynchListTypeOK
    <2>2. CASE ThreadOp(t)
      BY <1>1, <1>3, <2>2 DEF ThreadOp, SynchListTypeOK
    <2> QED  BY <2>1, <2>2
  <1>7. SynchListTypeOK'
    BY <1>1, <1>5, <1>6 DEF SynchListTypeOK
  <1> QED  BY <1>2, <1>4, <1>5, <1>6, <1>7, NextOperation

(* What a list object is after Append and after RemoveFront. *)
LEMMA AppendChain ==
  ASSUME NEW k, NEW gone, NEW all, Chain(k, gone, all),
         NEW x \in Item, x \notin DOMAIN k.next, x # NULL
  PROVE  /\ Chain(ListAppend(k, x), gone, Append(all, x))
         /\ DOMAIN ListAppend(k, x).next = DOMAIN k.next \cup {x}
         /\ ListAppend(k, x).numInList = k.numInList + 1
  <1>1. PICK e, n : e = Elements(k) /\ n = k.numInList
    OBVIOUS
  <1>2. /\ InOrder(k, e, n) /\ e \in Seq(Item) /\ n \in Nat /\ e \in [1..n -> DOMAIN k.next]
        /\ gone \in Seq(Item) /\ all = gone \o e
    BY <1>1 DEF InOrder, Chain
  <1>3. Len(e) = n
    BY <1>2
  <1>4. InOrder(ListAppend(k, x), Inserted(e, n, n, x), n + 1)
    BY <1>2, AppendInOrder
  <1>5. Inserted(e, n, n, x) = Append(e, x)
    <2>1. /\ Append(e, x) \in [1..(n + 1) -> Item]
          /\ \A i \in 1..n : Append(e, x)[i] = e[i]
          /\ Append(e, x)[n + 1] = x
      <3>1. /\ Append(e, x) \in Seq(Item) /\ Len(Append(e, x)) = n + 1
            /\ \A i \in 1..n : Append(e, x)[i] = e[i]
            /\ Append(e, x)[n + 1] = x
        BY <1>2, <1>3, AppendProperties
      <3> QED  BY <3>1, LenProperties
    <2>2. /\ DOMAIN Inserted(e, n, n, x) = 1..(n + 1)
          /\ Inserted(e, n, n, x) = [i \in 1..(n + 1) |-> Inserted(e, n, n, x)[i]]
          /\ \A i \in 1..n : Inserted(e, n, n, x)[i] = e[i]
          /\ Inserted(e, n, n, x)[n + 1] = x
      BY <1>2 DEF Inserted
    <2>3. \A i \in 1..(n + 1) : i \in 1..n \/ i = n + 1
      BY <1>2
    <2>4. \A i \in 1..(n + 1) : Append(e, x)[i] = Inserted(e, n, n, x)[i]
      BY <2>1, <2>2, <2>3
    <2> QED  BY <2>1, <2>2, <2>4
  <1>6. Elements(ListAppend(k, x)) = Append(e, x) /\ ListAppend(k, x).numInList = n + 1
    <2>1. Elements(ListAppend(k, x)) = Append(e, x)
      BY <1>4, <1>5, ElementsInOrder
    <2> QED  BY <1>1, <2>1 DEF ListAppend
  <1>7. DOMAIN ListAppend(k, x).next = DOMAIN k.next \cup {x}
    BY DEF ListAppend, Allocated
  <1>8. Append(gone \o e, x) = gone \o Append(e, x)
    <2>1. << x >> \in Seq(Item) /\ gone \o e \in Seq(Item)
      BY <1>2, ConcatProperties
    <2>2. Append(gone \o e, x) = (gone \o e) \o << x >> /\ Append(e, x) = e \o << x >>
      BY <1>2, <2>1, AppendIsConcat
    <2>3. (gone \o e) \o << x >> = gone \o (e \o << x >>)
      BY <1>2, <2>1, ConcatAssociative
    <2> QED  BY <2>2, <2>3
  <1>9. Append(e, x) \in Seq(Item)
    BY <1>2, AppendProperties
  <1> QED  BY <1>1, <1>2, <1>4, <1>5, <1>6, <1>7, <1>8, <1>9 DEF Chain

LEMMA RemoveChain ==
  ASSUME NEW k, NEW gone, NEW all, Chain(k, gone, all), ~IsEmpty(k)
  PROVE  /\ Chain(RemoveFront(k), Append(gone, ListFront(k)), all)
         /\ DOMAIN RemoveFront(k).next = DOMAIN k.next \ {ListFront(k)}
         /\ ListFront(k) \in DOMAIN k.next /\ ListFront(k) \in Item
         /\ RemoveFront(k).numInList = k.numInList - 1 /\ k.numInList \in Nat \ {0}
  <1>1. PICK e, n : e = Elements(k) /\ n = k.numInList
    OBVIOUS
  <1>2. /\ InOrder(k, e, n) /\ e \in Seq(Item) /\ n \in Nat /\ e \in [1..n -> DOMAIN k.next]
        /\ gone \in Seq(Item) /\ all = gone \o e
    BY <1>1 DEF InOrder, Chain
  <1>3. Len(e) = n /\ n # 0 /\ 1 \in 1..n
    BY <1>1, <1>2 DEF IsEmpty
  <1>4. PICK f : f = [i \in 1..(n - 1) |-> e[i + 1]]
    OBVIOUS
  <1>5. /\ ListFront(k) = e[1] /\ ListFront(k) \in DOMAIN k.next
        /\ DOMAIN RemoveFront(k).next = DOMAIN k.next \ {ListFront(k)}
        /\ InOrder(RemoveFront(k), f, n - 1)
    BY <1>2, <1>3, <1>4, RemoveFrontInOrder
  <1>6. Elements(RemoveFront(k)) = f /\ RemoveFront(k).numInList = n - 1
    <2>1. Elements(RemoveFront(k)) = f
      BY <1>5, ElementsInOrder
    <2> QED  BY <1>1, <2>1 DEF RemoveFront
  <1>7. e[1] \in Item /\ f \in Seq(Item) /\ Len(f) = n - 1
    <2>1. \A i \in 1..n : e[i] \in Item
      BY <1>2, <1>3
    <2>2. f \in [1..(n - 1) -> Item]
      BY <1>2, <1>3, <1>4, <2>1
    <2>3. n - 1 \in Nat
      BY <1>2, <1>3
    <2>4. f \in Seq(Item)
      BY <2>2, <2>3
    <2>5. Len(f) = n - 1
      BY <2>2, <2>3, <2>4
    <2> QED  BY <1>3, <2>1, <2>4, <2>5
  <1>8. << e[1] >> \o f = e
    <2>1. << e[1] >> \in Seq(Item) /\ Len(<< e[1] >>) = 1
      BY <1>7
    <2>2. PICK b : b = << e[1] >> \o f
      OBVIOUS
    <2>3. /\ b \in Seq(Item) /\ Len(b) = 1 + (n - 1)
          /\ \A i \in 1..(1 + (n - 1)) : b[i] = IF i <= 1 THEN << e[1] >>[i] ELSE f[i - 1]
      BY <1>7, <2>1, <2>2, ConcatProperties, SMT
    <2>4. Len(b) = n
      BY <1>2, <2>3
    <2>5. ASSUME NEW i \in 1..n PROVE b[i] = e[i]
      <3>1. CASE i = 1
        <4>1. << e[1] >>[1] = e[1]
          OBVIOUS
        <4>2. 1 \in 1..(1 + (n - 1)) /\ 1 <= 1
          BY <1>2, <1>3
        <4>3. b[1] = << e[1] >>[1]
          BY <2>3, <4>2
        <4> QED  BY <3>1, <4>1, <4>3
      <3>2. CASE i # 1
        <4>1. i - 1 \in 1..(n - 1) /\ (i - 1) + 1 = i /\ ~(i <= 1) /\ i \in 1..(1 + (n - 1))
          BY <1>2, <3>2
        <4>2. f[i - 1] = e[i]
          BY <1>4, <4>1
        <4> QED  BY <2>3, <4>1, <4>2
      <3> QED  BY <3>1, <3>2
    <2> QED  BY <1>2, <1>3, <2>2, <2>3, <2>4, <2>5, SeqEqual
  <1>9. gone \o e = Append(gone, e[1]) \o f
    <2>1. << e[1] >> \in Seq(Item)
      BY <1>7
    <2>2. Append(gone, e[1]) = gone \o << e[1] >>
      BY <1>7, AppendIsConcat
    <2>3. (gone \o << e[1] >>) \o f = gone \o (<< e[1] >> \o f)
      BY <1>7, <2>1, ConcatAssociative
    <2> QED  BY <1>8, <2>2, <2>3
  <1>10. Append(gone, e[1]) \in Seq(Item)
    BY <1>2, <1>7, AppendProperties
  <1> QED  BY <1>1, <1>2, <1>3, <1>5, <1>6, <1>7, <1>9, <1>10 DEF Chain

(* What Append is called with is in no list and in nobody else's hands. *)
LEMMA NewItem ==
  ASSUME ProgramsAllowed, LInv, NEW t \in Thread, Running(t),
         at[t] = "inside", Op(t) \in {"append", "forward"},
         NEW new, new = IF Op(t) = "forward" THEN item[t] ELSE << t, ip[t] >>
  PROVE  /\ new \in Item /\ new # NULL
         /\ \A l \in List : new \notin Holds(l)
         /\ \A u \in Thread : u # t /\ Has(u) => item[u] # new
         /\ Op(t) = "forward" => Made(new)
  <1>1. OnePlace /\ ip[t] \in Nat
    BY WorksOn DEF LInv
  <1>2. NULL \notin Item
    BY DEF ProgramsAllowed
  <1>3. CASE Op(t) = "forward"
    <2>1. Has(t) /\ new = item[t]
      BY <1>3 DEF Has, Running
    <2> QED  BY <1>1, <1>2, <2>1 DEF OnePlace
  <1>4. CASE Op(t) = "append"
    <2>1. new = << t, ip[t] >> /\ new[1] = t /\ new[2] = ip[t]
      BY <1>4
    <2>2. new \in Item
      BY <1>1, <2>1 DEF Item
    <2>3. ~Made(new)
      BY <1>1, <2>1 DEF Made
    <2> QED  BY <1>1, <1>2, <1>4, <2>2, <2>3 DEF OnePlace
  <1> QED  BY <1>3, <1>4

(* Append: the item goes behind the others, and a waiter wakes up. *)
LEMMA AppendStep ==
  ASSUME ProgramsAllowed, LInv, NEW t \in Thread, DoAppend(t)
  PROVE  LInv'
  <1>1. /\ SynchListTypeOK /\ PlacesOK /\ OnePlace /\ Chained /\ Waiters /\ Served
    BY DEF LInv
  <1>2. PICK l, new, woken :
          /\ l = Of(t)
          /\ new = (IF Op(t) = "forward" THEN item[t] ELSE << t, ip[t] >>)
          /\ woken = Signalled(l)
    OBVIOUS
  <1>3. /\ Running(t) /\ at[t] = "inside" /\ Op(t) \in {"append", "forward"}
        /\ list' = [list EXCEPT ![l] = ListAppend(@, new)]
        /\ appended' = [appended EXCEPT ![l] = Append(@, new)]
        /\ listEmpty' = [listEmpty EXCEPT ![l] = IF woken = {} THEN @ ELSE Tail(@)]
        /\ at' = [u \in Thread |-> IF u = t THEN "leave"
                                   ELSE IF u \in woken THEN "woken" ELSE at[u]]
        /\ removed' = removed /\ item' = item /\ ip' = ip /\ started' = started
        /\ holder' = holder /\ value' = value /\ deleted' = deleted
    BY <1>2 DEF DoAppend, testVars
  <1>4. l \in List
    BY <1>1, <1>2, <1>3, WorksOn DEF ListOps
  <1>5. /\ new \in Item /\ new # NULL
        /\ \A m \in List : new \notin Holds(m)
        /\ \A u \in Thread : u # t /\ Has(u) => item[u] # new
        /\ Op(t) = "forward" => Made(new)
    BY <1>2, <1>3, NewItem
  <1>6. PICK q : q = listEmpty[l]
    OBVIOUS
  <1>7. /\ q \in Seq(Thread) /\ Len(q) \in Nat /\ Once(q)
        /\ \A i \in 1 .. Len(q) : q[i] \in Thread /\ WaitsFor(l, q[i])
        /\ q # << >> => Len(q) > 0
    BY <1>1, <1>4, <1>6 DEF SynchListTypeOK, Waiters
  <1>8. woken = IF q = << >> THEN {} ELSE {q[1]}
    BY <1>2, <1>6, <1>7 DEF Signalled
  <1>9. \A u \in woken : u \in Thread /\ WaitsFor(l, u) /\ u # t /\ Running(u)
    <2>1. \A u \in woken : u \in Thread /\ WaitsFor(l, u) /\ u # t
      BY <1>3, <1>7, <1>8 DEF WaitsFor
    <2> QED  BY <1>1, <2>1 DEF PlacesOK, WaitsFor
  <1>10. \A u \in Thread : /\ Op(u)' = Op(u) /\ Of(u)' = Of(u)
                           /\ Running(u)' = Running(u)
                           /\ u # t /\ u \notin woken => at'[u] = at[u]
                           /\ u \in woken => at'[u] = "woken" /\ at[u] = "waiting" /\ Op(u) = "remove"
    BY <1>3, <1>9 DEF Op, Of, Running, WaitsFor
  <1>11. at'[t] = "leave"
    BY <1>3
  <1>12. PICK k : k = list[l]
    OBVIOUS
  <1>13. /\ Chain(k, removed[l], appended[l]) /\ DOMAIN k.next = Holds(l)
         /\ DOMAIN list = List /\ appended \in [List -> Seq(Item)] /\ k.numInList \in Nat
    <2>1. Chain(k, removed[l], appended[l]) /\ DOMAIN k.next = Holds(l) /\ DOMAIN list = List
      BY <1>1, <1>4, <1>12 DEF Chained, Holds
    <2>2. k.numInList \in Nat
      BY <2>1 DEF Chain, InOrder
    <2> QED  BY <1>1, <2>1, <2>2 DEF SynchListTypeOK
  <1>14. /\ Chain(ListAppend(k, new), removed[l], Append(appended[l], new))
         /\ DOMAIN ListAppend(k, new).next = Holds(l) \cup {new}
         /\ ListAppend(k, new).numInList = k.numInList + 1
    BY <1>4, <1>5, <1>13, AppendChain
  <1>15. /\ list'[l] = ListAppend(k, new) /\ appended'[l] = Append(appended[l], new)
         /\ DOMAIN list' = List
         /\ \A m \in List : m # l => list'[m] = list[m] /\ appended'[m] = appended[m]
    BY <1>3, <1>4, <1>12, <1>13
  <1>16. SynchListTypeOK'
    <2>1. \A m \in List : Elements(list'[m]) \in Seq(Item)
      BY <1>1, <1>14, <1>15 DEF SynchListTypeOK, Chain
    <2>2. appended' \in [List -> Seq(Item)]
      BY <1>3, <1>4, <1>5, <1>13
    <2>3. listEmpty' \in [List -> Seq(Thread)]
      BY <1>1, <1>3, <1>4, <1>6, <1>7, <1>8 DEF SynchListTypeOK
    <2>4. at' \in [Thread -> {"acquire", "inside", "waiting", "woken", "leave"}]
      BY <1>1, <1>3 DEF SynchListTypeOK
    <2> QED  BY <1>1, <1>3, <2>1, <2>2, <2>3, <2>4 DEF SynchListTypeOK
  <1>17. PlacesOK'
    BY <1>1, <1>3, <1>9, <1>10, <1>11 DEF PlacesOK, ListOps
  <1>18. OnePlace'
    <2>1. Holds(l)' = Holds(l) \cup {new} /\ \A m \in List : m # l => Holds(m)' = Holds(m)
      BY <1>14, <1>15 DEF Holds
    <2>2. ~Has(t)' /\ \A u \in Thread : u # t /\ Has(u)' => Has(u)
      BY <1>3, <1>10, <1>11 DEF Has
    <2>3. ASSUME NEW x \in Item, Made(x) PROVE Made(x)'
      <3>1. x[1] \in Thread /\ x[2] \in Nat /\ ip[x[1]] \in Nat
        BY <1>1, WorksOn DEF Item
      <3>2. CASE x[1] = t
        BY <1>3, <2>3, <3>1, <3>2 DEF Made
      <3>3. CASE x[1] # t
        BY <1>3, <1>10, <2>3, <3>1, <3>3 DEF Made
      <3> QED  BY <3>2, <3>3
    <2>4. Made(new)'
      <3>1. CASE Op(t) = "forward"
        BY <1>5, <2>3, <3>1
      <3>2. CASE Op(t) # "forward"
        BY <1>2, <1>3, <1>11, <3>2 DEF Made
      <3> QED  BY <3>1, <3>2
    <2>5. \A m \in List : Holds(m)' \subseteq Item /\ \A x \in Holds(m)' : Made(x)'
      BY <1>1, <1>5, <2>1, <2>3, <2>4 DEF OnePlace
    <2>6. \A m, o \in List : m # o => Holds(m)' \cap Holds(o)' = {}
      BY <1>1, <1>5, <2>1 DEF OnePlace
    <2>7. ASSUME NEW u \in Thread, Has(u)'
          PROVE  \E x \in Item : /\ x = item'[u] /\ Made(x)'
                                    /\ \A m \in List : x \notin Holds(m)'
      <3>1. Has(u) /\ u # t
        BY <2>2, <2>7
      <3>2. item[u] \in Item /\ Made(item[u]) /\ item[u] # new
            /\ \A m \in List : item[u] \notin Holds(m)
        BY <1>1, <1>5, <3>1 DEF OnePlace
      <3>3. PICK x \in Item : x = item[u]
        BY <3>2
      <3>4. Made(x)'
        BY <2>3, <3>2, <3>3
      <3>5. \A m \in List : x \notin Holds(m)'
        BY <2>1, <3>2, <3>3
      <3> QED  BY <1>3, <3>3, <3>4, <3>5
    <2>8. \A u, v \in Thread : Has(u)' /\ Has(v)' /\ item'[u] = item'[v] => u = v
      BY <1>1, <1>3, <2>2 DEF OnePlace
    <2> QED  BY <2>5, <2>6, <2>7, <2>8, PlacesAfter
  <1>19. Chained'
    BY <1>1, <1>3, <1>14, <1>15 DEF Chained
  <1>20. Waiters'
    <2>1. ASSUME NEW m \in List
          PROVE  /\ \A i \in 1 .. Len(listEmpty'[m]) :
                      \E u : u = listEmpty'[m][i] /\ WaitsFor(m, u)'
                 /\ Once(listEmpty'[m])
      <3>1. CASE m # l
        <4>1. PICK p : p = listEmpty[m]
          OBVIOUS
        <4>2. listEmpty'[m] = p /\ p \in Seq(Thread)
          BY <1>1, <1>3, <1>4, <3>1, <4>1 DEF SynchListTypeOK
        <4>3. Once(p) /\ \A i \in 1 .. Len(p) : p[i] \in Thread /\ WaitsFor(m, p[i])
          BY <1>1, <4>1, <4>2 DEF Waiters
        <4>4. \A i \in 1 .. Len(p) : p[i] # t /\ p[i] \notin woken
          BY <1>3, <1>9, <3>1, <4>3 DEF WaitsFor
        <4>5. \A i \in 1 .. Len(p) : WaitsFor(m, p[i])'
          BY <1>10, <4>3, <4>4 DEF WaitsFor
        <4> QED  BY <4>2, <4>3, <4>5
      <3>2. CASE m = l
        <4>1. CASE q = << >>
          <5>1. listEmpty'[m] = << >>
            BY <1>1, <1>3, <1>6, <1>8, <3>2, <4>1 DEF SynchListTypeOK
          <5> QED  BY <5>1 DEF Once
        <4>2. CASE q # << >>
          <5>1. listEmpty'[m] = Tail(q)
            BY <1>1, <1>3, <1>6, <1>8, <3>2, <4>2 DEF SynchListTypeOK
          <5>2. /\ Len(Tail(q)) = Len(q) - 1
                /\ \A i \in 1 .. Len(Tail(q)) : Tail(q)[i] = q[i + 1] /\ i + 1 \in 1 .. Len(q)
            BY <1>7, <4>2
          <5>3. \A i \in 1 .. Len(Tail(q)) : q[i + 1] # q[1]
            BY <1>7, <4>2, <5>2 DEF Once
          <5>4. \A i \in 1 .. Len(Tail(q)) :
                   /\ q[i + 1] \in Thread /\ WaitsFor(l, q[i + 1])
                   /\ q[i + 1] # t /\ q[i + 1] \notin woken
            BY <1>3, <1>7, <1>8, <4>2, <5>2, <5>3 DEF WaitsFor
          <5>5. \A i \in 1 .. Len(Tail(q)) : WaitsFor(l, q[i + 1])'
            BY <1>10, <5>4 DEF WaitsFor
          <5>6. Once(Tail(q))
            <6> SUFFICES ASSUME NEW i \in 1 .. Len(Tail(q)), NEW j \in 1 .. Len(Tail(q)),
                                Tail(q)[i] = Tail(q)[j]
                         PROVE  i = j
              BY DEF Once
            <6>1. i + 1 = j + 1
              BY <1>7, <5>2 DEF Once
            <6> QED  BY <6>1
          <5> QED  BY <3>2, <5>1, <5>2, <5>5, <5>6
        <4> QED  BY <4>1, <4>2
      <3> QED  BY <3>1, <3>2
    <2> QED  BY <2>1, WaitersAfter
  <1>21. Served'
    <2> SUFFICES ASSUME NEW m \in List
                 PROVE  (listEmpty[m] # << >> => list[m].numInList <= Cardinality(Coming(m)))'
      BY DEF Served
    <2>1. IsFiniteSet(Coming(m))
      <3>1. Coming(m) \subseteq Thread /\ IsFiniteSet(Thread)
        BY DEF Coming, ProgramsAllowed
      <3> QED  BY <3>1, FS_Subset
    <2>2. CASE m # l
      <3>1. Coming(m) \subseteq Coming(m)'
        BY <1>3, <1>10 DEF Coming
      <3>2. listEmpty'[m] = listEmpty[m]
        BY <1>1, <1>3, <1>4, <2>2 DEF SynchListTypeOK
      <3> QED  BY <1>1, <1>15, <2>2, <3>1, <3>2, QuietServed
    <2>3. CASE m = l
      <3>1. CASE q = << >>
        BY <1>1, <1>3, <1>6, <1>8, <2>3, <3>1 DEF SynchListTypeOK
      <3>2. CASE q # << >>
        <4>1. q[1] \in woken /\ woken = {q[1]}
          BY <1>8, <3>2
        <4>2. q[1] \notin Coming(m)
          BY <1>10, <4>1 DEF Coming
        <4>3. Coming(m)' = Coming(m) \cup {q[1]}
          <5>1. ASSUME NEW u \in Coming(m)' PROVE u \in Coming(m) \cup {q[1]}
            BY <1>10, <1>11, <4>1, <5>1 DEF Coming
          <5>2. ASSUME NEW u \in Coming(m) PROVE u \in Coming(m)'
            BY <1>3, <1>10, <1>11, <5>2 DEF Coming
          <5>3. q[1] \in Coming(m)'
            BY <1>9, <1>10, <2>3, <4>1 DEF Coming, WaitsFor
          <5> QED  BY <5>1, <5>2, <5>3
        <4>4. Cardinality(Coming(m)') = Cardinality(Coming(m)) + 1
          BY <2>1, <4>2, <4>3, FS_AddElement
        <4>5. k.numInList <= Cardinality(Coming(m)) /\ k.numInList \in Nat
              /\ Cardinality(Coming(m)) \in Nat
          BY <1>1, <1>6, <1>12, <1>13, <2>1, <2>3, <3>2, FS_CardinalityType DEF Served
        <4>6. list'[m].numInList = k.numInList + 1
          BY <1>14, <1>15, <2>3
        <4> QED  BY <4>4, <4>5, <4>6
      <3> QED  BY <3>1, <3>2
    <2> QED  BY <2>2, <2>3
  <1> QED  BY <1>16, <1>17, <1>18, <1>19, <1>20, <1>21 DEF LInv

(* RemoveFront: the first item goes into the hands of t. *)
LEMMA RemoveStep ==
  ASSUME ProgramsAllowed, LInv, NEW t \in Thread, DoRemove(t)
  PROVE  LInv'
  <1>1. /\ SynchListTypeOK /\ PlacesOK /\ OnePlace /\ Chained /\ Waiters /\ Served
    BY DEF LInv
  <1>2. PICK l, k, y : l = Of(t) /\ k = list[l] /\ y = ListFront(k)
    OBVIOUS
  <1>3. /\ Running(t) /\ at[t] = "inside" /\ Op(t) = "remove" /\ ~IsEmpty(k)
        /\ list' = [list EXCEPT ![l] = RemoveFront(k)]
        /\ removed' = [removed EXCEPT ![l] = Append(@, y)]
        /\ item' = [item EXCEPT ![t] = y]
        /\ at' = [at EXCEPT ![t] = "leave"]
        /\ appended' = appended /\ listEmpty' = listEmpty /\ ip' = ip /\ started' = started
        /\ holder' = holder /\ value' = value /\ deleted' = deleted
    BY <1>2 DEF DoRemove, testVars
  <1>4. l \in List
    BY <1>1, <1>2, <1>3, WorksOn DEF ListOps
  <1>5. /\ at \in [Thread -> {"acquire", "inside", "waiting", "woken", "leave"}]
        /\ item \in [Thread -> Item \cup {NULL}]
        /\ removed \in [List -> Seq(Item)]
    BY <1>1 DEF SynchListTypeOK
  <1>6. \A u \in Thread : /\ Op(u)' = Op(u) /\ Of(u)' = Of(u)
                          /\ Running(u)' = Running(u)
                          /\ u # t => at'[u] = at[u] /\ item'[u] = item[u]
    BY <1>3, <1>5 DEF Op, Of, Running
  <1>7. at'[t] = "leave" /\ item'[t] = y
    BY <1>3, <1>5
  <1>8. /\ Chain(k, removed[l], appended[l]) /\ DOMAIN k.next = Holds(l)
        /\ DOMAIN list = List
    BY <1>1, <1>2, <1>4 DEF Chained, Holds
  <1>9. /\ Chain(RemoveFront(k), Append(removed[l], y), appended[l])
        /\ DOMAIN RemoveFront(k).next = Holds(l) \ {y}
        /\ y \in Holds(l) /\ y \in Item
        /\ RemoveFront(k).numInList = k.numInList - 1 /\ k.numInList \in Nat \ {0}
    BY <1>2, <1>3, <1>8, RemoveChain
  <1>10. /\ list'[l] = RemoveFront(k) /\ removed'[l] = Append(removed[l], y)
         /\ DOMAIN list' = List
         /\ \A m \in List : m # l => list'[m] = list[m] /\ removed'[m] = removed[m]
    BY <1>3, <1>4, <1>5, <1>8
  <1>11. SynchListTypeOK'
    <2>1. \A m \in List : Elements(list'[m]) \in Seq(Item)
      BY <1>1, <1>9, <1>10 DEF SynchListTypeOK, Chain
    <2>2. removed' \in [List -> Seq(Item)]
      BY <1>3, <1>4, <1>5, <1>9
    <2>3. /\ at' \in [Thread -> {"acquire", "inside", "waiting", "woken", "leave"}]
          /\ item' \in [Thread -> Item \cup {NULL}]
      BY <1>3, <1>5, <1>9
    <2> QED  BY <1>1, <1>3, <2>1, <2>2, <2>3 DEF SynchListTypeOK
  <1>12. PlacesOK'
    BY <1>1, <1>3, <1>6, <1>7 DEF PlacesOK, ListOps
  <1>13. OnePlace'
    <2>1. Holds(l)' = Holds(l) \ {y} /\ \A m \in List : m # l => Holds(m)' = Holds(m)
      BY <1>9, <1>10 DEF Holds
    <2>2. \A u \in Thread : u # t /\ Has(u)' => Has(u)
      BY <1>3, <1>6 DEF Has
    <2>3. \A x \in Item : Made(x) => Made(x)'
      BY <1>1, <1>3, <1>7, MadeStays
    <2>4. \A m \in List : Holds(m)' \subseteq Item /\ \A x \in Holds(m)' : Made(x)'
      BY <1>1, <2>1, <2>3 DEF OnePlace
    <2>5. \A m, o \in List : m # o => Holds(m)' \cap Holds(o)' = {}
      BY <1>1, <2>1 DEF OnePlace
    <2>6. Made(y) /\ \A m \in List : m # l => y \notin Holds(m)
      BY <1>1, <1>4, <1>9 DEF OnePlace
    <2>7. \A u \in Thread : u # t /\ Has(u) =>
             /\ item[u] \in Item /\ Made(item[u]) /\ item[u] # y
             /\ \A m \in List : item[u] \notin Holds(m)
      BY <1>1, <1>4, <1>9 DEF OnePlace
    <2>8. ASSUME NEW u \in Thread, Has(u)'
          PROVE  \E x \in Item : /\ x = item'[u] /\ Made(x)'
                                    /\ \A m \in List : x \notin Holds(m)'
      <3>1. CASE u = t
        <4>1. Made(y)' /\ \A m \in List : y \notin Holds(m)'
          BY <1>9, <2>1, <2>3, <2>6
        <4> QED  BY <1>7, <1>9, <3>1, <4>1
      <3>2. CASE u # t
        <4>1. PICK x \in Item : x = item[u]
          BY <2>2, <2>7, <2>8, <3>2
        <4>2. Made(x)' /\ \A m \in List : x \notin Holds(m)'
          BY <2>1, <2>2, <2>3, <2>7, <2>8, <3>2, <4>1
        <4> QED  BY <1>6, <3>2, <4>1, <4>2
      <3> QED  BY <3>1, <3>2
    <2>9. \A u, v \in Thread : Has(u)' /\ Has(v)' /\ item'[u] = item'[v] => u = v
      BY <1>1, <1>6, <1>7, <2>2, <2>7 DEF OnePlace
    <2> QED  BY <2>4, <2>5, <2>8, <2>9, PlacesAfter
  <1>14. Chained'
    BY <1>1, <1>3, <1>9, <1>10 DEF Chained
  <1>15. Waiters'
    BY <1>1, <1>3, <1>6 DEF Waiters, WaitsFor, SynchListTypeOK
  <1>16. Served'
    <2> SUFFICES ASSUME NEW m \in List
                 PROVE  (listEmpty[m] # << >> => list[m].numInList <= Cardinality(Coming(m)))'
      BY DEF Served
    <2>1. IsFiniteSet(Coming(m))
      <3>1. Coming(m) \subseteq Thread /\ IsFiniteSet(Thread)
        BY DEF Coming, ProgramsAllowed
      <3> QED  BY <3>1, FS_Subset
    <2>2. CASE m # l
      <3>1. Coming(m) \subseteq Coming(m)'
        BY <1>2, <1>6, <2>2 DEF Coming
      <3> QED  BY <1>1, <1>3, <1>10, <2>2, <3>1, QuietServed
    <2>3. CASE m = l
      <3>1. t \in Coming(m)
        BY <1>2, <1>3, <2>3 DEF Coming
      <3>2. Coming(m)' = Coming(m) \ {t}
        <4>1. ASSUME NEW u PROVE u \in Coming(m)' <=> u \in Coming(m) \ {t}
          BY <1>6, <1>7 DEF Coming
        <4> QED  BY <4>1
      <3>3. Cardinality(Coming(m)') = Cardinality(Coming(m)) - 1
        BY <2>1, <3>1, <3>2, FS_RemoveElement
      <3>4. Cardinality(Coming(m)) \in Nat
        BY <2>1, FS_CardinalityType
      <3>5. list'[m].numInList = k.numInList - 1
        BY <1>9, <1>10, <2>3
      <3>6. listEmpty[m] # << >> => k.numInList <= Cardinality(Coming(m))
        BY <1>1, <1>2, <2>3 DEF Served
      <3> QED  BY <1>3, <1>9, <3>3, <3>4, <3>5, <3>6
    <2> QED  BY <2>2, <2>3
  <1> QED  BY <1>11, <1>12, <1>13, <1>14, <1>15, <1>16 DEF LInv

LEMMA ListInvariance ==
  ASSUME ProgramsAllowed
  PROVE  SynchListSpec => []LInv
  <1>1. SynchListInit => LInv
    BY InitLInv
  <1>2. LInv /\ [SynchListNext]_synchListVars => LInv'
    <2> SUFFICES ASSUME LInv, [SynchListNext]_synchListVars PROVE LInv'
      OBVIOUS
    <2>1. CASE UNCHANGED synchListVars
      <3>1. UNCHANGED << list, appended, removed, value, started, deleted, holder,
                         listEmpty, ip, at, item >>
        BY <2>1 DEF synchListVars, listVars, testVars
      <3> QED  BY <3>1 DEF LInv, SynchListTypeOK, PlacesOK, OnePlace, Chained, Waiters, Served,
                           Holds, Has, Made, WaitsFor, Running, Op, Of, Coming
    <2>2. CASE SynchListNext
      <3>1. PICK t \in Thread : Step(t)
        BY <2>2 DEF SynchListNext
      <3> QED  BY <3>1, AcquireStep, AppendStep, WaitStep, RemoveStep, ApplyStep, LeaveStep,
                  OtherStep DEF Step
    <2> QED  BY <2>1, <2>2
  <1> QED  BY <1>1, <1>2, PTL DEF SynchListSpec

(* A synchronised list is first in, first out, its pointers are sound and  *)
(* no item is left lying while a thread waits for one: for any programs    *)
(* that forward only what they have just removed, on any lists, by any     *)
(* number of threads (threads/synchlist.cc on top of lib/list.cc).         *)
THEOREM SynchListFirstInFirstOut == SynchListSpec => []FirstInFirstOut
  <1>1. LInv => FirstInFirstOut
    BY SanityInOrder DEF LInv, Chained, Chain, Served, FirstInFirstOut
  <1>2. ProgramsAllowed
    BY ListPrograms
  <1> QED  BY <1>1, <1>2, ListInvariance, PTL
=============================================================================
