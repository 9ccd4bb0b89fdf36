----------------------------- MODULE Containers -----------------------------
(***************************************************************************)
(* The library's containers (lib/hash.cc, lib/bitmap.cc and, through       *)
(* Lists, lib/list.cc), operation by operation, next to what each of them  *)
(* promises: a list a sequence, a sorted list a sequence ordered by key    *)
(* and, among equal keys, by age, a hash table a set of items found by     *)
(* key, a bitmap a set of numbers.                                         *)
(*                                                                         *)
(* kind says which container is in use, object is its representation and   *)
(* ref the value it stands for.                                            *)
(***************************************************************************)
EXTENDS Lists

CONSTANTS
    Item,            \* the items put in containers, numbers
    KeyOf(_),        \* what the compare of SortedList compares
    InitialBuckets, ResizeRatio, IncreaseSizeBy,  \* hash.h
    BitsInWord, NumBits

ASSUME ContainerSizes ==
    /\ Item \subseteq Nat
    /\ {InitialBuckets, ResizeRatio, BitsInWord, NumBits} \subseteq Nat \ {0}
    /\ IncreaseSizeBy \in Nat \ {0, 1}

VARIABLES kind, object, ref
containerVars == << kind, object, ref >>

Keys == [x \in Item |-> KeyOf(x)]

-----------------------------------------------------------------------------
(* HashTable::InitBuckets. *)
InitBuckets(sz) == [b \in 0 .. sz - 1 |-> EmptyList]

NewTable == [buckets |-> InitBuckets(InitialBuckets),
             numBuckets |-> InitialBuckets, numItems |-> 0]

(* HashTable::HashValue; with the functions of lib/libtest.cc an item is   *)
(* the decimal form of its key, and the hash the key itself.               *)
HashValue(t, key) == key % t.numBuckets

(* buckets[HashValue(getKey(item))]->Append(item). *)
PutInBucket(t, x) ==
    [t EXCEPT !.buckets[HashValue(t, x)] = ListAppend(@, x)]

(* Every item, in the order HashIterator and ReHash go through them. *)
ItemsOf(t) == FlattenSeq([b \in 1 .. t.numBuckets |-> Elements(t.buckets[b - 1])])

(* Mutant: the items stay in the buckets of the old hash value. *)
ReHashInPlace(t) ==
    [t EXCEPT !.numBuckets = @ * IncreaseSizeBy,
              !.buckets = [b \in 0 .. (t.numBuckets * IncreaseSizeBy) - 1 |->
                              IF b < t.numBuckets THEN @[b] ELSE EmptyList]]

(* HashTable::ReHash. *)
ReHash(t) ==
    LET sz == t.numBuckets * IncreaseSizeBy
    IN  FoldLeft(PutInBucket,
                 [t EXCEPT !.buckets = InitBuckets(sz), !.numBuckets = sz],
                 ItemsOf(t))

(* HashTable::Insert, for a key that is not in the table. *)
TableInsert(t, x) ==
    LET sized == IF t.numItems \div t.numBuckets >= ResizeRatio THEN ReHash(t) ELSE t
    IN  [PutInBucket(sized, x) EXCEPT !.numItems = @ + 1]

(* HashTable::Find, that is FindInBucket of the bucket of the key. *)
Find(t, key) == SelectInSeq(Elements(t.buckets[HashValue(t, key)]), LAMBDA x : x = key) # 0

(* HashTable::Remove, for a key that is in the table. *)
TableRemove(t, key) ==
    [t EXCEPT !.buckets[HashValue(t, key)] = ListRemove(@, key), !.numItems = @ - 1]

(* HashTable::FindNextFullBucket. *)
FindNextFullBucket(t, from) ==
    CHOOSE b \in from .. t.numBuckets :
        /\ b = t.numBuckets \/ ~IsEmpty(t.buckets[b])
        /\ \A c \in from .. b - 1 : IsEmpty(t.buckets[c])

(* HashIterator: its constructor, and Next. *)
At(t, b) == [bucket |-> b, current |-> IF b = t.numBuckets THEN NULL
                                       ELSE ListFront(t.buckets[b])]
NewIterator(t) == At(t, FindNextFullBucket(t, 0))
IteratorNext(t, it) ==
    LET next == t.buckets[it.bucket].next[it.current]
    IN  IF next # NULL THEN [it EXCEPT !.current = next]
        ELSE At(t, FindNextFullBucket(t, it.bucket + 1))

(* The items a loop with a HashIterator sees. *)
Iterated(t) ==
    LET it[i \in 1 .. t.numItems + 1] ==
            IF i = 1 THEN NewIterator(t)
            ELSE LET prev == it[i - 1]
                 IN  IF prev.bucket = t.numBuckets THEN prev ELSE IteratorNext(t, prev)
    IN  SelectSeq([i \in 1 .. t.numItems + 1 |-> it[i].current], LAMBDA x : x # NULL)

(* HashTable::SanityCheck. *)
TableSanityCheck(t) ==
    /\ \A b \in 0 .. t.numBuckets - 1 :
          /\ SanityCheck(t.buckets[b])
          /\ \A x \in ToSet(Elements(t.buckets[b])) : b = HashValue(t, x)
    /\ t.numItems = FoldFunction(LAMBDA l, n : l.numInList + n, 0, t.buckets)

(* HashTable::SelfTest on the items p. *)
TableSelfTest(p) ==
    LET inserted == FoldLeft(TableInsert, NewTable, p)
        removed == FoldLeft(TableRemove, inserted, p)
    IN  /\ TableSanityCheck(NewTable) /\ Iterated(NewTable) = << >>
        /\ \A i \in DOMAIN p : Find(inserted, p[i])
        /\ removed.numItems = 0 /\ TableSanityCheck(removed)

-----------------------------------------------------------------------------
(* Bitmap: numWords words of BitsInWord bits. *)
NumWords == (NumBits + BitsInWord - 1) \div BitsInWord
NewBitmap == [w \in 0 .. NumWords - 1 |-> 0]

Mask(which) == 2 ^ (which % BitsInWord)

Test(map, which) == (map[which \div BitsInWord] \div Mask(which)) % 2 = 1
Mark(map, which) ==
    [map EXCEPT ![which \div BitsInWord] =
        IF Test(map, which) THEN @ ELSE @ + Mask(which)]
Clear(map, which) ==
    [map EXCEPT ![which \div BitsInWord] =
        IF Test(map, which) THEN @ - Mask(which) ELSE @]

ClearBits(map) == {i \in 0 .. NumBits - 1 : ~Test(map, i)}
NumClear(map) == Cardinality(ClearBits(map))

(* What FindAndSet returns (NULL for -1) and what it leaves. *)
FirstClear(map) ==
    IF ClearBits(map) = {} THEN NULL
    ELSE CHOOSE i \in ClearBits(map) : \A j \in ClearBits(map) : i <= j
FindAndSet(map) ==
    IF ClearBits(map) = {} THEN map ELSE Mark(map, FirstClear(map))

(* Bitmap::SelfTest. *)
BitmapSelfTest ==
    LET top  == BitsInWord - 1
        one  == Mark(FindAndSet(NewBitmap), top)
        full == FoldLeft(Mark, NewBitmap, [i \in 1 .. NumBits |-> i - 1])
    IN  /\ NumBits >= BitsInWord
        /\ NumClear(NewBitmap) = NumBits /\ FirstClear(NewBitmap) = 0
        /\ Test(one, 0) /\ Test(one, top) /\ FirstClear(one) = 1
        /\ FirstClear(full) = NULL
        /\ FoldLeft(Clear, full, [i \in 1 .. NumBits |-> i - 1]) = NewBitmap

-----------------------------------------------------------------------------
(* LibSelfTest, with the values of lib/libtest.cc. *)
LibSelfTest ==
    /\ BitmapSelfTest
    /\ ListSelfTest(<< 9, 5, 7 >>)
    /\ SortedSelfTest(<< 9, 5, 7 >>, [x \in {9, 5, 7} |-> x])
    /\ TableSelfTest([i \in 1 .. 15 |-> i - 1])

New(k) ==
    CASE k = "table" -> NewTable
      [] k = "bitmap" -> NewBitmap
      [] OTHER -> EmptyList

NoContainer == kind = NULL /\ object = NULL /\ ref = NULL

(* Any container, empty. *)
NewContainer ==
    /\ kind' \in {"list", "sorted", "table", "bitmap"}
    /\ object' = New(kind')
    /\ ref' = IF kind' \in {"list", "sorted"} THEN << >> ELSE {}

(* The operations of List, in any order that meets their ASSERTs. *)
ListOp ==
    /\ kind = "list"
    /\ \/ \E x \in Item \ ToSet(ref) :
            \/ object' = ListAppend(object, x) /\ ref' = Append(ref, x)
            \/ object' = ListPrepend(object, x) /\ ref' = << x >> \o ref
       \/ /\ ref # << >>
          /\ object' = RemoveFront(object) /\ ref' = Tail(ref)
       \/ \E x \in ToSet(ref) :
            object' = ListRemove(object, x) /\ ref' = Remove(ref, x)
    /\ UNCHANGED kind

(* Those of SortedList; ref has the items by age. *)
SortedOp ==
    /\ kind = "sorted"
    /\ \/ \E x \in Item \ ToSet(ref) :
            object' = Insert(object, x, Keys) /\ ref' = Append(ref, x)
       \/ /\ ref # << >>
          /\ object' = RemoveFront(object) /\ ref' = Remove(ref, ListFront(object))
       \/ \E x \in ToSet(ref) :
            object' = ListRemove(object, x) /\ ref' = Remove(ref, x)
    /\ UNCHANGED kind

TableOp ==
    /\ kind = "table"
    /\ \/ \E x \in Item \ ref :
            object' = TableInsert(object, x) /\ ref' = ref \cup {x}
       \/ \E x \in ref : object' = TableRemove(object, x) /\ ref' = ref \ {x}
    /\ UNCHANGED kind

(* ~HashTable, which wants the table to be empty; another container takes  *)
(* its place.                                                              *)
DeleteTable ==
    /\ kind = "table" /\ object.numItems = 0
    /\ NewContainer

BitmapOp ==
    /\ kind = "bitmap"
    /\ \/ \E i \in 0 .. NumBits - 1 :
            \/ object' = Mark(object, i) /\ ref' = ref \cup {i}
            \/ object' = Clear(object, i) /\ ref' = ref \ {i}
       \/ /\ ref # 0 .. NumBits - 1
          /\ object' = FindAndSet(object) /\ ref' = ref \cup {FirstClear(object)}
    /\ UNCHANGED kind

ContainerOp == ListOp \/ SortedOp \/ TableOp \/ DeleteTable \/ BitmapOp

-----------------------------------------------------------------------------
ListExact ==
    SanityCheck(object) /\ Elements(object) = ref

(* By key, and by age among equal keys. *)
SortedExact ==
    LET e == Elements(object)
        Age(x) == SelectInSeq(ref, LAMBDA y : y = x)
    IN  /\ SortedSanityCheck(object, Keys)
        /\ Len(e) = Len(ref) /\ ToSet(e) = ToSet(ref)
        /\ \A i \in 1 .. Len(e) - 1 :
              \/ Keys[e[i]] < Keys[e[i + 1]]
              \/ KeyOf(e[i]) = KeyOf(e[i + 1]) /\ Age(e[i]) < Age(e[i + 1])

TableExact ==
    /\ TableSanityCheck(object)
    /\ \A x \in Item : Find(object, x) <=> x \in ref
    /\ Iterated(object) = ItemsOf(object)
    /\ Len(ItemsOf(object)) = Cardinality(ref)

BitmapExact ==
    /\ \A i \in 0 .. NumBits - 1 : Test(object, i) <=> i \in ref
    /\ NumClear(object) = NumBits - Cardinality(ref)

(* Each container holds exactly what the calls made on it put there, and   *)
(* its pointers, counters and buckets pass the SanityCheck of the code,    *)
(* however often elements were removed from the ends and from the middle,  *)
(* or the table was rehashed.                                              *)
ContainersExact ==
    CASE kind = "list" -> ListExact
      [] kind = "sorted" -> SortedExact
      [] kind = "table" -> TableExact
      [] kind = "bitmap" -> BitmapExact
      [] OTHER -> TRUE
=============================================================================
