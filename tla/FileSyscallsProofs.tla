------------------------- MODULE FileSyscallsProofs -------------------------
(***************************************************************************)
(* Proofs about FileSyscalls, for a table of any size, any names, any ids  *)
(* and files of any length.                                                *)
(***************************************************************************)
EXTENDS FileSyscalls, SequenceTheorems, FiniteSetTheorems, TLAPS

(* A UNIX descriptor has the mode the type of its OpenFile stands for. *)
OpenedAsTyped ==
    \A s \in Slot : IsOpen(s) =>
        fds[openf[s].file].access = Opened(fds[openf[s].file].ino, openf[s].type).access

FInv == TypeOK /\ TableExact /\ OpenedAsTyped

LEMMA Sizes ==
    /\ MaxFileOpen \in Nat /\ MaxFileOpen > 2
    /\ NUL \in Char
    /\ MaxLen \in Nat
    /\ Ids \subseteq Int
  BY FileAssumption

LEMMA NullApart ==
    /\ NULL \notin Inode /\ NULL \notin OpenFile
    /\ NULL \notin [ino : Inode, pos : Nat, access : Access]
  BY FileAssumption DEF OpenFile, Fd, Access

USE Sizes

-----------------------------------------------------------------------------
(* Least and greatest elements. *)

LEMMA MinOfNaturals ==
    ASSUME NEW S \in SUBSET Nat, S # {}
    PROVE  Min(S) \in S /\ \A y \in S : Min(S) <= y
  <1>1. \E x \in S : \A y \in S : ~(<< y, x >> \in OpToRel(<, Nat))
    BY NatLessThanWellFounded, WFMin
  <1>2. PICK x \in S : \A y \in S : << y, x >> \notin OpToRel(<, Nat)
    BY <1>1
  <1>3. \A y \in S : ~(y < x)
    BY <1>2, Zenon DEF OpToRel
  <1>4. \A y \in S : x <= y
    BY <1>3
  <1> QED  BY <1>4 DEF Min

LEMMA MaxOfTwo ==
    ASSUME NEW a \in Nat, NEW b \in Nat
    PROVE  Max({a, b}) \in {a, b} /\ Max({a, b}) >= a /\ Max({a, b}) >= b
  <1>1. \E x \in {a, b} : \A y \in {a, b} : x >= y
    OBVIOUS
  <1>2. Max({a, b}) \in {a, b} /\ \A y \in {a, b} : Max({a, b}) >= y
    BY <1>1 DEF Max
  <1> QED  BY <1>2

-----------------------------------------------------------------------------
(* What the operators on bytes give. *)

LEMMA BytesAreShort ==
    /\ \A s \in Bytes : s \in Seq(Char) /\ Len(s) <= MaxLen
    /\ \A s \in Seq(Char) : Len(s) <= MaxLen => s \in Bytes
    /\ << >> \in Bytes
  <1>1. ASSUME NEW s \in Bytes PROVE s \in Seq(Char) /\ Len(s) <= MaxLen
    <2>1. PICK k \in 0..MaxLen : s \in [1..k -> Char]
      BY DEF Bytes
    <2>2. s \in Seq(Char) /\ Len(s) = k
      BY <2>1
    <2> QED  BY <2>2
  <1>2. ASSUME NEW s \in Seq(Char), Len(s) <= MaxLen PROVE s \in Bytes
    <2>1. Len(s) \in 0..MaxLen /\ s \in [1..Len(s) -> Char]
      BY <1>2, LenProperties
    <2> QED  BY <2>1 DEF Bytes
  <1>3. << >> \in Bytes
    <2>1. << >> \in Seq(Char) /\ Len(<< >>) <= MaxLen
      BY EmptySeq
    <2> QED  BY <1>2, <2>1
  <1> QED  BY <1>1, <1>2, <1>3

LEMMA SliceBytes ==
    ASSUME NEW d \in Bytes, NEW p \in Nat, NEW n \in Nat
    PROVE  Slice(d, p, n) \in Bytes
  <1>1. d \in Seq(Char) /\ Len(d) \in Nat /\ Len(d) <= MaxLen
    BY BytesAreShort, LenProperties
  <1> DEFINE m == Min({p + n, Len(d)})
  <1>2. m \in Nat /\ m <= Len(d)
    <2>1. {p + n, Len(d)} \in SUBSET Nat /\ {p + n, Len(d)} # {}
      BY <1>1
    <2> QED  BY <2>1, MinOfNaturals
  <1> HIDE DEF m
  <1>3. \A i \in (p + 1)..m : d[i] \in Char
    BY <1>1, <1>2, ElementOfSeq
  <1>4. /\ SubSeq(d, p + 1, m) \in Seq(Char)
        /\ Len(SubSeq(d, p + 1, m)) = IF p + 1 <= m THEN m - (p + 1) + 1 ELSE 0
    BY <1>2, <1>3, SubSeqProperties
  <1>5. Len(SubSeq(d, p + 1, m)) <= MaxLen
    BY <1>1, <1>2, <1>4
  <1>6. SubSeq(d, p + 1, m) \in Bytes
    BY <1>4, <1>5, BytesAreShort
  <1> QED  BY <1>6 DEF Slice, m

LEMMA UpToNulBytes ==
    ASSUME NEW s \in Bytes
    PROVE  UpToNul(s) \in Bytes /\ Len(UpToNul(s)) <= Len(s)
  <1>1. s \in Seq(Char) /\ Len(s) \in Nat /\ Len(s) <= MaxLen
    BY BytesAreShort, LenProperties
  <1> DEFINE nuls == {k \in 1..Len(s) : s[k] = NUL}
  <1>2. CASE nuls = {}
    BY <1>1, <1>2 DEF UpToNul
  <1>3. CASE nuls # {}
    <2>1. Min(nuls) \in 1..Len(s)
      <3>1. nuls \in SUBSET Nat /\ nuls \subseteq 1..Len(s)
        BY <1>1
      <3> HIDE DEF nuls
      <3> QED  BY <1>3, <3>1, MinOfNaturals
    <2> DEFINE m == Min(nuls)
    <2>2. UpToNul(s) = SubSeq(s, 1, m)
      BY <1>3 DEF UpToNul
    <2> HIDE DEF m, nuls
    <2>3. m \in 1..Len(s)
      BY <2>1 DEF m
    <2>4. \A i \in 1..m : s[i] \in Char
      BY <1>1, <2>3, ElementOfSeq
    <2>5. SubSeq(s, 1, m) \in Seq(Char) /\ Len(SubSeq(s, 1, m)) = m
      BY <1>1, <2>3, <2>4, SubSeqProperties
    <2>6. UpToNul(s) \in Seq(Char) /\ Len(UpToNul(s)) = m
      BY <2>2, <2>5
    <2>7. m <= Len(s) /\ m <= MaxLen
      BY <1>1, <2>3
    <2> QED  BY <2>6, <2>7, BytesAreShort
  <1> QED  BY <1>2, <1>3

LEMMA User2SystemBytes ==
    ASSUME NEW s \in Bytes
    PROVE  User2System(s) \in Seq(Char) /\ Len(User2System(s)) = Len(s)
  <1>1. s \in Seq(Char) /\ Len(s) \in Nat
    BY BytesAreShort, LenProperties
  <1>2. Len(UpToNul(s)) \in Nat /\ Len(UpToNul(s)) <= Len(s)
    BY <1>1, UpToNulBytes, BytesAreShort, LenProperties
  <1>3. \A k \in 1..Len(s) : s[k] \in Char
    BY <1>1, ElementOfSeq
  <1>4. User2System(s) \in [1..Len(s) -> Char]
    BY <1>1, <1>2, <1>3 DEF User2System
  <1> QED  BY <1>1, <1>4

LEMMA OverwriteBytes ==
    ASSUME NEW d \in Bytes, NEW p \in Nat, NEW buf \in Seq(Char),
           p + Len(buf) <= MaxLen
    PROVE  Overwrite(d, p, buf) \in Bytes
  <1>1. d \in Seq(Char) /\ Len(d) \in Nat /\ Len(d) <= MaxLen /\ Len(buf) \in Nat
    BY BytesAreShort, LenProperties
  <1> DEFINE m == Max({Len(d), p + Len(buf)})
  <1>2. m \in Nat /\ m <= MaxLen
    BY <1>1, MaxOfTwo
  <1> HIDE DEF m
  <1>3. \A k \in 1..m : k > p /\ k <= p + Len(buf) => buf[k - p] \in Char
    BY <1>1, <1>2, ElementOfSeq
  <1>4. \A k \in 1..m : k <= Len(d) => d[k] \in Char
    BY <1>1, <1>2, ElementOfSeq
  <1>5. Overwrite(d, p, buf) \in [1..m -> Char]
    BY <1>3, <1>4 DEF Overwrite, m
  <1>6. Overwrite(d, p, buf) \in Seq(Char) /\ Len(Overwrite(d, p, buf)) = m
    BY <1>2, <1>5
  <1> QED  BY <1>2, <1>6, BytesAreShort

-----------------------------------------------------------------------------
(* The UNIX file system always has what a call asks it for. *)

LEMMA TableTypes ==
    ASSUME TypeOK, NEW s \in Slot, IsOpen(s)
    PROVE  /\ openf[s] \in OpenFile
           /\ openf[s].file \in Fd /\ openf[s].type \in 0..3
  <1>1. openf[s] \in OpenFile
    BY DEF TypeOK, IsOpen
  <1> QED  BY <1>1 DEF OpenFile

(* The table has one slot fewer than there are descriptors. *)
LEMMA DescriptorLeft ==
    ASSUME TypeOK, DescriptorsExact
    PROVE  NewFd \in Fd /\ fds[NewFd] = NULL
  <1> DEFINE used == {openf[s].file : s \in {s \in Slot : IsOpen(s)}}
             live == {s \in Slot : IsOpen(s)}
             f == [s \in live |-> openf[s].file]
  <1>1. IsFiniteSet(live) /\ Cardinality(live) <= MaxFileOpen /\ Cardinality(live) \in Nat
    <2>1. IsFiniteSet(Slot) /\ Cardinality(Slot) = MaxFileOpen
      BY FS_Interval DEF Slot
    <2> QED  BY <2>1, FS_Subset, FS_CardinalityType
  <1>2. f \in Surjection(live, used)
    BY DEF Surjection
  <1> HIDE DEF f
  <1>3. IsFiniteSet(used) /\ Cardinality(used) <= MaxFileOpen
    <2> HIDE DEF live, used
    <2>1. IsFiniteSet(used) /\ Cardinality(used) <= Cardinality(live)
      BY <1>1, <1>2, FS_Surjection
    <2>2. Cardinality(used) \in Nat
      BY <2>1, FS_CardinalityType
    <2> QED  BY <1>1, <2>1, <2>2
  <1>4. IsFiniteSet(Fd) /\ Cardinality(Fd) = MaxFileOpen + 1
    BY FS_Interval DEF Fd
  <1>5. used # Fd
    <2> HIDE DEF used
    <2>1. Cardinality(used) \in Nat
      BY <1>3, FS_CardinalityType
    <2> QED  BY <1>3, <1>4, <2>1
  <1> DEFINE free == {x \in Fd : fds[x] = NULL}
  <1>6. free # {}
    <2>1. used = {x \in Fd : fds[x] # NULL}
      BY DEF DescriptorsExact
    <2> HIDE DEF used
    <2> QED  BY <1>5, <2>1
  <1>7. free \in SUBSET Nat
    BY DEF Fd
  <1>8. Min(free) \in free
    <2> HIDE DEF free
    <2> QED  BY <1>6, <1>7, MinOfNaturals
  <1> QED  BY <1>8 DEF NewFd

(* Adding one element, or another finite set, to a finite set. *)
LEMMA AddAtMostOne ==
    ASSUME NEW S, NEW x, IsFiniteSet(S)
    PROVE  /\ IsFiniteSet(S \cup {x})
           /\ Cardinality(S \cup {x}) \in Nat /\ Cardinality(S) \in Nat
           /\ Cardinality(S \cup {x}) <= Cardinality(S) + 1
  <1>1. /\ IsFiniteSet(S \cup {x})
        /\ Cardinality(S \cup {x}) = IF x \in S THEN Cardinality(S) ELSE Cardinality(S) + 1
    BY FS_AddElement
  <1>2. Cardinality(S \cup {x}) \in Nat /\ Cardinality(S) \in Nat
    BY <1>1, FS_CardinalityType
  <1> QED  BY <1>1, <1>2

LEMMA UnionAtMost ==
    ASSUME NEW S, NEW T, IsFiniteSet(S), IsFiniteSet(T)
    PROVE  /\ IsFiniteSet(S \cup T)
           /\ Cardinality(S \cup T) \in Nat
           /\ Cardinality(S \cup T) <= Cardinality(S) + Cardinality(T)
  <1>1. /\ IsFiniteSet(S \cup T)
        /\ Cardinality(S \cup T) = Cardinality(S) + Cardinality(T) - Cardinality(S \cap T)
    BY FS_Union
  <1>2. IsFiniteSet(S \cap T)
    <2>1. S \cap T \in SUBSET S
      OBVIOUS
    <2> QED  BY <2>1, FS_Subset
  <1>3. /\ Cardinality(S) \in Nat /\ Cardinality(T) \in Nat
        /\ Cardinality(S \cap T) \in Nat /\ Cardinality(S \cup T) \in Nat
    BY <1>1, <1>2, FS_CardinalityType
  <1> QED  BY <1>1, <1>3

(* There is an inode that neither a name nor a descriptor refers to. *)
LEMMA InodeLeft ==
    ASSUME TypeOK, DescriptorsExact, NEW n \in AllNames, dir[n] = NULL
    PROVE  NewInode \in Inode /\ NewInode \in FreeInode
  <1> DEFINE live == {f \in Fd : fds[f] # NULL}
             others == AllNames \ {n}
             byName == {dir[x] : x \in others}
             byFd == {fds[f].ino : f \in live}
             g == [x \in others |-> dir[x]]
             h == [f \in live |-> fds[f].ino]
  <1>1. IsFiniteSet(others) /\ Cardinality(others) <= Cardinality(Name) + 1
        /\ Cardinality(others) \in Nat /\ Cardinality(Name) \in Nat
    <2>1. IsFiniteSet(Name)
      BY FileAssumption
    <2>2. /\ IsFiniteSet(Name \cup {"stdin"}) /\ Cardinality(Name) \in Nat
          /\ Cardinality(Name \cup {"stdin"}) <= Cardinality(Name) + 1
      BY <2>1, AddAtMostOne
    <2>3. /\ IsFiniteSet((Name \cup {"stdin"}) \cup {"stdout"})
          /\ Cardinality((Name \cup {"stdin"}) \cup {"stdout"}) \in Nat
          /\ Cardinality(Name \cup {"stdin"}) \in Nat
          /\ Cardinality((Name \cup {"stdin"}) \cup {"stdout"})
               <= Cardinality(Name \cup {"stdin"}) + 1
      BY <2>2, AddAtMostOne
    <2>4. AllNames = (Name \cup {"stdin"}) \cup {"stdout"}
      BY DEF AllNames
    <2>5. /\ IsFiniteSet(AllNames) /\ Cardinality(AllNames) \in Nat
          /\ Cardinality(AllNames) <= Cardinality(Name) + 2
      BY <2>2, <2>3, <2>4
    <2>6. /\ IsFiniteSet(AllNames \ {n}) /\ Cardinality(AllNames \ {n}) = Cardinality(AllNames) - 1
      BY <2>5, FS_RemoveElement
    <2>7. Cardinality(AllNames \ {n}) \in Nat
      BY <2>6, FS_CardinalityType
    <2> QED  BY <2>2, <2>5, <2>6, <2>7
  <1>2. IsFiniteSet(live) /\ Cardinality(live) <= MaxFileOpen /\ Cardinality(live) \in Nat
    <2>1. NewFd \in Fd /\ NewFd \notin live
      BY DescriptorLeft
    <2>2. IsFiniteSet(Fd) /\ Cardinality(Fd) = MaxFileOpen + 1
      BY FS_Interval DEF Fd
    <2>3. IsFiniteSet(Fd \ {NewFd}) /\ Cardinality(Fd \ {NewFd}) = MaxFileOpen
      <3>1. /\ IsFiniteSet(Fd \ {NewFd})
            /\ Cardinality(Fd \ {NewFd}) = Cardinality(Fd) - 1
        BY <2>1, <2>2, FS_RemoveElement
      <3> QED  BY <2>2, <3>1
    <2>4. live \in SUBSET (Fd \ {NewFd})
      BY <2>1
    <2> HIDE DEF live
    <2> QED  BY <2>3, <2>4, FS_Subset, FS_CardinalityType
  <1>3. g \in Surjection(others, byName)
    BY DEF Surjection
  <1>4. h \in Surjection(live, byFd)
    BY DEF Surjection
  <1>5. IsFiniteSet(byName) /\ Cardinality(byName) <= Cardinality(others)
        /\ Cardinality(byName) \in Nat
    <2> HIDE DEF g, others, byName
    <2> QED  BY <1>1, <1>3, FS_Surjection, FS_CardinalityType
  <1>6. IsFiniteSet(byFd) /\ Cardinality(byFd) <= Cardinality(live)
        /\ Cardinality(byFd) \in Nat
    <2> HIDE DEF h, live, byFd
    <2> QED  BY <1>2, <1>4, FS_Surjection, FS_CardinalityType
  <1>7. ~(Inode \subseteq byName \cup byFd)
    <2> HIDE DEF byName, byFd, others, live
    <2>1. IsFiniteSet(byName \cup byFd)
          /\ Cardinality(byName \cup byFd) <= Cardinality(byName) + Cardinality(byFd)
          /\ Cardinality(byName \cup byFd) \in Nat
      BY <1>5, <1>6, UnionAtMost
    <2>2. SUFFICES ASSUME Inode \subseteq byName \cup byFd PROVE FALSE
      OBVIOUS
    <2>3. Cardinality(Inode) <= Cardinality(byName \cup byFd)
      BY <2>1, <2>2, FS_Subset
    <2>4. Cardinality(Inode) \in Nat /\ Cardinality(Inode) >= Cardinality(Name) + MaxFileOpen + 2
      BY FileAssumption, FS_CardinalityType
    <2> QED  BY <1>1, <1>2, <1>5, <1>6, <2>1, <2>3, <2>4
  <1>8. PICK i \in Inode : i \notin byName /\ i \notin byFd
    BY <1>7
  <1>9. i \in FreeInode
    <2>1. \A x \in AllNames : dir[x] # i
      BY <1>8, NullApart
    <2>2. \A f \in Fd : fds[f] = NULL \/ fds[f].ino # i
      BY <1>8
    <2> QED  BY <2>1, <2>2 DEF FreeInode
  <1>10. NewInode \in FreeInode
    BY <1>9 DEF NewInode
  <1> QED  BY <1>10 DEF FreeInode

-----------------------------------------------------------------------------
(* What the parts of a system call do. *)

CallType == [op : Operation, name : Name \cup {NoName}, id : Ids \cup {NULL}, buf : Bytes]
FdRecord == [ino : Inode, pos : Nat, access : Access]

(* An open file has a descriptor of its own behind it. *)
LEMMA OpenHasFd ==
    ASSUME TypeOK, DescriptorsExact, NEW s \in Slot, IsOpen(s)
    PROVE  /\ openf[s].file \in Fd
           /\ fds[openf[s].file] \in FdRecord
           /\ fds[openf[s].file] # NULL
           /\ fds[openf[s].file].pos \in Nat
           /\ fds[openf[s].file].ino \in Inode
           /\ Pos(s) \in Nat
           /\ DataOf(s) \in Bytes
  <1>1. openf[s].file \in {openf[u].file : u \in {u \in Slot : IsOpen(u)}}
    OBVIOUS
  <1>2. openf[s].file \in {f \in Fd : fds[f] # NULL}
    BY <1>1 DEF DescriptorsExact
  <1>3. fds[openf[s].file] \in FdRecord
    BY <1>2 DEF TypeOK, FdRecord
  <1>4. fds[openf[s].file].pos \in Nat /\ fds[openf[s].file].ino \in Inode
    BY <1>3 DEF FdRecord
  <1>5. data[fds[openf[s].file].ino] \in Bytes
    BY <1>4 DEF TypeOK
  <1> QED  BY <1>2, <1>3, <1>4, <1>5 DEF Pos, DataOf

LEMMA CallEffect ==
    ASSUME NEW op \in Operation, NEW name \in Name \cup {NoName}, NEW id \in Ids \cup {NULL},
           NEW buf \in Bytes, Call(op, name, id, buf)
    PROVE  /\ call' \in CallType /\ state = "run"
           /\ call'.op = op /\ call'.name = name /\ call'.id = id /\ call'.buf = buf
  BY DEF Call, CallType

(* A step that neither opens nor closes a file, nor changes where one leads*)
(* to, keeps the table exact.                                              *)
LEMMA SameShape ==
    ASSUME FInv, openf' = openf,
           \A f \in Fd : fds'[f] # NULL <=> fds[f] # NULL,
           \A f \in Fd : fds[f] # NULL => /\ fds'[f].ino = fds[f].ino
                                          /\ fds'[f].access = fds[f].access
    PROVE  TableExact' /\ OpenedAsTyped'
  <1>1. \A s \in Slot : IsOpen(s)' <=> IsOpen(s)
    BY DEF IsOpen
  <1>2. DescriptorsExact'
    <2>1. {f \in Fd : fds'[f] # NULL} = {f \in Fd : fds[f] # NULL}
      OBVIOUS
    <2>2. {openf'[s].file : s \in {s \in Slot : IsOpen(s)'}}
            = {openf[s].file : s \in {s \in Slot : IsOpen(s)}}
      BY <1>1
    <2> QED  BY <1>1, <2>1, <2>2 DEF FInv, TableExact, DescriptorsExact
  <1>3. ConsoleSlotsOnly'
    BY <1>1 DEF FInv, TableExact, ConsoleSlotsOnly
  <1>4. OpenedAsTyped'
    <2> SUFFICES ASSUME NEW s \in Slot, IsOpen(s)'
                 PROVE  fds'[openf'[s].file].access
                          = Opened(fds'[openf'[s].file].ino, openf'[s].type).access
      BY DEF OpenedAsTyped, Opened
    <2>1. IsOpen(s) /\ openf[s].file \in Fd /\ fds[openf[s].file] # NULL
      BY <1>1, OpenHasFd DEF FInv, TableExact
    <2>2. fds[openf[s].file].access = Opened(fds[openf[s].file].ino, openf[s].type).access
      BY <2>1 DEF FInv, OpenedAsTyped
    <2> QED  BY <2>1, <2>2 DEF Opened
  <1> QED  BY <1>2, <1>3, <1>4 DEF TableExact

(* The call returns a count or a position. *)
CountOrPlace == \/ call'.op \in {"Read", "Write"} /\ r2' > 0
                \/ call'.op = "Seek" /\ r2' >= 0

(* A call that changes no file: a refusal, or a use of a garbage pointer.  *)
LEMMA QuietStep ==
    ASSUME FInv, UNCHANGED << openf, dir, data, fds >>,
           r2' \in Int, call' \in CallType, state' \in {"run", "halted", "wild"},
           \A s \in Slot : ~(IsOpen(s) /\ call'.id = s /\ CountOrPlace)
    PROVE  FInv' /\ OnlyWritersWrite /\ PositionsAdvance
  <1>1. TypeOK'
    BY DEF FInv, TypeOK, CallType
  <1>2. TableExact' /\ OpenedAsTyped'
    BY SameShape
  <1>3. OnlyWritersWrite
    BY DEF OnlyWritersWrite
  <1>4. PositionsAdvance
    BY DEF PositionsAdvance, Pos, SeekLands, CountOrPlace
  <1> QED  BY <1>1, <1>2, <1>3, <1>4 DEF FInv

LEMMA RejectStep ==
    ASSUME FInv, call' \in CallType, NEW v \in Int, Reject(v),
           call'.op \in {"Read", "Write"} => v <= 0, call'.op = "Seek" => v < 0
    PROVE  FInv' /\ OnlyWritersWrite /\ PositionsAdvance
  <1>1. UNCHANGED << openf, dir, data, fds >> /\ r2' = v /\ state' = state
    BY DEF Reject, Return, Unix
  <1>2. state' \in {"run", "halted", "wild"}
    BY <1>1 DEF FInv, TypeOK
  <1>3. ~CountOrPlace
    BY <1>1 DEF CountOrPlace
  <1> QED  BY <1>1, <1>2, <1>3, QuietStep

(* MoveTo changes the offset of one descriptor. *)
LEMMA MoveToEffect ==
    ASSUME FInv, NEW id \in Slot, IsOpen(id), NEW p \in Nat, MoveTo(id, p)
    PROVE  /\ fds' \in [Fd -> FdRecord \cup {NULL}]
           /\ \A f \in Fd : f # openf[id].file => fds'[f] = fds[f]
           /\ fds'[openf[id].file].pos = p
           /\ \A f \in Fd : fds'[f] # NULL <=> fds[f] # NULL
           /\ \A f \in Fd : fds[f] # NULL => /\ fds'[f].ino = fds[f].ino
                                              /\ fds'[f].access = fds[f].access
  <1> DEFINE x == openf[id].file
  <1>1. x \in Fd /\ fds[x] \in FdRecord
    BY OpenHasFd DEF FInv, TableExact
  <1>2. fds \in [Fd -> FdRecord \cup {NULL}]
    BY DEF FInv, TypeOK, FdRecord
  <1>3. fds' = [fds EXCEPT ![x] = [fds[x] EXCEPT !.pos = p]]
    BY DEF MoveTo
  <1> HIDE DEF x
  <1>4. /\ [fds[x] EXCEPT !.pos = p] \in FdRecord
        /\ [fds[x] EXCEPT !.pos = p].pos = p
        /\ [fds[x] EXCEPT !.pos = p].ino = fds[x].ino
        /\ [fds[x] EXCEPT !.pos = p].access = fds[x].access
    BY <1>1 DEF FdRecord
  <1>5. fds'[x] = [fds[x] EXCEPT !.pos = p] /\ \A f \in Fd : f # x => fds'[f] = fds[f]
    BY <1>1, <1>2, <1>3
  <1>6. fds' \in [Fd -> FdRecord \cup {NULL}]
    BY <1>2, <1>3, <1>4
  <1>7. fds'[x] # NULL /\ fds[x] # NULL
    BY <1>1, <1>4, <1>5, NullApart DEF FdRecord
  <1>8. fds'[x].pos = p /\ fds'[x].ino = fds[x].ino /\ fds'[x].access = fds[x].access
    BY <1>4, <1>5
  <1>9. \A f \in Fd : fds'[f] # NULL <=> fds[f] # NULL
    BY <1>5, <1>7
  <1>10. \A f \in Fd : fds[f] # NULL => /\ fds'[f].ino = fds[f].ino
                                        /\ fds'[f].access = fds[f].access
    BY <1>5, <1>8
  <1> QED  BY <1>5, <1>6, <1>8, <1>9, <1>10 DEF x

(* Moving within one open file leaves the positions of the others. *)
LEMMA MovePositions ==
    ASSUME FInv, NEW id \in Slot, IsOpen(id), NEW p \in Nat, MoveTo(id, p),
           openf' = openf, call'.id = id, call'.op \in {"Read", "Write", "Seek"},
           IF call'.op = "Seek"
             THEN IF r2' >= 0 THEN p = r2' /\ p <= Len(DataOf(id)) ELSE p = Len(DataOf(id))
             ELSE p = IF r2' > 0 /\ ~(call'.op = "Write" /\ call'.buf = << >>)
                        THEN Pos(id) + r2' ELSE Pos(id)
    PROVE  PositionsAdvance
  <1> SUFFICES ASSUME NEW s \in Slot, IsOpen(s), IsOpen(s)'
               PROVE  IF call'.op = "Seek" /\ call'.id = s THEN SeekLands(s)
                      ELSE fds'[openf[s].file].pos =
                             IF call'.op \in {"Read", "Write"} /\ call'.id = s /\ r2' > 0
                                /\ ~(call'.op = "Write" /\ call'.buf = << >>)
                               THEN Pos(s) + r2'
                               ELSE Pos(s)
    BY DEF PositionsAdvance
  <1>1. CASE s = id
    <2>1. fds'[openf[s].file].pos = p
      BY <1>1, MoveToEffect
    <2> QED  BY <1>1, <2>1 DEF SeekLands
  <1>2. CASE s # id
    <2>1. openf[s].file # openf[id].file /\ openf[s].file \in Fd
      BY <1>2, OpenHasFd DEF FInv, TableExact, DescriptorsExact
    <2>2. fds'[openf[s].file] = fds[openf[s].file]
      BY <2>1, MoveToEffect
    <2> QED  BY <1>2, <2>2 DEF Pos
  <1> QED  BY <1>1, <1>2

-----------------------------------------------------------------------------
(* The system calls. *)

LEMMA CreateStep ==
    ASSUME FInv, NEW n \in Name \cup {NoName}, SysCreateFile(n)
    PROVE  FInv' /\ OnlyWritersWrite /\ PositionsAdvance
  <1>1. /\ call' \in CallType
        /\ call'.op = "Create" /\ call'.name = n
    BY CallEffect, BytesAreShort DEF SysCreateFile, Operation
  <1>2. CASE n = NoName /\ Reject(-1)
    BY <1>1, <1>2, RejectStep
  <1>3. CASE n # NoName /\ Create(n) /\ Return(0) /\ UNCHANGED << openf, fds, state >>
    <2>1. n \in Name /\ n \in AllNames
      BY <1>3 DEF AllNames
    <2>2. PICK i : /\ i = IF dir[n] = NULL THEN NewInode ELSE dir[n]
                   /\ dir' = [dir EXCEPT ![n] = i]
                   /\ data' = [data EXCEPT ![i] = << >>]
      BY <1>3 DEF Create, CreateOrTruncate
    <2>3. i \in Inode
      <3>1. CASE dir[n] = NULL
        BY <2>1, <2>2, <3>1, InodeLeft DEF FInv, TableExact
      <3>2. CASE dir[n] # NULL
        BY <2>1, <2>2, <3>2 DEF FInv, TypeOK
      <3> QED  BY <3>1, <3>2
    <2>4. TypeOK'
      <3>1. dir' \in [AllNames -> Inode \cup {NULL}]
        BY <2>1, <2>2, <2>3 DEF FInv, TypeOK
      <3>2. data' \in [Inode -> Bytes]
        BY <2>2, <2>3, BytesAreShort DEF FInv, TypeOK
      <3> QED  BY <1>1, <1>3, <3>1, <3>2 DEF FInv, TypeOK, CallType, Return
    <2>5. TableExact' /\ OpenedAsTyped'
      BY <1>3, SameShape
    <2>6. OnlyWritersWrite
      <3> SUFFICES ASSUME NEW k \in Inode, data'[k] # data[k] PROVE dir'[n] = k
        BY <1>1, <2>1 DEF OnlyWritersWrite
      <3>1. k = i
        BY <2>2 DEF FInv, TypeOK
      <3> QED  BY <2>1, <2>2, <3>1 DEF FInv, TypeOK
    <2>7. PositionsAdvance
      BY <1>1, <1>3 DEF PositionsAdvance, Pos
    <2> QED  BY <2>4, <2>5, <2>6, <2>7 DEF FInv
  <1> QED  BY <1>2, <1>3 DEF SysCreateFile

LEMMA OpenStep ==
    ASSUME FInv, NEW n \in Name \cup {NoName}, NEW type \in 0..4, SysOpen(n, type)
    PROVE  FInv' /\ OnlyWritersWrite /\ PositionsAdvance
  <1>1. call' \in CallType /\ call'.op = "Open"
    BY CallEffect, BytesAreShort DEF SysOpen, Operation
  <1>2. CASE Reject(-1) \/ (type \in {2, 3} /\ Reject(type - 2)) \/ Reject(SC_Open)
    BY <1>1, <1>2, RejectStep DEF SC_Open
  <1>3. CASE /\ FreeSlots # {} /\ type \in 0..1 /\ Exists(n)
             /\ fds' = [fds EXCEPT ![NewFd] = Opened(dir[n], type)]
             /\ openf' = [openf EXCEPT ![Min(FreeSlots)] = NewOpenFile(NewFd, type)]
             /\ Return(Min(FreeSlots))
             /\ UNCHANGED << dir, data, state >>
    <2>1. PICK f : f = NewFd /\ f \in Fd /\ fds[f] = NULL
      BY DescriptorLeft DEF FInv, TableExact
    <2>2. PICK s : s = Min(FreeSlots) /\ s \in Slot /\ s >= 2 /\ openf[s] = NULL
      <3>1. FreeSlots \in SUBSET Nat
        BY DEF FreeSlots, Slot
      <3>2. Min(FreeSlots) \in FreeSlots
        BY <1>3, <3>1, MinOfNaturals
      <3> QED  BY <3>2 DEF FreeSlots
    <2>3. PICK i \in Inode : i = dir[n]
      <3>1. n \in AllNames /\ dir[n] # NULL
        BY <1>3 DEF Exists, AllNames
      <3> QED  BY <3>1 DEF FInv, TypeOK
    <2>4. PICK d : /\ d = Opened(i, type) /\ d \in FdRecord /\ d # NULL
                   /\ d.access = Opened(d.ino, type).access
      <3>1. Opened(i, type) \in FdRecord
        BY <1>3 DEF Opened, FdRecord, Access
      <3>2. Opened(i, type) # NULL
        BY <3>1, NullApart DEF FdRecord
      <3>3. Opened(i, type).access = Opened(Opened(i, type).ino, type).access
        BY DEF Opened
      <3> QED  BY <3>1, <3>2, <3>3
    <2>5. PICK o : o = [file |-> f, type |-> type] /\ o \in OpenFile /\ o # NULL
                   /\ o.file = f /\ o.type = type
      <3>1. [file |-> f, type |-> type] \in OpenFile
        BY <1>3, <2>1 DEF OpenFile
      <3> QED  BY <3>1, NullApart
    <2>6. openf' = [openf EXCEPT ![s] = o] /\ fds' = [fds EXCEPT ![f] = d]
      BY <1>3, <2>1, <2>2, <2>3, <2>4, <2>5 DEF NewOpenFile
    <2>7. /\ openf \in [Slot -> OpenFile \cup {NULL}]
          /\ fds \in [Fd -> FdRecord \cup {NULL}]
      BY DEF FInv, TypeOK, FdRecord
    <2>8. /\ openf'[s] = o /\ \A u \in Slot : u # s => openf'[u] = openf[u]
          /\ fds'[f] = d /\ \A g \in Fd : g # f => fds'[g] = fds[g]
      BY <2>1, <2>2, <2>6, <2>7
    <2>9. ~IsOpen(s) /\ IsOpen(s)' /\ \A u \in Slot : u # s => (IsOpen(u)' <=> IsOpen(u))
      BY <2>2, <2>5, <2>8 DEF IsOpen
    <2>10. \A u \in Slot : IsOpen(u) =>
              openf[u].file # f /\ openf[u].file \in Fd /\ fds[openf[u].file] # NULL
      BY <2>1, OpenHasFd DEF FInv, TableExact
    <2>11. TypeOK'
      <3>1. openf' \in [Slot -> OpenFile \cup {NULL}]
        BY <2>2, <2>5, <2>6, <2>7
      <3>2. fds' \in [Fd -> FdRecord \cup {NULL}]
        BY <2>1, <2>4, <2>6, <2>7
      <3>3. r2' \in Int
        BY <1>3, <2>2 DEF Return, Slot
      <3> QED  BY <1>1, <1>3, <3>1, <3>2, <3>3 DEF FInv, TypeOK, CallType, FdRecord
    <2>12. DescriptorsExact'
      <3>1. \A g \in Fd : fds'[g] # NULL <=> g = f \/ fds[g] # NULL
        BY <2>4, <2>8
      <3>2. \A g \in Fd : fds[g] # NULL <=> \E u \in Slot : IsOpen(u) /\ openf[u].file = g
        <4>1. \A g : g \in {f0 \in Fd : fds[f0] # NULL}
                   <=> g \in {openf[u].file : u \in {u \in Slot : IsOpen(u)}}
          BY DEF FInv, TableExact, DescriptorsExact
        <4> QED  BY <4>1
      <3>3. \A g \in Fd : fds'[g] # NULL <=> \E u \in Slot : IsOpen(u)' /\ openf'[u].file = g
        BY <2>1, <2>2, <2>5, <2>8, <2>9, <3>1, <3>2
      <3>4. \A u \in Slot : IsOpen(u)' => openf'[u].file \in Fd
        BY <2>1, <2>5, <2>8, <2>9, <2>10
      <3>5. {g \in Fd : fds'[g] # NULL} = {openf'[u].file : u \in {u \in Slot : IsOpen(u)'}}
        BY <3>3, <3>4
      <3>6. \A u, v \in Slot : IsOpen(u)' /\ IsOpen(v)' /\ u # v
                                 => openf'[u].file # openf'[v].file
        BY <2>5, <2>8, <2>9, <2>10 DEF FInv, TableExact, DescriptorsExact
      <3> QED  BY <3>5, <3>6 DEF DescriptorsExact
    <2>13. ConsoleSlotsOnly'
      <3> SUFFICES ASSUME NEW u \in Slot, IsOpen(u)'
                   PROVE  openf'[u].type \in {2, 3} <=> u < 2
        BY DEF ConsoleSlotsOnly
      <3>1. CASE u = s
        <4>1. openf'[u].type \notin {2, 3}
          BY <1>3, <2>5, <2>8, <3>1
        <4>2. ~(u < 2)
          BY <2>2, <3>1 DEF Slot
        <4> QED  BY <4>1, <4>2
      <3>2. CASE u # s
        BY <2>8, <2>9, <3>2 DEF FInv, TableExact, ConsoleSlotsOnly
      <3> QED  BY <3>1, <3>2
    <2>14. OpenedAsTyped'
      <3> SUFFICES ASSUME NEW u \in Slot, IsOpen(u)'
                   PROVE  fds'[openf'[u].file].access
                            = Opened(fds'[openf'[u].file].ino, openf'[u].type).access
        BY DEF OpenedAsTyped, Opened
      <3>1. CASE u = s
        BY <2>4, <2>5, <2>8, <3>1
      <3>2. CASE u # s
        <4>1. IsOpen(u) /\ openf'[u] = openf[u] /\ fds'[openf[u].file] = fds[openf[u].file]
          BY <2>8, <2>9, <2>10, <3>2
        <4> QED  BY <4>1 DEF FInv, OpenedAsTyped
      <3> QED  BY <3>1, <3>2
    <2>15. OnlyWritersWrite
      BY <1>3 DEF OnlyWritersWrite
    <2>16. PositionsAdvance
      BY <1>1, <2>8, <2>10 DEF PositionsAdvance, Pos
    <2> QED  BY <2>11, <2>12, <2>13, <2>14, <2>15, <2>16 DEF FInv, TableExact
  <1> QED  BY <1>2, <1>3 DEF SysOpen

(* Freed inodes lose their bytes, the others keep them. *)
LEMMA ReclaimEffect ==
    ASSUME TypeOK, Reclaim
    PROVE  data' \in [Inode -> Bytes] /\ OnlyWritersWrite
  <1>1. \A i \in Inode : data'[i] = data[i] \/
          (data'[i] = << >> /\ \A f \in Fd : fds'[f] = NULL \/ fds'[f].ino # i)
    BY DEF Reclaim
  <1>2. data' \in [Inode -> Bytes]
    <2>1. data' = [i \in Inode |-> data'[i]]
      BY DEF Reclaim
    <2>2. \A i \in Inode : data'[i] \in Bytes
      BY <1>1, BytesAreShort DEF TypeOK
    <2> QED  BY <2>1, <2>2
  <1>3. OnlyWritersWrite
    BY <1>1 DEF OnlyWritersWrite
  <1> QED  BY <1>2, <1>3

LEMMA RemoveStep ==
    ASSUME FInv, NEW n \in Name \cup {NoName}, SysRemove(n)
    PROVE  FInv' /\ OnlyWritersWrite /\ PositionsAdvance
  <1>1. call' \in CallType /\ call'.op = "Remove"
    BY CallEffect, BytesAreShort DEF SysRemove, Operation
  <1>2. CASE Reject(0)
    BY <1>1, <1>2, RejectStep
  <1>3. CASE /\ dir' = [dir EXCEPT ![n] = NULL] /\ Return(1)
             /\ UNCHANGED << openf, fds, state >> /\ Reclaim
    <2>1. dir' \in [AllNames -> Inode \cup {NULL}]
      BY <1>3 DEF FInv, TypeOK
    <2>2. data' \in [Inode -> Bytes] /\ OnlyWritersWrite
      BY <1>3, ReclaimEffect DEF FInv
    <2>3. TypeOK'
      BY <1>1, <1>3, <2>1, <2>2 DEF FInv, TypeOK, CallType, Return
    <2>4. TableExact' /\ OpenedAsTyped'
      BY <1>3, SameShape
    <2>5. PositionsAdvance
      BY <1>1, <1>3 DEF PositionsAdvance, Pos
    <2> QED  BY <2>2, <2>3, <2>4, <2>5 DEF FInv
  <1> QED  BY <1>2, <1>3 DEF SysRemove

LEMMA CloseStep ==
    ASSUME FInv, NEW id \in Ids, SysClose(id)
    PROVE  FInv' /\ OnlyWritersWrite /\ PositionsAdvance
  <1>1. call' \in CallType /\ call'.op = "Close"
    BY CallEffect, BytesAreShort DEF SysClose, Operation
  <1>2. CASE Reject(-1)
    BY <1>1, <1>2, RejectStep
  <1>3. CASE /\ IsOpen(id) /\ DeleteOpenFile(id) /\ Return(0)
             /\ UNCHANGED << dir, state >> /\ Reclaim
    <2>1. id \in Slot
      BY <1>3 DEF IsOpen
    <2>2. PICK x : x = openf[id].file /\ x \in Fd /\ fds[x] # NULL
      BY <1>3, <2>1, OpenHasFd DEF FInv, TableExact
    <2>3. /\ openf \in [Slot -> OpenFile \cup {NULL}]
          /\ fds \in [Fd -> FdRecord \cup {NULL}]
      BY DEF FInv, TypeOK, FdRecord
    <2>4. /\ openf' = [openf EXCEPT ![id] = NULL] /\ fds' = [fds EXCEPT ![x] = NULL]
      BY <1>3, <2>2 DEF DeleteOpenFile
    <2>5. /\ openf'[id] = NULL /\ \A u \in Slot : u # id => openf'[u] = openf[u]
          /\ fds'[x] = NULL /\ \A g \in Fd : g # x => fds'[g] = fds[g]
      BY <2>1, <2>2, <2>3, <2>4
    <2>6. ~IsOpen(id)' /\ \A u \in Slot : u # id => (IsOpen(u)' <=> IsOpen(u))
      BY <2>5 DEF IsOpen
    <2>7. \A u \in Slot : IsOpen(u) /\ u # id =>
              openf[u].file # x /\ openf[u].file \in Fd /\ fds[openf[u].file] # NULL
      BY <1>3, <2>1, <2>2, OpenHasFd DEF FInv, TableExact, DescriptorsExact
    <2>8. TypeOK' /\ OnlyWritersWrite
      <3>1. openf' \in [Slot -> OpenFile \cup {NULL}] /\ fds' \in [Fd -> FdRecord \cup {NULL}]
        BY <2>3, <2>4
      <3>2. data' \in [Inode -> Bytes] /\ OnlyWritersWrite
        BY <1>3, ReclaimEffect DEF FInv
      <3> QED  BY <1>1, <1>3, <3>1, <3>2 DEF FInv, TypeOK, CallType, FdRecord, Return
    <2>9. DescriptorsExact'
      <3>1. \A g \in Fd : fds'[g] # NULL <=> g # x /\ fds[g] # NULL
        BY <2>5
      <3>2. \A g \in Fd : fds[g] # NULL <=> \E u \in Slot : IsOpen(u) /\ openf[u].file = g
        <4>1. \A g : g \in {f0 \in Fd : fds[f0] # NULL}
                   <=> g \in {openf[u].file : u \in {u \in Slot : IsOpen(u)}}
          BY DEF FInv, TableExact, DescriptorsExact
        <4> QED  BY <4>1
      <3>3. \A g \in Fd : fds'[g] # NULL <=> \E u \in Slot : IsOpen(u)' /\ openf'[u].file = g
        BY <2>2, <2>5, <2>6, <2>7, <3>1, <3>2
      <3>4. \A u \in Slot : IsOpen(u)' => openf'[u].file \in Fd
        BY <2>5, <2>6, <2>7
      <3>5. {g \in Fd : fds'[g] # NULL} = {openf'[u].file : u \in {u \in Slot : IsOpen(u)'}}
        BY <3>3, <3>4
      <3>6. \A u, v \in Slot : IsOpen(u)' /\ IsOpen(v)' /\ u # v
                                 => openf'[u].file # openf'[v].file
        BY <2>5, <2>6 DEF FInv, TableExact, DescriptorsExact
      <3> QED  BY <3>5, <3>6 DEF DescriptorsExact
    <2>10. ConsoleSlotsOnly'
      BY <2>5, <2>6 DEF FInv, TableExact, ConsoleSlotsOnly
    <2>11. OpenedAsTyped'
      <3> SUFFICES ASSUME NEW u \in Slot, IsOpen(u)'
                   PROVE  fds'[openf'[u].file].access
                            = Opened(fds'[openf'[u].file].ino, openf'[u].type).access
        BY DEF OpenedAsTyped, Opened
      <3>1. u # id /\ IsOpen(u) /\ openf'[u] = openf[u]
            /\ fds'[openf[u].file] = fds[openf[u].file]
        BY <2>5, <2>6, <2>7
      <3> QED  BY <3>1 DEF FInv, OpenedAsTyped
    <2>12. PositionsAdvance
      BY <1>1, <2>5, <2>6, <2>7 DEF PositionsAdvance, Pos
    <2> QED  BY <2>8, <2>9, <2>10, <2>11, <2>12 DEF FInv, TableExact
  <1> QED  BY <1>2, <1>3 DEF SysClose

LEMMA HaltStep ==
    ASSUME FInv, SysHalt
    PROVE  FInv' /\ OnlyWritersWrite /\ PositionsAdvance
  <1>1. call' \in CallType /\ call'.op = "Halt"
    BY CallEffect, BytesAreShort DEF SysHalt, Operation
  <1>2. openf' \in [Slot -> OpenFile \cup {NULL}] /\ \A s \in Slot : ~IsOpen(s)'
    BY DEF SysHalt, IsOpen
  <1>3. \A f \in Fd : fds'[f] = NULL
    <2> SUFFICES ASSUME NEW f \in Fd PROVE fds'[f] = NULL
      OBVIOUS
    <2>1. fds[f] # NULL => \E s \in Slot : openf[s] # NULL /\ openf[s].file = f
      <3>1. f \in {g \in Fd : fds[g] # NULL}
                <=> f \in {openf[u].file : u \in {u \in Slot : IsOpen(u)}}
        BY DEF FInv, TableExact, DescriptorsExact
      <3> QED  BY <3>1 DEF IsOpen
    <2> QED  BY <2>1 DEF SysHalt
  <1>4. fds' \in [Fd -> FdRecord \cup {NULL}]
    <2>1. fds' = [f \in Fd |-> fds'[f]]
      BY DEF SysHalt
    <2> QED  BY <1>3, <2>1
  <1>5. data' \in [Inode -> Bytes] /\ OnlyWritersWrite
    BY ReclaimEffect DEF FInv, SysHalt
  <1>6. TypeOK'
    BY <1>1, <1>2, <1>4, <1>5 DEF FInv, TypeOK, CallType, FdRecord, SysHalt
  <1>7. TableExact' /\ OpenedAsTyped'
    <2>1. {f \in Fd : fds'[f] # NULL} = {}
      BY <1>3
    <2>2. {openf'[u].file : u \in {u \in Slot : IsOpen(u)'}} = {}
      BY <1>2
    <2> QED  BY <1>2, <2>1, <2>2 DEF TableExact, DescriptorsExact, ConsoleSlotsOnly, OpenedAsTyped
  <1>8. PositionsAdvance
    BY <1>2 DEF PositionsAdvance
  <1> QED  BY <1>5, <1>6, <1>7, <1>8 DEF FInv

(* An id one beyond the table passes the check of Read and Seek; no open   *)
(* file is touched.                                                        *)
LEMMA WildStep ==
    ASSUME FInv, call' \in CallType, call'.id = MaxFileOpen, Wild
    PROVE  FInv' /\ OnlyWritersWrite /\ PositionsAdvance
  <1>1. UNCHANGED << openf, dir, data, fds >>
    BY DEF Wild, Unix
  <1>2. r2' \in Int /\ state' \in {"run", "halted", "wild"}
    BY DEF Wild, Return, FInv, TypeOK
  <1>3. MaxFileOpen \notin Slot
    BY DEF Slot
  <1> QED  BY <1>1, <1>2, <1>3, QuietStep

LEMMA ReadStep ==
    ASSUME FInv, NEW id \in Ids, NEW n \in 0..MaxLen, SysRead(id, n)
    PROVE  FInv' /\ OnlyWritersWrite /\ PositionsAdvance
  <1>1. CASE Call("Read", NoName, id, << >>) /\ Reject(-1)
    <2>1. call' \in CallType
      BY <1>1, CallEffect, BytesAreShort DEF Operation
    <2> QED  BY <1>1, <2>1, RejectStep
  <1>2. CASE Call("Read", NoName, id, << >>) /\ id = MaxFileOpen /\ Wild
    <2>1. call' \in CallType /\ call'.id = id
      BY <1>2, CallEffect, BytesAreShort DEF Operation
    <2> QED  BY <1>2, <2>1, WildStep
  <1>3. ~(IdPasses(id) /\ IsOpen(id) /\ openf[id].type = 2)
    <2>1. IsOpen(id) => id \in Slot
      BY DEF IsOpen
    <2> QED  BY <2>1 DEF FInv, TableExact, ConsoleSlotsOnly, IdPasses
  <1>4. CASE /\ IsOpen(id)
             /\ LET got == Slice(DataOf(id), Pos(id), n)
                IN  /\ Call("Read", NoName, id, System2User(got))
                    /\ MoveTo(id, Pos(id) + Len(got))
                    /\ Return(ReadResult(got))
             /\ UNCHANGED << openf, dir, data, state >>
    <2>1. id \in Slot
      BY <1>4 DEF IsOpen
    <2>2. Pos(id) \in Nat /\ DataOf(id) \in Bytes
      BY <1>4, <2>1, OpenHasFd DEF FInv, TableExact
    <2>3. PICK got \in Bytes :
             /\ Call("Read", NoName, id, System2User(got))
             /\ MoveTo(id, Pos(id) + Len(got))
             /\ r2' = ReadResult(got)
      BY <1>4, <2>2, SliceBytes DEF Return
    <2>4. Len(got) \in Nat
      BY BytesAreShort, LenProperties
    <2>5. System2User(got) \in Bytes
      BY UpToNulBytes DEF System2User
    <2>6. call' \in CallType /\ call'.op = "Read" /\ call'.id = id
      BY <2>3, <2>5, CallEffect DEF Operation
    <2>7. r2' \in Int /\ (r2' > 0 => r2' = Len(got)) /\ (~(r2' > 0) => Len(got) = 0)
      BY <2>3, <2>4 DEF ReadResult
    <2>8. Pos(id) + Len(got) \in Nat
      BY <2>2, <2>4
    <2>9. /\ fds' \in [Fd -> FdRecord \cup {NULL}]
          /\ \A f \in Fd : fds'[f] # NULL <=> fds[f] # NULL
          /\ \A f \in Fd : fds[f] # NULL => /\ fds'[f].ino = fds[f].ino
                                             /\ fds'[f].access = fds[f].access
      BY <1>4, <2>1, <2>3, <2>8, MoveToEffect
    <2>10. TypeOK'
      BY <1>4, <2>6, <2>7, <2>9 DEF FInv, TypeOK, CallType, FdRecord
    <2>11. TableExact' /\ OpenedAsTyped'
      BY <1>4, <2>9, SameShape
    <2>12. OnlyWritersWrite
      BY <1>4 DEF OnlyWritersWrite
    <2>13. PositionsAdvance
      <3>1. Pos(id) + Len(got) = IF r2' > 0 THEN Pos(id) + r2' ELSE Pos(id)
        BY <2>2, <2>4, <2>7
      <3> QED  BY <1>4, <2>1, <2>3, <2>6, <2>8, <3>1, MovePositions
    <2> QED  BY <2>10, <2>11, <2>12, <2>13 DEF FInv
  <1> QED  BY <1>1, <1>2, <1>3, <1>4 DEF SysRead

LEMMA SeekStep ==
    ASSUME FInv, NEW id \in Ids, NEW p \in -2..(MaxLen + 1), SysSeek(p, id)
    PROVE  FInv' /\ OnlyWritersWrite /\ PositionsAdvance
  <1>1. call' \in CallType /\ call'.op = "Seek" /\ call'.id = id
    <2>1. Call("Seek", NoName, id, << >>)
      BY ZenonT(30) DEF SysSeek
    <2> QED  BY <2>1, CallEffect, BytesAreShort DEF Operation
  <1>2. CASE Reject(-1)
    BY <1>1, <1>2, RejectStep
  <1>3. CASE id = MaxFileOpen /\ Wild
    BY <1>1, <1>3, WildStep
  <1>4. CASE /\ IsOpen(id)
             /\ LET length == Len(DataOf(id))
                    to == IF p = -1 THEN length ELSE p
                IN  IF SeekRefused(to, length)
                      THEN MoveTo(id, length) /\ Return(-1)
                      ELSE MoveTo(id, to) /\ Return(to)
             /\ UNCHANGED << openf, dir, data, state >>
    <2>1. id \in Slot
      BY <1>4 DEF IsOpen
    <2>2. Len(DataOf(id)) \in Nat
      BY <1>4, <2>1, OpenHasFd, BytesAreShort, LenProperties DEF FInv, TableExact
    <2>3. PICK q \in Nat :
             /\ MoveTo(id, q) /\ r2' \in Int
             /\ IF r2' >= 0 THEN q = r2' /\ q <= Len(DataOf(id)) ELSE q = Len(DataOf(id))
      BY <1>4, <2>2 DEF SeekRefused, Return
    <2>4. /\ fds' \in [Fd -> FdRecord \cup {NULL}]
          /\ \A f \in Fd : fds'[f] # NULL <=> fds[f] # NULL
          /\ \A f \in Fd : fds[f] # NULL => /\ fds'[f].ino = fds[f].ino
                                             /\ fds'[f].access = fds[f].access
      BY <1>4, <2>1, <2>3, MoveToEffect
    <2>5. TypeOK'
      BY <1>1, <1>4, <2>3, <2>4 DEF FInv, TypeOK, CallType, FdRecord
    <2>6. TableExact' /\ OpenedAsTyped'
      BY <1>4, <2>4, SameShape
    <2>7. OnlyWritersWrite
      BY <1>4 DEF OnlyWritersWrite
    <2>8. PositionsAdvance
      BY <1>1, <1>4, <2>1, <2>3, MovePositions
    <2> QED  BY <2>5, <2>6, <2>7, <2>8 DEF FInv
  <1> QED  BY <1>2, <1>3, <1>4 DEF SysSeek

LEMMA WriteStep ==
    ASSUME FInv, NEW id \in Ids, NEW buf \in Bytes, SysWrite(id, buf)
    PROVE  FInv' /\ OnlyWritersWrite /\ PositionsAdvance
  <1>1. /\ call' \in CallType /\ call'.op = "Write" /\ call'.id = id
        /\ call'.buf = buf
    <2>1. Call("Write", NoName, id, buf)
      BY Zenon DEF SysWrite
    <2> QED  BY <2>1, CallEffect DEF Operation
  <1>2. CASE Reject(-1)
    BY <1>1, <1>2, RejectStep
  <1> DEFINE result == CASE openf[id].type = 0 /\ buf # << >> -> Len(buf)
                         [] openf[id].type = 0 /\ buf = << >> -> SC_Write
                         [] OTHER -> Cardinality({k \in 1..Len(UpToNul(buf)) :
                                           buf[k] # NUL}) - 1
  <1>3. CASE /\ id >= 2 /\ IsOpen(id) /\ openf[id].type \in {0, 3}
             /\ Pos(id) + Len(buf) <= MaxLen
             /\ data' = [data EXCEPT ![fds[openf[id].file].ino] =
                    IF openf[id].type = 0 /\ buf # << >>
                      THEN Overwrite(@, Pos(id), User2System(buf)) ELSE @]
             /\ MoveTo(id, Pos(id) + IF openf[id].type = 0 THEN Len(buf) ELSE 0)
             /\ Return(result)
             /\ UNCHANGED << openf, dir, state >>
    <2>1. id \in Slot
      BY <1>3 DEF IsOpen
    <2>2. openf[id].type = 0
      <3>1. openf[id].type \in {2, 3} <=> id < 2
        BY <1>3, <2>1 DEF FInv, TableExact, ConsoleSlotsOnly
      <3> QED  BY <1>3, <2>1, <3>1 DEF Slot
    <2>3. /\ Pos(id) \in Nat /\ fds[openf[id].file].ino \in Inode
          /\ fds[openf[id].file].access = "rw"
      <3>1. Pos(id) \in Nat /\ fds[openf[id].file].ino \in Inode
        BY <1>3, <2>1, OpenHasFd DEF FInv, TableExact
      <3>2. fds[openf[id].file].access
              = Opened(fds[openf[id].file].ino, openf[id].type).access
        BY <1>3, <2>1 DEF FInv, OpenedAsTyped
      <3> QED  BY <2>2, <3>1, <3>2 DEF Opened
    <2>4. buf \in Seq(Char) /\ Len(buf) \in Nat /\ (buf # << >> => Len(buf) > 0)
          /\ Len(<< >>) = 0
      BY BytesAreShort, LenProperties, EmptySeq
    <2>5. r2' = (IF buf # << >> THEN Len(buf) ELSE SC_Write) /\ r2' \in Int
      BY <1>3, <2>2, <2>4 DEF Return, SC_Write
    <2>6. Pos(id) + Len(buf) \in Nat /\ MoveTo(id, Pos(id) + Len(buf))
      BY <1>3, <2>2, <2>3, <2>4
    <2>7. /\ fds' \in [Fd -> FdRecord \cup {NULL}]
          /\ \A f \in Fd : fds'[f] # NULL <=> fds[f] # NULL
          /\ \A f \in Fd : fds[f] # NULL => /\ fds'[f].ino = fds[f].ino
                                             /\ fds'[f].access = fds[f].access
      BY <1>3, <2>1, <2>6, MoveToEffect
    <2>8. PICK i \in Inode : i = fds[openf[id].file].ino
      BY <2>3
    <2>9. PICK new \in Bytes : data' = [data EXCEPT ![i] = new]
      <3>1. data[i] \in Bytes
        BY DEF FInv, TypeOK
      <3>2. CASE buf = << >>
        BY <1>3, <2>8, <3>1, <3>2
      <3>3. CASE buf # << >>
        <4>1. User2System(buf) \in Seq(Char) /\ Len(User2System(buf)) = Len(buf)
          BY User2SystemBytes
        <4>2. Overwrite(data[i], Pos(id), User2System(buf)) \in Bytes
          BY <1>3, <2>3, <3>1, <4>1, OverwriteBytes
        <4>3. data' = [data EXCEPT ![i] = Overwrite(data[i], Pos(id), User2System(buf))]
          BY <1>3, <2>2, <2>8, <3>3
        <4> QED  BY <4>2, <4>3
      <3> QED  BY <3>2, <3>3
    <2>10. TypeOK'
      <3>1. data' \in [Inode -> Bytes]
        BY <2>9 DEF FInv, TypeOK
      <3> QED  BY <1>1, <1>3, <2>5, <2>7, <3>1 DEF FInv, TypeOK, CallType, FdRecord
    <2>11. TableExact' /\ OpenedAsTyped'
      BY <1>3, <2>7, SameShape
    <2>12. OnlyWritersWrite
      <3>1. \A k \in Inode : data'[k] # data[k] => k = i
        BY <2>9 DEF FInv, TypeOK
      <3> QED  BY <1>1, <2>1, <2>3, <2>8, <3>1 DEF OnlyWritersWrite
    <2>13. PositionsAdvance
      <3>1. Pos(id) + Len(buf) = IF r2' > 0 /\ ~(call'.op = "Write" /\ call'.buf = << >>)
                                   THEN Pos(id) + r2' ELSE Pos(id)
        BY <1>1, <2>3, <2>4, <2>5
      <3> QED  BY <1>1, <1>3, <2>1, <2>6, <3>1, MovePositions
    <2> QED  BY <2>10, <2>11, <2>12, <2>13 DEF FInv
  <1> QED  BY <1>2, <1>3 DEF SysWrite

-----------------------------------------------------------------------------
LEMMA InitFInv == Init => FInv
  <1> SUFFICES ASSUME Init PROVE FInv
    OBVIOUS
  <1>1. PICK i \in Inode, j \in Inode :
          /\ dir = [n \in AllNames |-> CASE n = "stdin" -> i
                                         [] n = "stdout" -> j
                                         [] OTHER -> NULL]
          /\ fds = [f \in Fd |-> CASE f = 1 -> Opened(i, 2)
                                   [] f = 2 -> Opened(j, 3)
                                   [] OTHER -> NULL]
          /\ openf = [s \in Slot |->
                CASE s = 0 -> [file |-> 1, type |-> 2]
                  [] s = 1 -> [file |-> 2, type |-> 3]
                  [] OTHER -> NULL]
          /\ data = [k \in Inode |-> << >>]
          /\ r2 = 0
          /\ call = [op |-> "Boot", name |-> NoName, id |-> NULL, buf |-> << >>]
          /\ state = "run"
    BY DEF Init
  <1>2. 1 \in Fd /\ 2 \in Fd /\ 0 \in Slot /\ 1 \in Slot
    BY DEF Fd, Slot
  <1>3. /\ Opened(i, 2) \in FdRecord /\ Opened(i, 2) # NULL /\ Opened(i, 2).access = "r"
        /\ Opened(j, 3) \in FdRecord /\ Opened(j, 3) # NULL /\ Opened(j, 3).access = "w"
    <2>1. Opened(i, 2) \in FdRecord /\ Opened(j, 3) \in FdRecord
      BY DEF Opened, FdRecord, Access
    <2>2. Opened(i, 2) # NULL /\ Opened(j, 3) # NULL
      BY <2>1, NullApart DEF FdRecord
    <2> QED  BY <2>1, <2>2 DEF Opened
  <1>4. /\ [file |-> 1, type |-> 2] \in OpenFile /\ [file |-> 1, type |-> 2] # NULL
        /\ [file |-> 2, type |-> 3] \in OpenFile /\ [file |-> 2, type |-> 3] # NULL
    BY <1>2, NullApart DEF OpenFile
  <1>5. /\ fds[1] = Opened(i, 2) /\ fds[2] = Opened(j, 3)
        /\ \A f \in Fd : f # 1 /\ f # 2 => fds[f] = NULL
    BY <1>1, <1>2
  <1>6. /\ openf[0].file = 1 /\ openf[0].type = 2 /\ openf[0] # NULL
        /\ openf[1].file = 2 /\ openf[1].type = 3 /\ openf[1] # NULL
        /\ \A s \in Slot : s # 0 /\ s # 1 => openf[s] = NULL
    BY <1>1, <1>2, <1>4
  <1>7. \A s \in Slot : IsOpen(s) <=> s \in {0, 1}
    BY <1>2, <1>6 DEF IsOpen
  <1>8. TypeOK
    <2>1. openf \in [Slot -> OpenFile \cup {NULL}]
      BY <1>1, <1>4
    <2>2. dir \in [AllNames -> Inode \cup {NULL}]
      BY <1>1
    <2>3. data \in [Inode -> Bytes]
      BY <1>1, BytesAreShort
    <2>4. fds \in [Fd -> [ino : Inode, pos : Nat, access : Access] \cup {NULL}]
      BY <1>1, <1>3 DEF FdRecord
    <2>5. call \in [op : Operation, name : Name \cup {NoName}, id : Ids \cup {NULL}, buf : Bytes]
      BY <1>1, BytesAreShort DEF Operation
    <2> QED  BY <1>1, <2>1, <2>2, <2>3, <2>4, <2>5 DEF TypeOK
  <1>9. DescriptorsExact
    <2>1. {f \in Fd : fds[f] # NULL} = {1, 2}
      BY <1>2, <1>3, <1>5
    <2>2. {openf[s].file : s \in {s \in Slot : IsOpen(s)}} = {1, 2}
      BY <1>2, <1>6, <1>7
    <2>3. \A s, u \in Slot : IsOpen(s) /\ IsOpen(u) /\ s # u
                           => openf[s].file # openf[u].file
      BY <1>6, <1>7
    <2> QED  BY <2>1, <2>2, <2>3 DEF DescriptorsExact
  <1>10. ConsoleSlotsOnly
    BY <1>6, <1>7 DEF ConsoleSlotsOnly
  <1>11. OpenedAsTyped
    BY <1>3, <1>5, <1>6, <1>7 DEF OpenedAsTyped, Opened
  <1> QED  BY <1>8, <1>9, <1>10, <1>11 DEF FInv, TableExact

LEMMA StutterStep == FInv /\ UNCHANGED vars => FInv'
  <1> SUFFICES ASSUME FInv, UNCHANGED vars PROVE FInv'
    OBVIOUS
  <1>1. TypeOK'
    BY DEF vars, FInv, TypeOK
  <1>2. openf' = openf /\ fds' = fds
    BY DEF vars
  <1>3. TableExact' /\ OpenedAsTyped'
    BY <1>2, SameShape
  <1> QED  BY <1>1, <1>3 DEF FInv

LEMMA NextStep ==
    ASSUME FInv, Next
    PROVE  FInv' /\ [OnlyWritersWrite /\ PositionsAdvance]_vars
  <1>1. CASE \E n \in Name \cup {NoName} :
                \/ SysCreateFile(n) \/ SysRemove(n)
                \/ \E type \in 0..4 : SysOpen(n, type)
    BY <1>1, CreateStep, RemoveStep, OpenStep
  <1>2. CASE \E id \in Ids :
                \/ SysClose(id)
                \/ \E n \in 0..MaxLen : SysRead(id, n)
                \/ \E buf \in Bytes : SysWrite(id, buf)
                \/ \E p \in -2..(MaxLen + 1) : SysSeek(p, id)
    BY <1>2, CloseStep, ReadStep, WriteStep, SeekStep
  <1>3. CASE SysHalt
    BY <1>3, HaltStep
  <1>4. CASE Stopped
    <2>1. UNCHANGED vars
      BY <1>4 DEF Stopped
    <2> QED  BY <2>1, StutterStep
  <1> QED  BY <1>1, <1>2, <1>3, <1>4 DEF Next

(* In every state the types hold, and the mode of each descriptor is the   *)
(* one its OpenFile was given.                                             *)
LEMMA TableInvariant == Spec => []FInv
  <1>1. FInv /\ [Next]_vars => FInv'
    BY NextStep, StutterStep
  <1> QED  BY InitFInv, <1>1, PTL DEF Spec

(* No descriptor leaks and none is closed twice, through any sequence of   *)
(* Open, Close, Read, Write, Seek, Create and Remove with any ids, and only*)
(* slots 0 and 1 hold console files, whatever the size of openf.           *)
THEOREM TableStaysExact == Spec => []TableExact
  <1>1. FInv => TableExact
    BY DEF FInv
  <1> QED  BY TableInvariant, <1>1, PTL

(* Every call changes the bytes and the position of no file but its own:   *)
(* bytes through a descriptor that may write, positions by what is         *)
(* returned.                                                               *)
THEOREM CallsChangeTheirFile == Spec => FilesChangeExact
  <1>1. FInv /\ [Next]_vars => [OnlyWritersWrite /\ PositionsAdvance]_vars
    BY NextStep
  <1> QED  BY TableInvariant, <1>1, PTL DEF Spec, FilesChangeExact

=============================================================================
