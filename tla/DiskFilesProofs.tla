-------------------------- MODULE DiskFilesProofs --------------------------
(***************************************************************************)
(* Proofs about DiskFiles, for a disk and a directory of any size and      *)
(* files of any size a header can hold, wherever Nachos is stopped and     *)
(* however often, as long as callers do not remove files that are open and *)
(* leave the files alone that a stop has hurt.                             *)
(***************************************************************************)
EXTENDS DiskFiles, FiniteSetTheorems, SequenceTheorems, WellFoundedInduction, TLAPS

(* A header has as many data sectors as its bytes need. *)
Sized(hdr) == Len(hdr.dataSectors) = DivRoundUp(hdr.numBytes, SectorSize)
HeadersSized == \A s \in Sector : headerAt[s] # NULL => Sized(headerAt[s])

(* The entries of stdin and stdout stay as they are. *)
Standard ==
    /\ 1 \in Sound /\ table[1].name = "stdin"
    /\ 2 \in Sound /\ table[2].name = "stdout"

-----------------------------------------------------------------------------
(* The operation in progress, by what it has still to write.               *)

MapExactFor(files) == freeMap = SystemSectors \cup UNION {FileSectors(i) : i \in files}

(* FindIndex, looking for one of these files by its name, meets no other   *)
(* entry first, not even one that a stop puts in use with the name it has. *)
NamesApart(files) == \A j \in files : \A i \in 1..(j - 1) : table[i].name # table[j].name
Whole == MapExactFor(Sound) /\ NamesApart(Sound)

(* The file at entry j is the one a stop would hurt. *)
WholeBut(j) ==
    j \in Sound \ {1, 2} /\ MapExactFor(Sound \ {j}) /\ NamesApart(Sound \ {j})

Linked(j, n, sector) == [table EXCEPT ![j] = NewEntry(n, sector)]
Unlinked(j) == [table EXCEPT ![j].inUse = FALSE]
WriteDir(part, new) == [op |-> "dir", part |-> part, new |-> new]
Mark(sectors) == [op |-> "map", new |-> freeMap \cup sectors]
Unmark(sectors) == [op |-> "map", new |-> freeMap \ sectors]

(* What Create has chosen: sectors that are free, a name that is new, and  *)
(* the first entry that was not in use.                                    *)
NewFile(sector, hdr) ==
    /\ sector \in Sector \ freeMap
    /\ hdr \in Header /\ Sized(hdr) /\ IsInjective(hdr.dataSectors)
    /\ Range(hdr.dataSectors) \cap (freeMap \cup {sector}) = {}
NewName(j, n) ==
    \A i \in 1..NumDirEntries : i # j =>
        /\ i < j => i \in InUse
        /\ i \in InUse => table[i].name # n

(* Create, before the header, the head of the entry, the rest of the       *)
(* directory and the map.                                                  *)
HeaderNext(j, n, sector) ==
    LET hdr == todo[1].new
    IN  /\ Len(todo) = 3
        /\ todo = << [op |-> "hdr", at |-> sector, new |-> hdr],
                     WriteDir(1, Linked(j, n, sector)),
                     Mark({sector} \cup Range(hdr.dataSectors)) >>
        /\ NewFile(sector, hdr)
        /\ Whole
LinkNext(j, n, sector) ==
    /\ NewFile(sector, headerAt[sector])
    /\ \E p \in 1..HeadPart(j) :
         todo = << WriteDir(p, Linked(j, n, sector)),
                   Mark({sector} \cup Range(headerAt[sector].dataSectors)) >>
    /\ Whole
NameNext(j, n) ==
    /\ \E p \in (HeadPart(j) + 1)..DirSectors :
         /\ todo = << WriteDir(p, Linked(j, n, table[j].sector)), Mark(FileSectors(j)) >>
         /\ p > NamePart(j) => table[j].name = n
    /\ WholeBut(j)
MarkNext(j) == todo = << Mark(FileSectors(j)) >> /\ WholeBut(j) /\ NamesApart({j})

(* Remove, before the map, the head of the entry and the rest of the       *)
(* directory.                                                              *)
Removable(j) == j \notin {1, 2} /\ ~IsOpen(table[j].sector)
UnmarkNext(j) ==
    todo = << Unmark(FileSectors(j)), WriteDir(1, Unlinked(j)) >> /\ Whole
UnlinkNext(j) ==
    /\ \E p \in 1..HeadPart(j) : todo = << WriteDir(p, Unlinked(j)) >>
    /\ WholeBut(j) /\ NamesApart({j})
RestNext == (\E p \in 1..DirSectors : todo = << WriteDir(p, table) >>) /\ Whole

Creating ==
    \/ \E j \in Unused, n \in Name, sector \in Sector :
         NewName(j, n) /\ (HeaderNext(j, n, sector) \/ LinkNext(j, n, sector))
    \/ \E j \in Sound, n \in Name : NewName(j, n) /\ NameNext(j, n)
    \/ \E j \in Sound : MarkNext(j)
Removing ==
    \/ \E j \in Sound : Removable(j) /\ (UnmarkNext(j) \/ UnlinkNext(j))
    \/ RestNext
Progress == (Quiet /\ Whole) \/ Creating \/ Removing

(* The inductive invariant. *)
FInv == /\ TypeOK /\ HeadersSized /\ FilesDisjoint /\ hurt \subseteq InUse /\ Standard
        /\ OpenHeadersCurrent /\ Progress

-----------------------------------------------------------------------------
(* The arithmetic of sectors and positions.                                *)

LEMMA DivMod ==
  ASSUME NEW a \in Nat, NEW s \in Nat \ {0}
  PROVE  /\ a \div s \in Nat /\ a % s \in Nat /\ a % s < s
         /\ a = (a \div s) * s + (a % s)
  OBVIOUS

LEMMA DivModUnique ==
  ASSUME NEW s \in Nat \ {0}, NEW q \in Nat, NEW r \in Nat, r < s
  PROVE  (q * s + r) \div s = q /\ (q * s + r) % s = r
  OBVIOUS

LEMMA TimesOrder ==
  ASSUME NEW a \in Nat, NEW b \in Nat, NEW s \in Nat \ {0}
  PROVE  /\ a <= b => a * s <= b * s
         /\ a * s < b * s => a < b
         /\ a * s \in Nat
         /\ (a + 1) * s = a * s + s
  OBVIOUS

LEMMA RoundUpBy ==
  ASSUME NEW n \in Nat, NEW s \in Nat \ {0}
  PROVE  /\ DivRoundUp(n, s) \in Nat
         /\ n <= DivRoundUp(n, s) * s
         /\ DivRoundUp(n, s) * s < n + s
         /\ \A k \in Nat : k < n => k \div s \in 0..(DivRoundUp(n, s) - 1)
  <1>2. PICK m \in Nat : m = n + s - 1
    OBVIOUS
  <1>3. PICK d \in Nat, r \in Nat : d = m \div s /\ r = m % s /\ r < s /\ m = d * s + r
    BY DivMod
  <1>4. d = DivRoundUp(n, s)
    BY <1>2, <1>3 DEF DivRoundUp
  <1>5. d * s \in Nat
    BY TimesOrder
  <1>6. n <= d * s /\ d * s < n + s
    BY <1>2, <1>3, <1>5
  <1>7. ASSUME NEW k \in Nat, k < n PROVE k \div s \in 0..(d - 1)
    <2>1. PICK q \in Nat, t \in Nat : q = k \div s /\ t < s /\ k = q * s + t
      BY DivMod
    <2>2. q * s \in Nat
      BY TimesOrder
    <2>3. q * s < d * s
      BY <1>5, <1>6, <1>7, <2>1, <2>2
    <2>4. q < d
      BY <2>3, TimesOrder
    <2> QED  BY <2>1, <2>4
  <1> QED  BY <1>4, <1>6, <1>7

(* Every field of the directory lies in one of its sectors, and the head   *)
(* of an entry not after its name.                                         *)
LEMMA DirParts ==
    /\ DirSectors \in Nat \ {0}
    /\ \A i \in 1..NumDirEntries :
         /\ HeadPart(i) \in 1..DirSectors /\ NamePart(i) \in 1..DirSectors
         /\ HeadPart(i) <= NamePart(i)
  <1>1. PICK s \in Nat \ {0}, n \in Nat : s = DirFields /\ n = NumDirEntries /\ n > 0
    BY DiskAssumption
  <1>2. PICK d \in Nat : d = DirSectors /\ \A k \in Nat : k < 2 * n => k \div s \in 0..(d - 1)
    <2>1. PICK m \in Nat : m = 2 * n
      OBVIOUS
    <2>2. DivRoundUp(m, s) \in Nat /\ \A k \in Nat : k < m => k \div s \in 0..(DivRoundUp(m, s) - 1)
      BY RoundUpBy
    <2> QED  BY <1>1, <2>1, <2>2 DEF DirSectors
  <1>3. ASSUME NEW i \in 1..n
        PROVE  /\ HeadPart(i) \in 1..d /\ NamePart(i) \in 1..d /\ HeadPart(i) <= NamePart(i)
    <2>1. PICK a \in Nat, b \in Nat : a = 2 * i - 2 /\ b = 2 * i - 1 /\ a < b /\ b < 2 * n
      OBVIOUS
    <2>2. PICK qa \in Nat, ra \in Nat : qa = a \div s /\ a = qa * s + ra
      BY DivMod
    <2>3. PICK qb \in Nat, rb \in Nat : qb = b \div s /\ b = qb * s + rb /\ rb < s
      BY DivMod
    <2>4. qa <= qb
      <3>1. qa * s \in Nat /\ (qb + 1) * s = qb * s + s /\ qb * s \in Nat
        BY TimesOrder
      <3>2. PICK q1 \in Nat : q1 = qb + 1
        OBVIOUS
      <3>3. qa * s < q1 * s
        BY <2>1, <2>2, <2>3, <3>1, <3>2
      <3>4. qa < q1
        BY <3>3, TimesOrder
      <3> QED  BY <3>2, <3>4
    <2>5. qa \in 0..(d - 1) /\ qb \in 0..(d - 1)
      <3>1. a < 2 * n /\ b < 2 * n
        BY <2>1
      <3>2. a \div s \in 0..(d - 1) /\ b \div s \in 0..(d - 1)
        BY <1>2, <3>1
      <3> QED  BY <2>2, <2>3, <3>2
    <2>6. HeadPart(i) = 1 + qa /\ NamePart(i) = 1 + qb
      BY <1>1, <2>1, <2>2, <2>3 DEF HeadPart, NamePart
    <2> QED  BY <2>4, <2>5, <2>6
  <1>4. d # 0
    BY <1>1, <1>3
  <1> QED  BY <1>1, <1>2, <1>3, <1>4

LEMMA Sizes ==
    /\ NumSectors \in Nat /\ SectorSize \in Nat \ {0} /\ MapSectors \in Nat \ {0}
    /\ DirSectors \in Nat \ {0} /\ NumDirEntries \in Nat /\ NumDirEntries >= 2
    /\ MaxSize \in Nat /\ MaxFileOpen \in Nat /\ MaxFileOpen > 3
    /\ NumSectors >= 4 + MapSectors + DirSectors
    /\ {"stdin", "stdout"} \subseteq Name /\ Junk \in Byte
  BY DiskAssumption, DirParts

LEMMA NullApart == NULL \notin Header /\ NULL \notin OpenFile
  BY NullAssumption

LEMMA RoundUp ==
  ASSUME NEW n \in Nat
  PROVE  /\ DivRoundUp(n, SectorSize) \in Nat
         /\ n <= DivRoundUp(n, SectorSize) * SectorSize
         /\ DivRoundUp(n, SectorSize) * SectorSize < n + SectorSize
         /\ \A k \in Nat : k < n => k \div SectorSize \in 0..(DivRoundUp(n, SectorSize) - 1)
  BY Sizes, RoundUpBy

-----------------------------------------------------------------------------
(* Sets of numbers, as loops over them see them.                           *)

(* A set of numbers that is not empty has a least one. *)
LEMMA LeastOf ==
  ASSUME NEW S \in SUBSET Nat, S # {}
  PROVE  Min(S) \in S /\ \A y \in S : Min(S) <= y
  <1>1. \E x \in S : \A y \in S : ~(<< y, x >> \in OpToRel(<, Nat))
    BY NatLessThanWellFounded, WFMin
  <1>2. PICK x \in S : \A y \in S : << y, x >> \notin OpToRel(<, Nat)
    BY <1>1
  <1>3. \A y \in S : ~(y < x)
    BY <1>2, Zenon DEF OpToRel
  <1>4. \A y \in S : x <= y
    BY <1>3
  <1> QED  BY <1>4 DEF Min

LEMMA RankBelow ==
  ASSUME NEW S \in SUBSET Nat, IsFiniteSet(S), NEW x \in S
  PROVE  /\ IsFiniteSet(Below(S, x)) /\ Cardinality(Below(S, x)) \in Nat
         /\ Cardinality(Below(S, x)) < Cardinality(S) /\ Cardinality(S) \in Nat
         /\ \A y \in S : x < y => Cardinality(Below(S, x)) < Cardinality(Below(S, y))
  <1>1. Below(S, x) \in SUBSET S /\ x \notin Below(S, x)
    BY DEF Below
  <1>2. IsFiniteSet(Below(S, x)) /\ Cardinality(Below(S, x)) <= Cardinality(S)
        /\ Cardinality(S) # Cardinality(Below(S, x))
    BY <1>1, FS_Subset
  <1>3. Cardinality(Below(S, x)) \in Nat /\ Cardinality(S) \in Nat
    BY <1>2, FS_CardinalityType
  <1>4. ASSUME NEW y \in S, x < y
        PROVE  Cardinality(Below(S, x)) < Cardinality(Below(S, y))
    <2>1. Below(S, y) \in SUBSET S
      BY DEF Below
    <2>2. IsFiniteSet(Below(S, y))
      BY <2>1, FS_Subset
    <2>3. Below(S, x) \in SUBSET Below(S, y) /\ x \in Below(S, y)
      <3>1. \A z \in S : z < x => z < y
        BY <1>4
      <3> QED  BY <1>4, <3>1 DEF Below
    <2>4. Cardinality(Below(S, x)) <= Cardinality(Below(S, y))
          /\ Cardinality(Below(S, y)) # Cardinality(Below(S, x))
      BY <1>1, <2>2, <2>3, FS_Subset
    <2>5. Cardinality(Below(S, y)) \in Nat
      BY <2>2, FS_CardinalityType
    <2> QED  BY <1>3, <2>4, <2>5
  <1> QED  BY <1>2, <1>3, <1>4

(* A loop upwards meets every number of the set, and each once. *)
LEMMA UpwardsMeetsAll ==
  ASSUME NEW S \in SUBSET Nat, IsFiniteSet(S)
  PROVE  /\ Cardinality(S) \in Nat
         /\ Upwards(S) \in [1..Cardinality(S) -> S]
         /\ \A x \in S : \E i \in 1..Cardinality(S) : Upwards(S)[i] = x
         /\ IsInjective(Upwards(S))
  <1>1. PICK n \in Nat : n = Cardinality(S)
    BY FS_CardinalityType
  <1>2. PICK rank : rank = [x \in S |-> Cardinality(Below(S, x)) + 1]
    OBVIOUS
  <1>3. rank \in [S -> 1..n]
    <2>1. ASSUME NEW x \in S PROVE Cardinality(Below(S, x)) + 1 \in 1..n
      BY <1>1, RankBelow
    <2> QED  BY <1>2, <2>1
  <1>4. IsInjective(rank)
    <2> SUFFICES ASSUME NEW x \in S, NEW y \in S, x < y PROVE rank[x] # rank[y]
      <3>1. \A x, y \in S : x < y \/ y < x \/ x = y
        OBVIOUS
      <3> QED  BY <1>2, <3>1 DEF IsInjective
    <2>1. Cardinality(Below(S, x)) < Cardinality(Below(S, y))
          /\ Cardinality(Below(S, x)) \in Nat /\ Cardinality(Below(S, y)) \in Nat
      BY RankBelow
    <2> QED  BY <1>2, <2>1
  <1>5. rank \in Surjection(S, 1..n)
    <2>1. rank \in Injection(S, 1..n)
      BY <1>3, <1>4 DEF Injection
    <2>2. IsFiniteSet(1..n) /\ Cardinality(1..n) = n
      BY FS_Interval
    <2> QED  BY <1>1, <2>1, <2>2, FS_Injection
  <1>6. \A i \in 1..n : \E x \in S : rank[x] = i
    BY <1>5 DEF Surjection
  <1>7. \A i \in 1..n : Upwards(S)[i] \in S /\ rank[Upwards(S)[i]] = i
    <2> SUFFICES ASSUME NEW i \in 1..n
                 PROVE  Upwards(S)[i] \in S /\ rank[Upwards(S)[i]] = i
      OBVIOUS
    <2>1. Upwards(S)[i] = CHOOSE x \in S : Cardinality(Below(S, x)) = i - 1
      BY <1>1 DEF Upwards
    <2>2. PICK x \in S : rank[x] = i
      BY <1>6
    <2>3. Cardinality(Below(S, x)) = i - 1
      <3>1. Cardinality(Below(S, x)) \in Nat
        BY RankBelow
      <3> QED  BY <1>2, <2>2, <3>1
    <2>4. Upwards(S)[i] \in S /\ Cardinality(Below(S, Upwards(S)[i])) = i - 1
      BY <2>1, <2>3
    <2> QED  BY <1>2, <2>4
  <1>8. Upwards(S) \in [1..n -> S]
    BY <1>1, <1>7 DEF Upwards
  <1>9. \A x \in S : \E i \in 1..n : Upwards(S)[i] = x
    <2> SUFFICES ASSUME NEW x \in S PROVE Upwards(S)[rank[x]] = x
      BY <1>3
    <2>1. rank[x] \in 1..n
      BY <1>3
    <2> QED  BY <1>2, <1>4, <1>7, <2>1 DEF IsInjective
  <1>10. IsInjective(Upwards(S))
    BY <1>7, <1>8 DEF IsInjective
  <1> QED  BY <1>1, <1>8, <1>9, <1>10

LEMMA SectorsFinite ==
    /\ Sector \in SUBSET Nat /\ IsFiniteSet(Sector)
    /\ 1..NumDirEntries \in SUBSET Nat /\ IsFiniteSet(1..NumDirEntries)
  <1>1. NumSectors - 1 \in Int /\ NumDirEntries \in Int
    BY Sizes
  <1>2. IsFiniteSet(0..(NumSectors - 1)) /\ IsFiniteSet(1..NumDirEntries)
    BY <1>1, FS_Interval
  <1> QED  BY <1>2 DEF Sector

LEMMA SeqIsFunction ==
  ASSUME NEW S, NEW g \in Seq(S)
  PROVE  g = [i \in 1..Len(g) |-> g[i]]
  BY SeqDef

(* FindAndSet, called as often as NumClear allows, finds clear bits that   *)
(* differ from each other.                                                 *)
LEMMA FirstClearFree ==
  ASSUME NEW map \in SUBSET Sector, NEW k \in Nat, k <= NumClear(map)
  PROVE  /\ FirstClear(map, k) \in Seq(Sector) /\ Len(FirstClear(map, k)) = k
         /\ IsInjective(FirstClear(map, k))
         /\ Range(FirstClear(map, k)) \cap map = {}
  <1>1. PICK S : S = Sector \ map
    OBVIOUS
  <1>2. S \in SUBSET Sector /\ S \in SUBSET Nat /\ IsFiniteSet(S)
    BY <1>1, SectorsFinite, FS_Subset
  <1>a. PICK n \in Nat : n = Cardinality(S)
    BY <1>2, UpwardsMeetsAll
  <1>3. PICK f \in [1..n -> S] : f = Upwards(S) /\ IsInjective(f)
    BY <1>2, <1>a, UpwardsMeetsAll
  <1>4. k <= n
    BY <1>1, <1>a DEF NumClear
  <1>5. PICK g : g = SubSeq(f, 1, k)
    OBVIOUS
  <1>6. FirstClear(map, k) = g
    BY <1>1, <1>3, <1>5 DEF FirstClear
  <1>7. f \in Seq(S)
    <2>1. f \in UNION {[1..m -> S] : m \in Nat}
      OBVIOUS
    <2> QED  BY <2>1
  <1>8. Len(f) = n
    BY <1>3
  <1>9. g \in Seq(S) /\ Len(g) = k /\ \A i \in 1..k : g[i] = f[i]
    <2>1. CASE k = 0
      BY <1>5, <1>7, <1>8, <2>1
    <2>2. CASE k # 0
      BY <1>4, <1>5, <1>7, <1>8, <2>2
    <2> QED  BY <2>1, <2>2
  <1>10. DOMAIN g = 1..k
    BY <1>9
  <1>11. IsInjective(g)
    BY <1>3, <1>4, <1>9, <1>10 DEF IsInjective
  <1>12. Range(g) \cap map = {}
    BY <1>1, <1>9, <1>10 DEF Range
  <1>13. g \in Seq(Sector)
    BY <1>2, <1>9, SeqMonotonic
  <1> QED  BY <1>6, <1>9, <1>11, <1>12, <1>13

-----------------------------------------------------------------------------
(* The arithmetic of sectors and positions.                                *)

LEMMA WholeSectors ==
  ASSUME NEW q \in Nat, NEW k \in Nat
  PROVE  /\ (q * SectorSize + k) \div SectorSize = q + k \div SectorSize
         /\ (q * SectorSize + k) % SectorSize = k % SectorSize
  <1>1. PICK s \in Nat \ {0} : s = SectorSize
    BY Sizes
  <1>2. PICK d \in Nat, r \in Nat : d = k \div s /\ r = k % s /\ r < s /\ k = d * s + r
    BY DivMod
  <1>3. q * s + k = (q + d) * s + r
    <2>1. q * s \in Nat /\ d * s \in Nat /\ (q + d) * s = q * s + d * s
      OBVIOUS
    <2> QED  BY <1>2, <2>1
  <1>4. ((q + d) * s + r) \div s = q + d /\ ((q + d) * s + r) % s = r
    <2>1. PICK t \in Nat : t = q + d
      OBVIOUS
    <2>2. (t * s + r) \div s = t /\ (t * s + r) % s = r
      BY <1>2, DivModUnique
    <2> QED  BY <2>1, <2>2
  <1> QED  BY <1>1, <1>2, <1>3, <1>4

(* The sectors that n bytes from position p on touch, and where they begin *)
(* and end.                                                                *)
Touched(p, n, s, first, last, fs, ls) ==
    /\ s = SectorSize /\ first = FirstSector(p) /\ last = LastSector(p, n)
    /\ first <= last /\ fs = first * s /\ ls = last * s
    /\ fs <= p /\ p < fs + s /\ ls <= p + n - 1 /\ p + n - 1 < ls + s
    /\ first = last \/ fs + s <= ls
    /\ (last - first) * s = ls - fs
    /\ (1 + last - first) * s = ls - fs + s
    /\ (last + 1) * s = ls + s
    /\ Skip(p) = p - fs

LEMMA SectorsTouched ==
  ASSUME NEW p \in Nat, NEW n \in Nat \ {0}
  PROVE  \E s \in Nat \ {0}, first, last, fs, ls \in Nat :
             Touched(p, n, s, first, last, fs, ls)
  <1>1. PICK s \in Nat \ {0} : s = SectorSize
    BY Sizes
  <1>2. PICK f \in Nat, sk \in Nat : f = p \div s /\ sk = p % s /\ sk < s /\ p = f * s + sk
    BY DivMod
  <1>3. PICK e \in Nat : e = p + n - 1
    OBVIOUS
  <1>4. PICK l \in Nat, r \in Nat : l = e \div s /\ r = e % s /\ r < s /\ e = l * s + r
    BY DivMod
  <1>5. f = FirstSector(p) /\ l = LastSector(p, n)
    BY <1>1, <1>2, <1>3, <1>4 DEF FirstSector, LastSector
  <1>6. PICK fs \in Nat, ls \in Nat : fs = f * s /\ ls = l * s
    BY TimesOrder
  <1>7. f < l + 1
    <2>1. (l + 1) * s = ls + s
      BY <1>6, TimesOrder
    <2>2. f * s < (l + 1) * s
      BY <1>2, <1>3, <1>4, <1>6, <2>1
    <2> QED  BY <2>2, TimesOrder
  <1>8. f = l \/ fs + s <= ls
    <2>1. SUFFICES ASSUME f # l PROVE fs + s <= ls
      OBVIOUS
    <2>2. f + 1 <= l
      BY <1>7, <2>1
    <2>3. (f + 1) * s <= l * s /\ (f + 1) * s = f * s + s
      BY <2>2, TimesOrder
    <2> QED  BY <1>6, <2>3
  <1>9. (l - f) * s = ls - fs /\ (1 + l - f) * s = ls - fs + s /\ (l + 1) * s = ls + s
    BY <1>6
  <1>10. Skip(p) = p - fs
    BY <1>1, <1>5, <1>6 DEF Skip
  <1>11. fs <= p /\ p < fs + s /\ ls <= p + n - 1 /\ p + n - 1 < ls + s
    BY <1>2, <1>3, <1>4, <1>6
  <1>12. Touched(p, n, s, f, l, fs, ls)
    BY <1>1, <1>5, <1>6, <1>7, <1>8, <1>9, <1>10, <1>11 DEF Touched
  <1> QED  BY <1>12

(* Copying b elements that begin after the first a. *)
LEMMA Cut ==
  ASSUME NEW f, NEW a \in Nat, NEW b \in Nat
  PROVE  SubSeq(f, a + 1, a + b) = [m \in 1..b |-> f[a + m]]
  <1>1. PICK x \in Nat, y \in Nat : x = a + 1 /\ y = a + b
    OBVIOUS
  <1>2. PICK g : g = SubSeq(f, x, y)
    OBVIOUS
  <1>3. /\ g \in Seq({f[k] : k \in x..y})
        /\ Len(g) = IF x <= y THEN y - x + 1 ELSE 0
        /\ \A i \in 1..(y - x + 1) : g[i] = f[x + i - 1]
    <2>1. \A k \in x..y : f[k] \in {f[j] : j \in x..y}
      OBVIOUS
    <2> QED  BY <1>2, <2>1, SubSeqProperties
  <1>4. g = [m \in 1..Len(g) |-> g[m]]
    BY <1>3, SeqIsFunction
  <1>5. Len(g) = b
    BY <1>1, <1>3
  <1>6. \A m \in 1..b : g[m] = f[a + m]
    BY <1>1, <1>3
  <1> QED  BY <1>1, <1>2, <1>4, <1>5, <1>6

-----------------------------------------------------------------------------
(* ReadAt and WriteAt against the bytes of the file.                       *)

LEMMA LesserOf ==
  ASSUME NEW a \in Nat, NEW b \in Nat
  PROVE  Min({a, b}) = IF a <= b THEN a ELSE b
  <1>1. {a, b} \in SUBSET Nat /\ {a, b} # {}
    OBVIOUS
  <1>2. Min({a, b}) \in {a, b} /\ \A y \in {a, b} : Min({a, b}) <= y
    BY <1>1, LeastOf
  <1> QED  BY <1>2

(* Of n bytes at position p, the first c lie within the file. *)
Within(hdr, n, p, c, size) ==
    /\ c = Clip(hdr, n, p) /\ size = hdr.numBytes
    /\ c <= n /\ (c > 0 => p + c <= size)
    /\ p + n <= size => c = n
    /\ p <= size /\ size <= p + n => c = size - p
    /\ p >= size => c = 0

LEMMA ClipWithin ==
  ASSUME NEW hdr \in Header, NEW n \in Nat, NEW p \in Nat
  PROVE  \E c, size \in Nat : Within(hdr, n, p, c, size)
  <1>1. PICK size \in Nat : size = hdr.numBytes
    BY Sizes DEF Header
  <1>2. CASE p >= size
    <2>1. Within(hdr, n, p, 0, size)
      BY <1>1, <1>2 DEF Within, Clip, FileLength
    <2> QED  BY <2>1
  <1>3. CASE p < size
    <2>1. PICK rest \in Nat : rest = size - p
      BY <1>3
    <2>2. PICK c \in Nat : c = Clip(hdr, n, p) /\ c = IF n <= rest THEN n ELSE rest
      BY <1>1, <1>3, <2>1, LesserOf DEF Clip, FileLength
    <2>3. Within(hdr, n, p, c, size)
      BY <1>1, <1>3, <2>1, <2>2 DEF Within
    <2> QED  BY <2>3
  <1> QED  BY <1>2, <1>3

(* ReadAt returns the bytes of the file from the position on. *)
LEMMA ReadAtBytes ==
  ASSUME NEW hdr \in Header, NEW n \in Nat, NEW p \in Nat
  PROVE  ReadAt(hdr, n, p) = [m \in 1..Clip(hdr, n, p) |-> Content(hdr)[p + m]]
  <1>0. PICK c, size \in Nat : Within(hdr, n, p, c, size)
    BY ClipWithin
  <1>1. c = Clip(hdr, n, p) /\ size = hdr.numBytes /\ (c > 0 => p + c <= size)
    BY <1>0 DEF Within
  <1>2. CASE c = 0
    <2>1. ReadAt(hdr, n, p) = << >>
      BY <1>1, <1>2 DEF ReadAt
    <2>2. [m \in 1..0 |-> Content(hdr)[p + m]] = << >>
      OBVIOUS
    <2> QED  BY <1>1, <1>2, <2>1, <2>2
  <1>3. CASE c # 0
    <2>0. PICK s \in Nat \ {0}, first, last, fs, ls \in Nat :
            Touched(p, c, s, first, last, fs, ls)
      BY <1>3, SectorsTouched
    <2>1. /\ s = SectorSize /\ first = FirstSector(p) /\ last = LastSector(p, c)
          /\ fs = first * s /\ ls = last * s
          /\ fs <= p /\ p < fs + s /\ p + c - 1 < ls + s
          /\ (1 + last - first) * s = ls - fs + s
          /\ Skip(p) = p - fs
      BY <2>0 DEF Touched
    <2>3. PICK buf : buf = [k \in 1..((1 + last - first) * s) |->
                              LET at == ByteToSector(hdr, fs + k - 1)
                              IN  bytesAt[at][1 + ((k - 1) % s)]]
      OBVIOUS
    <2>4. PICK sk \in Nat : sk = Skip(p)
      BY <2>1
    <2>5. ReadAt(hdr, n, p) = SubSeq(buf, sk + 1, sk + c)
      <3>1. fs = FirstSector(p) * SectorSize
        BY <2>1
      <3> QED  BY <1>1, <1>3, <2>1, <2>3, <2>4, <3>1, Zenon DEF ReadAt
    <2>6. SubSeq(buf, sk + 1, sk + c) = [m \in 1..c |-> buf[sk + m]]
      BY Cut
    <2>7. ASSUME NEW m \in 1..c PROVE buf[sk + m] = Content(hdr)[p + m]
      <3>1. PICK k \in Nat : k = sk + m - 1
        OBVIOUS
      <3>2. buf[sk + m] = bytesAt[ByteToSector(hdr, fs + k)][1 + (k % s)]
        <4>1. sk + m \in 1..((1 + last - first) * s)
          BY <2>1, <2>4
        <4>2. (sk + m) - 1 = k /\ fs + (sk + m) - 1 = fs + k
          BY <3>1
        <4> QED  BY <2>3, <4>1, <4>2
      <3>3. fs + k = p + m - 1 /\ fs + k = (p + m) - 1
        BY <2>1, <2>4, <3>1
      <3>4. (fs + k) % s = k % s
        BY <2>1, WholeSectors, ZenonT(30)
      <3>5. p + m \in 1..size
        BY <1>1, <1>3
      <3>6. Content(hdr)[p + m] =
              bytesAt[hdr.dataSectors[1 + (fs + k) \div s]][1 + ((fs + k) % s)]
        BY <1>1, <2>1, <3>3, <3>5 DEF Content
      <3>7. ByteToSector(hdr, fs + k) = hdr.dataSectors[1 + (fs + k) \div s]
        BY <2>1 DEF ByteToSector
      <3> QED  BY <3>2, <3>4, <3>6, <3>7
    <2>8. [m \in 1..c |-> buf[sk + m]] = [m \in 1..c |-> Content(hdr)[p + m]]
      BY <2>7
    <2> QED  BY <1>1, <2>5, <2>6, <2>8
  <1> QED  BY <1>2, <1>3

LEMMA ReadAtIsCorrect ==
  ASSUME TypeOK PROVE ReadAtCorrect
  <1> SUFFICES ASSUME NEW i \in Slot, openf[i] # NULL,
                      NEW p \in 0..MaxSize, NEW n \in 0..(MaxSize + 1)
               PROVE  ReadAt(openf[i].hdr, n, p) =
                        SubSeq(Content(openf[i].hdr), p + 1,
                               Min({p + n, openf[i].hdr.numBytes}))
    BY DEF ReadAtCorrect
  <1>1. PICK hdr \in Header : hdr = openf[i].hdr
    BY DEF TypeOK, OpenFile
  <1>2. p \in Nat /\ n \in Nat
    BY Sizes
  <1>3. PICK c, size \in Nat : Within(hdr, n, p, c, size)
    BY <1>2, ClipWithin
  <1>4. /\ c = Clip(hdr, n, p) /\ size = hdr.numBytes
        /\ p + n <= size => c = n
        /\ p <= size /\ size <= p + n => c = size - p
        /\ p >= size => c = 0
    BY <1>3 DEF Within
  <1>5. ReadAt(hdr, n, p) = [m \in 1..c |-> Content(hdr)[p + m]]
    BY <1>2, <1>4, ReadAtBytes
  <1>6. Min({p + n, size}) = IF p + n <= size THEN p + n ELSE size
    <2>1. PICK t \in Nat : t = p + n
      BY <1>2
    <2> QED  BY <2>1, LesserOf
  <1>7. CASE p <= size
    <2>1. Min({p + n, size}) = p + c
      BY <1>2, <1>4, <1>6, <1>7
    <2>2. SubSeq(Content(hdr), p + 1, p + c) = [m \in 1..c |-> Content(hdr)[p + m]]
      BY <1>2, Cut
    <2> QED  BY <1>1, <1>4, <1>5, <2>1, <2>2
  <1>8. CASE p > size
    <2>1. c = 0
      BY <1>2, <1>4, <1>8
    <2>2. SubSeq(Content(hdr), p + 1, size) = << >>
      BY <1>2, <1>8, SubSeqEmpty
    <2>3. Min({p + n, size}) = size
      BY <1>2, <1>6, <1>8
    <2>4. [m \in 1..0 |-> Content(hdr)[p + m]] = << >>
      OBVIOUS
    <2> QED  BY <1>1, <1>4, <1>5, <2>1, <2>2, <2>3, <2>4
  <1>9. p <= size \/ p > size
    BY <1>2
  <1> QED  BY <1>7, <1>8, <1>9, Zenon

(* The sectors of a file's bytes, and the bytes, are as typed. *)
LEMMA ContentTyped ==
  ASSUME bytesAt \in [Sector -> Block], NEW hdr \in Header, Sized(hdr),
         NEW k \in 1..hdr.numBytes
  PROVE  /\ (k - 1) \div SectorSize \in 0..(Len(hdr.dataSectors) - 1)
         /\ (k - 1) % SectorSize \in 0..(SectorSize - 1)
         /\ 1 + (k - 1) \div SectorSize \in 1..Len(hdr.dataSectors)
         /\ hdr.dataSectors[1 + (k - 1) \div SectorSize] \in Sector
         /\ Content(hdr)[k] \in Byte
  <1>1. PICK s \in Nat \ {0} : s = SectorSize
    BY Sizes
  <1>2. PICK ds \in Seq(Sector), n \in Nat : ds = hdr.dataSectors /\ n = hdr.numBytes
    BY Sizes DEF Header
  <1>3. PICK j \in Nat : j = k - 1 /\ j < n
    BY <1>2
  <1>4. PICK q \in Nat, r \in Nat : q = j \div s /\ r = j % s /\ r < s
    BY DivMod
  <1>5. PICK len \in Nat : len = Len(ds) /\ len = DivRoundUp(n, SectorSize)
    BY <1>2, RoundUp DEF Sized
  <1>6. q \in 0..(len - 1)
    BY <1>1, <1>3, <1>4, <1>5, RoundUp
  <1>7. 1 + q \in 1..len /\ ds[1 + q] \in Sector
    <2>1. PICK i \in 1..len : i = 1 + q
      BY <1>6
    <2>2. ds[i] \in Sector
      BY <1>5, ElementOfSeq
    <2> QED  BY <2>1, <2>2
  <1>8. bytesAt[ds[1 + q]][1 + r] \in Byte
    <2>1. bytesAt[ds[1 + q]] \in [1..s -> Byte]
      BY <1>1, <1>7 DEF Block
    <2>2. 1 + r \in 1..s
      BY <1>4
    <2> QED  BY <2>1, <2>2
  <1>9. Content(hdr)[k] = bytesAt[ds[1 + q]][1 + r]
    BY <1>1, <1>2, <1>3, <1>4 DEF Content
  <1> QED  BY <1>1, <1>2, <1>3, <1>4, <1>5, <1>6, <1>7, <1>8, <1>9

OfLength(n) == [1..n -> Byte]
PatchOf(out, n, s, a, b, new) ==
    /\ out \in [1..n -> Byte]
    /\ \A m \in 1..n : out[m] = IF m \in (a + 1)..(a + b) THEN new[m - a] ELSE s[m]

LEMMA PatchAt ==
  ASSUME NEW n \in Nat, NEW s \in OfLength(n), NEW a \in Nat,
         NEW b \in Nat, NEW new \in OfLength(b)
  PROVE  PatchOf(Patch(s, a, new), n, s, a, b, new)
  <1>1. Len(s) = n /\ Len(new) = b
    BY DEF OfLength
  <1>2. \A m \in 1..n : m \in (a + 1)..(a + b) => m - a \in 1..b
    OBVIOUS
  <1> QED  BY <1>1, <1>2 DEF Patch, PatchOf, OfLength

LEMMA ReadAtTyped ==
  ASSUME bytesAt \in [Sector -> Block], NEW hdr \in Header, Sized(hdr),
         NEW n \in Nat, NEW p \in Nat, NEW c, c = Clip(hdr, n, p)
  PROVE  ReadAt(hdr, n, p) \in [1..c -> Byte]
  <1>1. PICK d, size \in Nat : Within(hdr, n, p, d, size)
    BY ClipWithin
  <1>2. c = d /\ size = hdr.numBytes /\ (c > 0 => p + c <= size)
    BY <1>1 DEF Within
  <1>3. ASSUME NEW m \in 1..c PROVE Content(hdr)[p + m] \in Byte
    <2>1. p + m \in 1..hdr.numBytes
      BY <1>2
    <2> QED  BY <2>1, ContentTyped
  <1>4. ReadAt(hdr, n, p) = [m \in 1..c |-> Content(hdr)[p + m]]
    BY ReadAtBytes
  <1> QED  BY <1>3, <1>4

(* What WriteAt writes: the bytes given, at their positions, and the       *)
(* file's own bytes before and after them.                                 *)
Written(out, hdr, p, n, from, s, fs, ls) ==
    /\ out \in [1..(ls - fs + s) -> Byte]
    /\ \A m \in 1..(ls - fs + s) :
         /\ fs + m \in (p + 1)..(p + n) => out[m] = from[fs + m - p]
         /\ fs + m \notin (p + 1)..(p + n) /\ fs + m <= hdr.numBytes =>
              out[m] = Content(hdr)[fs + m]

LEMMA WriteBufferBytes ==
  ASSUME bytesAt \in [Sector -> Block], NEW hdr \in Header, Sized(hdr),
         NEW p \in Nat, NEW n \in Nat \ {0}, p + n <= hdr.numBytes,
         NEW from \in [1..n -> Byte],
         NEW s \in Nat \ {0}, NEW first \in Nat, NEW last \in Nat,
         NEW fs \in Nat, NEW ls \in Nat, Touched(p, n, s, first, last, fs, ls)
  PROVE  Written(WriteBuffer(hdr, from, p), hdr, p, n, from, s, fs, ls)
  <1>1. /\ s = SectorSize /\ first = FirstSector(p) /\ last = LastSector(p, n)
        /\ fs = first * s /\ ls = last * s
        /\ (last - first) * s = ls - fs /\ (1 + last - first) * s = ls - fs + s
        /\ (last + 1) * s = ls + s /\ Skip(p) = p - fs
    BY DEF Touched
  <1>2. /\ fs <= p /\ p < fs + s /\ ls <= p + n - 1 /\ p + n - 1 < ls + s
        /\ first = last => fs = ls
        /\ first # last => fs + s <= ls
    BY <1>1 DEF Touched
  <1>3. PICK size \in Nat : size = hdr.numBytes
    BY Sizes DEF Header
  <1>4. PICK w \in Nat, d \in Nat, sk \in Nat :
          w = ls - fs + s /\ d = ls - fs /\ sk = p - fs
    BY <1>2
  <1>5. PICK fa \in BOOLEAN, la \in BOOLEAN : fa = (p = fs) /\ la = (p + n = ls + s)
    OBVIOUS
  <1>6. PICK buf \in [1..w -> Byte] : buf = [k \in 1..w |-> Junk]
    BY Sizes
  <1>7. PICK cf, sz \in Nat : Within(hdr, s, fs, cf, sz)
    BY ClipWithin
  <1>8. PICK cl, sy \in Nat : Within(hdr, s, ls, cl, sy)
    BY ClipWithin
  <1>9. PICK rf \in [1..cf -> Byte] : /\ rf = ReadAt(hdr, s, fs)
                                      /\ \A m \in 1..cf : rf[m] = Content(hdr)[fs + m]
    <2>1. cf = Clip(hdr, s, fs)
      BY <1>7 DEF Within
    <2>2. ReadAt(hdr, s, fs) \in [1..cf -> Byte]
      BY <2>1, ReadAtTyped
    <2>3. ReadAt(hdr, s, fs) = [m \in 1..cf |-> Content(hdr)[fs + m]]
      BY <2>1, ReadAtBytes
    <2> QED  BY <2>2, <2>3
  <1>10. PICK rl \in [1..cl -> Byte] : /\ rl = ReadAt(hdr, s, ls)
                                       /\ \A m \in 1..cl : rl[m] = Content(hdr)[ls + m]
    <2>1. cl = Clip(hdr, s, ls)
      BY <1>8 DEF Within
    <2>2. ReadAt(hdr, s, ls) \in [1..cl -> Byte]
      BY <2>1, ReadAtTyped
    <2>3. ReadAt(hdr, s, ls) = [m \in 1..cl |-> Content(hdr)[ls + m]]
      BY <2>1, ReadAtBytes, SMTT(30)
    <2> QED  BY <2>2, <2>3
  <1>11. /\ cf <= s /\ (fs + s <= size => cf = s) /\ (size <= fs + s => cf = size - fs)
         /\ cl <= s /\ (ls + s <= size => cl = s) /\ (size <= ls + s => cl = size - ls)
    BY <1>2, <1>3, <1>7, <1>8, SMTT(30) DEF Within
  <1>12. PICK buf1 \in [1..w -> Byte] :
           /\ buf1 = IF fa THEN buf ELSE Patch(buf, 0, rf)
           /\ ~fa => \A m \in 1..w : m <= cf => buf1[m] = Content(hdr)[fs + m]
    <2>0. PatchOf(Patch(buf, 0, rf), w, buf, 0, cf, rf)
      <3>1. buf \in OfLength(w) /\ rf \in OfLength(cf) /\ 0 \in Nat
        BY DEF OfLength
      <3> QED  BY <3>1, PatchAt
    <2>1. Patch(buf, 0, rf) \in [1..w -> Byte]
          /\ \A m \in 1..w : Patch(buf, 0, rf)[m] =
                IF m \in (0 + 1)..(0 + cf) THEN rf[m - 0] ELSE buf[m]
      BY <2>0, Zenon DEF PatchOf
    <2>2. \A m \in 1..w : m <= cf => Patch(buf, 0, rf)[m] = Content(hdr)[fs + m]
      BY <1>9, <2>1
    <2> QED  BY <2>1, <2>2
  <1>13. PICK buf2 \in [1..w -> Byte] :
           /\ buf2 = IF ReadsLast(first, last, fa, la) THEN Patch(buf1, d, rl) ELSE buf1
           /\ ~ReadsLast(first, last, fa, la) => buf2 = buf1
           /\ ReadsLast(first, last, fa, la) =>
                /\ \A m \in 1..w : m <= d => buf2[m] = buf1[m]
                /\ \A m \in 1..w : m > d /\ m <= d + cl => buf2[m] = Content(hdr)[fs + m]
    <2>0. PatchOf(Patch(buf1, d, rl), w, buf1, d, cl, rl)
      <3>1. buf1 \in OfLength(w) /\ rl \in OfLength(cl)
        BY DEF OfLength
      <3> QED  BY <3>1, PatchAt
    <2>1. Patch(buf1, d, rl) \in [1..w -> Byte]
          /\ \A m \in 1..w : Patch(buf1, d, rl)[m] =
                IF m \in (d + 1)..(d + cl) THEN rl[m - d] ELSE buf1[m]
      BY <2>0, Zenon DEF PatchOf
    <2>2. \A m \in 1..w : m <= d => Patch(buf1, d, rl)[m] = buf1[m]
      BY <2>1
    <2>3. ASSUME NEW m \in 1..w, m > d, m <= d + cl
          PROVE  Patch(buf1, d, rl)[m] = Content(hdr)[fs + m]
      <3>1. m - d \in 1..cl /\ ls + (m - d) = fs + m
        BY <1>4, <2>3
      <3>2. rl[m - d] = Content(hdr)[fs + m]
        BY <1>10, <3>1
      <3> QED  BY <2>1, <2>3, <3>2
    <2> QED  BY <2>1, <2>2, <2>3
  <1>14. PICK out : out = Patch(buf2, sk, from)
    OBVIOUS
  <1>15. WriteBuffer(hdr, from, p) = out
    <2>1. Len(from) = n
      OBVIOUS
    <2>2. /\ fa = (p = FirstSector(p) * SectorSize)
          /\ la = (p + n = (LastSector(p, n) + 1) * SectorSize)
          /\ w = (1 + LastSector(p, n) - FirstSector(p)) * SectorSize
          /\ d = (LastSector(p, n) - FirstSector(p)) * SectorSize
          /\ sk = Skip(p)
          /\ rf = ReadAt(hdr, SectorSize, FirstSector(p) * SectorSize)
          /\ rl = ReadAt(hdr, SectorSize, LastSector(p, n) * SectorSize)
      BY <1>1, <1>4, <1>5, <1>9, <1>10
    <2> QED  BY <1>1, <1>6, <1>12, <1>13, <1>14, <2>1, <2>2, Zenon DEF WriteBuffer
  <1>16. out \in [1..w -> Byte]
         /\ \A m \in 1..w : out[m] = IF m \in (sk + 1)..(sk + n)
                                       THEN from[m - sk] ELSE buf2[m]
    <2>1. n \in Nat /\ buf2 \in OfLength(w) /\ from \in OfLength(n)
      BY DEF OfLength
    <2>2. PatchOf(out, w, buf2, sk, n, from)
      BY <1>14, <2>1, PatchAt
    <2> QED  BY <2>2, Zenon DEF PatchOf
  <1>17. ASSUME NEW m \in 1..w, fs + m \in (p + 1)..(p + n)
         PROVE  out[m] = from[fs + m - p]
    <2>1. m \in (sk + 1)..(sk + n) /\ m - sk = fs + m - p
      BY <1>4, <1>17
    <2> QED  BY <1>16, <2>1
  <1>18. ASSUME NEW m \in 1..w, fs + m \notin (p + 1)..(p + n), fs + m <= size
         PROVE  out[m] = Content(hdr)[fs + m]
    <2>1. out[m] = buf2[m]
      <3>1. m \notin (sk + 1)..(sk + n)
        BY <1>2, <1>4, <1>18
      <3> QED  BY <1>16, <3>1
    <2>2. CASE fs + m <= p
      <3>0. p # fs /\ m <= cf
        BY <1>2, <1>4, <1>11, <1>18, <2>2
      <3>1. ~fa /\ m <= cf
        BY <1>5, <3>0, Zenon
      <3>2. buf1[m] = Content(hdr)[fs + m]
        BY <1>12, <3>1
      <3>3. ReadsLast(first, last, fa, la) => m <= d
        <4>1. ReadsLast(first, last, fa, la) => first # last
          BY <3>1 DEF ReadsLast
        <4> QED  BY <1>2, <1>4, <2>2, <4>1
      <3> QED  BY <1>13, <2>1, <3>2, <3>3
    <2>3. CASE fs + m > p + n
      <3>0. p + n # ls + s /\ m > d /\ m <= d + s /\ m <= d + cl
        BY <1>2, <1>4, <1>11, <1>18, <2>3
      <3>1. ~la /\ m > d /\ m <= d + s /\ m <= d + cl
        BY <1>5, <3>0, Zenon
      <3>2. CASE ReadsLast(first, last, fa, la)
        BY <1>13, <2>1, <3>1, <3>2
      <3>3. CASE ~ReadsLast(first, last, fa, la)
        <4>1. first = last /\ ~fa
          BY <3>1, <3>3 DEF ReadsLast
        <4>2. m <= cf
          BY <1>2, <1>4, <1>11, <1>18, <3>1, <4>1
        <4> QED  BY <1>12, <1>13, <2>1, <3>3, <4>1, <4>2
      <3> QED  BY <3>2, <3>3
    <2>4. fs + m <= p \/ fs + m > p + n
      BY <1>18
    <2> QED  BY <2>2, <2>3, <2>4, Zenon
  <1> QED  BY <1>3, <1>4, <1>15, <1>16, <1>17, <1>18 DEF Written

(* The part of the buffer that goes to sector q of first..last. *)
IsPart(part, out, q, s, first) ==
    part \in [1..s -> Byte] /\ \A r \in 1..s : part[r] = out[q * s - first * s + r]

LEMMA PartOfBuffer ==
  ASSUME NEW s \in Nat \ {0}, NEW first \in Nat, NEW last \in Nat, NEW q \in first..last,
         NEW out, out \in [1..(last * s - first * s + s) -> Byte]
  PROVE  IsPart(SubSeq(out, (q - first) * s + 1, (q - first + 1) * s), out, q, s, first)
  <1>1. PICK fs \in Nat, ls \in Nat, qs \in Nat :
          fs = first * s /\ ls = last * s /\ qs = q * s /\ fs <= qs /\ qs <= ls
    BY TimesOrder
  <1>2. (q - first) * s = qs - fs /\ (q - first + 1) * s = qs - fs + s
    BY <1>1
  <1>3. PICK a \in Nat : a = qs - fs
    BY <1>1
  <1>4. SubSeq(out, a + 1, a + s) = [r \in 1..s |-> out[a + r]]
    BY Cut
  <1>5. \A r \in 1..s : a + r \in 1..(ls - fs + s)
    BY <1>1, <1>3
  <1>6. \A r \in 1..s : out[a + r] \in Byte
    BY <1>1, <1>5
  <1>7. PICK part : part = SubSeq(out, (q - first) * s + 1, (q - first + 1) * s)
    OBVIOUS
  <1>8. part = [r \in 1..s |-> out[a + r]]
    BY <1>2, <1>3, <1>4, <1>7
  <1>9. q * s - first * s = a
    BY <1>1, <1>3
  <1>10. IsPart(part, out, q, s, first)
    BY <1>6, <1>8, <1>9 DEF IsPart
  <1> QED  BY <1>7, <1>10

(* The sectors a WriteAt writes are different ones. *)
IndexOf(at, t, first, last) == CHOOSE k \in first..last : at[k] = t
Chosen(at, ds, len, first, last) ==
    /\ \A t \in Range(at) : \E q \in first..last : t = ds[1 + q]
    /\ Range(at) \subseteq Range(ds)
    /\ \A q \in first..last : /\ ds[1 + q] \in Range(at)
                              /\ IndexOf(at, ds[1 + q], first, last) = q
    /\ \A q \in 0..(len - 1) : ds[1 + q] \in Range(at) => q \in first..last

LEMMA SectorsWritten ==
  ASSUME NEW ds, NEW len \in Nat, DOMAIN ds = 1..len, IsInjective(ds),
         NEW first \in Nat, NEW last \in Nat, last < len,
         NEW at, at = [q \in first..last |-> ds[1 + q]]
  PROVE  Chosen(at, ds, len, first, last)
  <1>1. \A t \in Range(at) : \E q \in first..last : t = ds[1 + q]
    BY DEF Range
  <1>2. \A q \in 0..(len - 1), r \in 0..(len - 1) : ds[1 + q] = ds[1 + r] => q = r
    <2> SUFFICES ASSUME NEW q \in 0..(len - 1), NEW r \in 0..(len - 1), ds[1 + q] = ds[1 + r]
                 PROVE  q = r
      OBVIOUS
    <2>1. 1 + q \in DOMAIN ds /\ 1 + r \in DOMAIN ds
      OBVIOUS
    <2>2. 1 + q = 1 + r
      BY <2>1 DEF IsInjective
    <2> QED  BY <2>2
  <1>3. first..last \subseteq 0..(len - 1)
    OBVIOUS
  <1>4. \A q \in first..last : ds[1 + q] \in Range(at)
    BY DEF Range
  <1>5. ASSUME NEW q \in first..last
        PROVE  IndexOf(at, ds[1 + q], first, last) = q
    <2>1. \A k \in first..last : at[k] = ds[1 + q] => k = q
      BY <1>2, <1>3
    <2>2. at[q] = ds[1 + q]
      OBVIOUS
    <2> QED  BY <2>1, <2>2 DEF IndexOf
  <1>6. \A q \in 0..(len - 1) : ds[1 + q] \in Range(at) => q \in first..last
    BY <1>1, <1>2, <1>3
  <1>7. Range(at) \subseteq Range(ds)
    <2>1. \A q \in first..last : 1 + q \in DOMAIN ds
      OBVIOUS
    <2> QED  BY <1>1, <2>1 DEF Range
  <1> QED  BY <1>1, <1>4, <1>5, <1>6, <1>7 DEF Chosen

LEMMA SectorOfByte ==
  ASSUME NEW hdr, NEW q \in Nat
  PROVE  ByteToSector(hdr, q * SectorSize) = hdr.dataSectors[1 + q]
  <1>1. PICK s \in Nat \ {0} : s = SectorSize
    BY Sizes
  <1>2. (q * s + 0) \div s = q
    BY DivModUnique
  <1>3. (q * s) \div s = q
    BY <1>2
  <1> QED  BY <1>1, <1>3 DEF ByteToSector

(* Byte x of a file, byte r of its sector q, is in the buffer, or outside  *)
(* what is written.                                                        *)
Placed(x, q, r, p, n, s, first, last, fs, ls) ==
    /\ 1 + r \in 1..s
    /\ q \in first..last => /\ q * s - fs + (1 + r) = x - fs
                            /\ x - fs \in 1..(ls - fs + s)
    /\ q \notin first..last => x \notin (p + 1)..(p + n)

LEMMA ByteInBuffer ==
  ASSUME NEW p \in Nat, NEW n \in Nat \ {0}, NEW s \in Nat \ {0},
         NEW first \in Nat, NEW last \in Nat, NEW fs \in Nat, NEW ls \in Nat,
         Touched(p, n, s, first, last, fs, ls), NEW x \in Nat \ {0}
  PROVE  Placed(x, (x - 1) \div s, (x - 1) % s, p, n, s, first, last, fs, ls)
  <1>1. PICK y \in Nat : y = x - 1
    OBVIOUS
  <1>2. PICK q \in Nat, r \in Nat : q = y \div s /\ r = y % s /\ r < s /\ y = q * s + r
    BY DivMod
  <1>3. PICK qs \in Nat : qs = q * s
    BY TimesOrder
  <1>4. /\ fs = first * s /\ ls = last * s
        /\ fs <= p /\ p < fs + s /\ ls <= p + n - 1 /\ p + n - 1 < ls + s
    BY DEF Touched
  <1>5. ASSUME q \in first..last
        PROVE  qs - fs + (1 + r) = x - fs /\ x - fs \in 1..(ls - fs + s)
    <2>1. fs <= qs /\ qs <= ls
      BY <1>3, <1>4, <1>5, TimesOrder
    <2> QED  BY <1>1, <1>2, <1>3, <2>1
  <1>6. ASSUME q \notin first..last PROVE x \notin (p + 1)..(p + n)
    <2>1. CASE q < first
      <3>1. PICK q1 \in Nat : q1 = q + 1 /\ q1 <= first
        BY <2>1
      <3>2. (q + 1) * s = q * s + s /\ q1 * s <= first * s
        BY <3>1, TimesOrder
      <3>3. qs + s <= fs
        BY <1>3, <1>4, <3>1, <3>2
      <3> QED  BY <1>1, <1>2, <1>3, <1>4, <3>3
    <2>2. CASE q > last
      <3>1. PICK l1 \in Nat : l1 = last + 1 /\ l1 <= q
        BY <2>2
      <3>2. (last + 1) * s = last * s + s /\ l1 * s <= q * s
        BY <3>1, TimesOrder
      <3>3. ls + s <= qs
        BY <1>3, <1>4, <3>1, <3>2
      <3> QED  BY <1>1, <1>2, <1>3, <1>4, <3>3
    <2> QED  BY <1>6, <2>1, <2>2
  <1> QED  BY <1>1, <1>2, <1>3, <1>5, <1>6 DEF Placed

(* A write of n bytes of buf at position p of the file with header hdr, of *)
(* which the first m have reached the disk.                                *)
WriteEffect(i, buf, hdr, p, n, m) ==
    /\ hdr = openf[i].hdr /\ p = openf[i].seekPosition /\ n = Clip(hdr, Len(buf), p)
    /\ n \in DOMAIN buf /\ m \in 1..n /\ p + n <= hdr.numBytes
    /\ bytesAt' \in [Sector -> Block]
    /\ headerAt' \in [Sector -> Header \cup {NULL}]
    /\ \A t \in Sector : headerAt'[t] \in {NULL, headerAt[t]}
    /\ \A t \in Sector \ Range(hdr.dataSectors) :
         headerAt'[t] = headerAt[t] /\ bytesAt'[t] = bytesAt[t]
    /\ \A x \in 1..hdr.numBytes :
         Content(hdr)'[x] = IF x \in (p + 1)..(p + m) THEN buf[x - p] ELSE Content(hdr)[x]

(* The same before positions are worked out: sectors first to upto get the *)
(* parts of out.                                                           *)
SectorsGet(at, out, s, first, upto) ==
    /\ \A t \in Sector \ Range(at) : headerAt'[t] = headerAt[t] /\ bytesAt'[t] = bytesAt[t]
    /\ \A t \in Sector \cap Range(at) :
         /\ headerAt'[t] = NULL
         /\ \E q \in first..upto :
              /\ q = IndexOf(at, t, first, upto)
              /\ bytesAt'[t] = SubSeq(out, (q - first) * s + 1, (q - first + 1) * s)

DiskGets(at, out, s, first, upto) ==
    /\ DOMAIN bytesAt' = Sector /\ DOMAIN headerAt' = Sector
    /\ bytesAt' = [t \in Sector |-> bytesAt'[t]]
    /\ headerAt' = [t \in Sector |-> headerAt'[t]]
    /\ SectorsGet(at, out, s, first, upto)

SectorsFrom(hdr, first, upto) == [q \in first..upto |-> hdr.dataSectors[1 + q]]

LEMMA WriteGets ==
  ASSUME NEW hdr, NEW first \in Nat, NEW upto \in Nat, NEW out,
         WriteSectors(hdr, out, first, upto)
  PROVE  DiskGets(SectorsFrom(hdr, first, upto), out, SectorSize, first, upto)
  <1>1. PICK at : at = [q \in first..upto |-> ByteToSector(hdr, q * SectorSize)]
    OBVIOUS
  <1>3. /\ bytesAt' = [t \in Sector |->
              IF t \in Range(at)
                THEN SubSeq(out, (IndexOf(at, t, first, upto) - first) * SectorSize + 1,
                            ((IndexOf(at, t, first, upto) - first) + 1) * SectorSize)
                ELSE bytesAt[t]]
        /\ headerAt' = [t \in Sector |-> IF t \in Range(at) THEN NULL ELSE headerAt[t]]
    <2>1. headerAt' = [t \in Sector |-> IF t \in Range(at) THEN NULL ELSE headerAt[t]]
      BY <1>1, ZenonT(30) DEF WriteSectors
    <2>2. bytesAt' = [t \in Sector |->
              IF t \in Range(at)
                THEN SubSeq(out, (IndexOf(at, t, first, upto) - first) * SectorSize + 1,
                            ((IndexOf(at, t, first, upto) - first) + 1) * SectorSize)
                ELSE bytesAt[t]]
      BY <1>1 DEF WriteSectors, IndexOf
    <2> QED  BY <2>1, <2>2, Zenon
  <1>4. at = SectorsFrom(hdr, first, upto)
    <2>1. \A q \in first..upto : q \in Nat
      OBVIOUS
    <2> QED  BY <1>1, <2>1, SectorOfByte DEF SectorsFrom
  <1>5. ASSUME NEW t \in Sector \cap Range(at)
        PROVE  \E q \in first..upto :
                 /\ q = IndexOf(at, t, first, upto)
                 /\ bytesAt'[t] = SubSeq(out, (q - first) * SectorSize + 1,
                                         (q - first + 1) * SectorSize)
    <2>1. \E k \in first..upto : at[k] = t
      BY <1>1 DEF Range
    <2>2. PICK q \in first..upto : q = IndexOf(at, t, first, upto)
      BY <2>1 DEF IndexOf
    <2>3. bytesAt'[t] = SubSeq(out, (IndexOf(at, t, first, upto) - first) * SectorSize + 1,
                               ((IndexOf(at, t, first, upto) - first) + 1) * SectorSize)
      BY <1>3, Zenon
    <2> QED  BY <2>2, <2>3, Zenon
  <1>6. SectorsGet(at, out, SectorSize, first, upto)
    <2>1. \A t \in Sector \ Range(at) :
             headerAt'[t] = headerAt[t] /\ bytesAt'[t] = bytesAt[t]
      BY <1>3
    <2>2. \A t \in Sector \cap Range(at) : headerAt'[t] = NULL
      BY <1>3
    <2> QED  BY <1>5, <2>1, <2>2 DEF SectorsGet
  <1>7. DiskGets(at, out, SectorSize, first, upto)
    BY <1>3, <1>6 DEF DiskGets
  <1> QED  BY <1>4, <1>7

(* The bytes up to a sector, by their sectors. *)
LEMMA BytesUpTo ==
  ASSUME NEW x \in Nat \ {0}, NEW s \in Nat \ {0}, NEW upto \in Nat,
         NEW u \in Nat, u = upto + 1, NEW us \in Nat, us = u * s
  PROVE  /\ (x - 1) \div s <= upto => x <= us
         /\ (x - 1) \div s > upto => x > us
  <1>1. PICK y \in Nat : y = x - 1
    OBVIOUS
  <1>2. PICK q \in Nat, r \in Nat : q = y \div s /\ r = y % s /\ r < s /\ y = q * s + r
    BY DivMod
  <1>3. PICK q1 \in Nat, qs \in Nat, q1s \in Nat :
          q1 = q + 1 /\ qs = q * s /\ q1s = q1 * s /\ q1s = qs + s
    <2>1. (q + 1) * s = q * s + s /\ q * s \in Nat
      BY TimesOrder
    <2>2. PICK q1 \in Nat : q1 = q + 1
      OBVIOUS
    <2> QED  BY <2>1, <2>2
  <1>4. CASE q <= upto
    <2>1. q1 <= u
      BY <1>3, <1>4
    <2>2. q1s <= us
      BY <1>3, <2>1, TimesOrder
    <2> QED  BY <1>1, <1>2, <1>3, <1>4, <2>2
  <1>5. CASE q > upto
    <2>1. u <= q
      BY <1>5
    <2>2. us <= qs
      BY <1>3, <2>1, TimesOrder
    <2> QED  BY <1>1, <1>2, <1>3, <1>5, <2>2
  <1> QED  BY <1>4, <1>5

(* The first sectors of a write hold a first part of its bytes. *)
FirstPart(p, n, m, s, first, last, upto) ==
    /\ m \in 1..n /\ (upto = last => m = n)
    /\ \A x \in Nat \ {0} :
         /\ (x - 1) \div s <= upto => (x \in (p + 1)..(p + n) <=> x \in (p + 1)..(p + m))
         /\ (x - 1) \div s > upto => x \notin (p + 1)..(p + m)

LEMMA FirstSectors ==
  ASSUME NEW p \in Nat, NEW n \in Nat \ {0}, NEW s \in Nat \ {0},
         NEW first \in Nat, NEW last \in Nat, NEW fs \in Nat, NEW ls \in Nat,
         Touched(p, n, s, first, last, fs, ls), NEW upto \in first..last
  PROVE  \E m \in Nat : FirstPart(p, n, m, s, first, last, upto)
  <1>1. /\ fs = first * s /\ ls = last * s
        /\ fs <= p /\ p < fs + s /\ ls <= p + n - 1 /\ p + n - 1 < ls + s
    BY DEF Touched
  <1>2. PICK u \in Nat, us \in Nat : u = upto + 1 /\ us = u * s
    BY TimesOrder
  <1>3. \A x \in Nat \ {0} : /\ (x - 1) \div s <= upto => x <= us
                             /\ (x - 1) \div s > upto => x > us
    BY <1>2, BytesUpTo
  <1>4. fs + s <= us
    <2>1. PICK f1 \in Nat : f1 = first + 1 /\ f1 <= u
      BY <1>2
    <2>2. (first + 1) * s = first * s + s /\ f1 * s <= u * s
      BY <2>1, TimesOrder
    <2> QED  BY <1>1, <1>2, <2>1, <2>2
  <1>5. CASE upto = last
    <2>1. us = ls + s
      <3>1. (last + 1) * s = last * s + s
        BY TimesOrder
      <3> QED  BY <1>1, <1>2, <1>5, <3>1
    <2>2. \A x \in Nat \ {0} : (x - 1) \div s > upto => x \notin (p + 1)..(p + n)
      BY <1>1, <1>3, <2>1
    <2>3. FirstPart(p, n, n, s, first, last, upto)
      BY <2>2 DEF FirstPart
    <2> QED  BY <2>3
  <1>6. CASE upto # last
    <2>1. us <= ls
      <3>1. u <= last
        BY <1>2, <1>6
      <3> QED  BY <1>1, <1>2, <3>1, TimesOrder
    <2>2. PICK m \in Nat : m = us - p /\ m \in 1..n
      BY <1>1, <1>4, <2>1
    <2>3. \A x \in Nat \ {0} : x <= us => (x \in (p + 1)..(p + n) <=> x \in (p + 1)..(p + m))
      BY <2>2
    <2>4. \A x \in Nat \ {0} : x > us => x \notin (p + 1)..(p + m)
      BY <2>2
    <2>6. ASSUME NEW x \in Nat \ {0}
          PROVE  /\ (x - 1) \div s <= upto => (x \in (p + 1)..(p + n) <=> x \in (p + 1)..(p + m))
                 /\ (x - 1) \div s > upto => x \notin (p + 1)..(p + m)
      <3>1. /\ (x - 1) \div s <= upto => x <= us
            /\ (x - 1) \div s > upto => x > us
        BY <1>3
      <3>2. x <= us => (x \in (p + 1)..(p + n) <=> x \in (p + 1)..(p + m))
        BY <2>3
      <3>3. x > us => x \notin (p + 1)..(p + m)
        BY <2>4
      <3> QED  BY <3>1, <3>2, <3>3, Zenon
    <2>5. FirstPart(p, n, m, s, first, last, upto)
      BY <1>6, <2>2, <2>6, Zenon DEF FirstPart
    <2> QED  BY <2>5
  <1> QED  BY <1>5, <1>6

(* The arguments WriteAt works with. *)
WriteArgs(i, buf, hdr, p, n) ==
    /\ hdr = openf[i].hdr /\ p = openf[i].seekPosition
    /\ n = Clip(hdr, Len(buf), p) /\ n > 0

LEMMA WriteDoes ==
  ASSUME TypeOK, NEW i \in Slot, NEW k \in 1..MaxSize, NEW buf, buf \in [1..k -> Byte],
         openf[i] # NULL, Sized(openf[i].hdr), IsInjective(openf[i].hdr.dataSectors),
         NEW hdr, NEW p, NEW n, NEW upto,
         WriteArgs(i, buf, hdr, p, n), upto \in FirstSector(p)..LastSector(p, n),
         WriteSectors(hdr, WriteBuffer(hdr, SubSeq(buf, 1, n), p), FirstSector(p), upto)
  PROVE  /\ hdr \in Header /\ p \in Nat /\ n \in Nat
         /\ \E m \in Nat : /\ WriteEffect(i, buf, hdr, p, n, m)
                           /\ upto = LastSector(p, n) => m = n
  <1>1. /\ hdr \in Header /\ hdr = openf[i].hdr
        /\ p \in Nat /\ p = openf[i].seekPosition
    <2>1. openf[i] \in OpenFile
      BY DEF TypeOK
    <2> QED  BY <2>1 DEF OpenFile, WriteArgs
  <1>2. k \in Nat /\ Len(buf) = k
    BY Sizes
  <1>3. PICK size \in Nat : Within(hdr, k, p, n, size) /\ n \in Nat
    <2>1. PICK c, size \in Nat : Within(hdr, k, p, c, size)
      BY <1>1, <1>2, ClipWithin
    <2>2. c = n
      BY <1>2, <2>1 DEF Within, WriteArgs
    <2> QED  BY <2>1, <2>2
  <1>4. n = Clip(hdr, Len(buf), p) /\ size = hdr.numBytes /\ n <= k /\ (n > 0 => p + n <= size)
    BY <1>2, <1>3 DEF Within
  <1>5. n > 0
    BY DEF WriteArgs
  <1>6. n \in Nat \ {0} /\ p + n <= size
    BY <1>3, <1>4, <1>5
  <1>7. PICK s \in Nat \ {0}, first, last, fs, ls \in Nat :
          Touched(p, n, s, first, last, fs, ls)
    BY <1>1, <1>6, SectorsTouched
  <1>8. /\ s = SectorSize /\ first = FirstSector(p) /\ last = LastSector(p, n)
        /\ fs = first * s /\ ls = last * s
    BY <1>7 DEF Touched
  <1>9. PICK from : /\ from \in [1..n -> Byte] /\ from = SubSeq(buf, 1, n)
                    /\ \A m \in 1..n : from[m] = buf[m]
    <2>0. n \in Nat
      BY <1>3
    <2>1. SubSeq(buf, 0 + 1, 0 + n) = [m \in 1..n |-> buf[0 + m]]
      BY <2>0, Cut
    <2>2. PICK g : g = [m \in 1..n |-> buf[m]]
      OBVIOUS
    <2>3. g = SubSeq(buf, 1, n)
      BY <2>0, <2>1, <2>2
    <2>4. \A m \in 1..n : buf[m] \in Byte
      BY <1>2, <1>4, <2>0
    <2>5. g \in [1..n -> Byte] /\ \A m \in 1..n : g[m] = buf[m]
      BY <2>2, <2>4
    <2> QED  BY <2>3, <2>5
  <1>10. PICK out : out = WriteBuffer(hdr, from, p)
    OBVIOUS
  <1>d. upto \in Nat /\ upto \in first..last
    BY <1>8
  <1>e. PICK m0 \in Nat : FirstPart(p, n, m0, s, first, last, upto)
    BY <1>1, <1>6, <1>7, <1>d, FirstSectors
  <1>f. m0 \in 1..n /\ (upto = last => m0 = n)
    BY <1>e DEF FirstPart
  <1>a. Written(out, hdr, p, n, from, s, fs, ls)
    <2>1. bytesAt \in [Sector -> Block] /\ Sized(hdr) /\ p + n <= hdr.numBytes
      BY <1>1, <1>4, <1>6 DEF TypeOK
    <2>2. from \in [1..n -> Byte] /\ n \in Nat \ {0} /\ hdr \in Header /\ p \in Nat
      BY <1>1, <1>6, <1>9
    <2> QED  BY <1>7, <1>10, <2>1, <2>2, WriteBufferBytes
  <1>11. /\ out \in [1..(ls - fs + s) -> Byte]
         /\ \A m \in 1..(ls - fs + s) :
              /\ fs + m \in (p + 1)..(p + n) => out[m] = from[fs + m - p]
              /\ fs + m \notin (p + 1)..(p + n) /\ fs + m <= hdr.numBytes =>
                   out[m] = Content(hdr)[fs + m]
    BY <1>a DEF Written
  <1>b. PICK ds : ds \in Seq(Sector) /\ ds = hdr.dataSectors
    BY <1>1 DEF Header
  <1>c. PICK len \in Nat : len = Len(ds)
    BY <1>b
  <1>12. /\ DOMAIN ds = 1..len /\ ds = hdr.dataSectors /\ IsInjective(ds)
         /\ len = DivRoundUp(size, SectorSize)
    BY <1>1, <1>4, <1>b, <1>c DEF Sized
  <1>13. Range(ds) \subseteq Sector /\ \A q \in 0..(len - 1) : ds[1 + q] \in Sector
    <2>1. \A j \in DOMAIN ds : ds[j] \in Sector
      BY <1>b
    <2>2. \A q \in 0..(len - 1) : 1 + q \in DOMAIN ds
      BY <1>12
    <2> QED  BY <2>1, <2>2 DEF Range
  <1>14. \A x \in 1..size : (x - 1) \div s \in 0..(len - 1)
    <2>1. ASSUME NEW x \in 1..size PROVE (x - 1) \div s \in 0..(len - 1)
      <3>1. PICK y \in Nat : y = x - 1 /\ y < size
        OBVIOUS
      <3> QED  BY <1>8, <1>12, <3>1, RoundUp
    <2> QED  BY <2>1
  <1>15. last \in 0..(len - 1)
    <2>1. p \in Nat
      BY <1>1
    <2>0. n \in Nat
      BY <1>3
    <2>2. PICK x \in 1..size : x = p + n
      BY <1>6, <2>0, <2>1
    <2>3. last = (x - 1) \div s
      <3>1. s = SectorSize /\ last = LastSector(p, n)
        BY <1>8
      <3>2. last = (p + n - 1) \div s
        BY <3>1 DEF LastSector
      <3>3. p + n - 1 = x - 1
        BY <2>0, <2>1, <2>2
      <3> QED  BY <3>2, <3>3
    <2> QED  BY <1>14, <2>3
  <1>16. PICK at : at = [q \in first..upto |-> ds[1 + q]]
    OBVIOUS
  <1>17. /\ \A t \in Range(at) : \E q \in first..upto : t = ds[1 + q]
         /\ Range(at) \subseteq Range(ds)
         /\ \A q \in first..upto : /\ ds[1 + q] \in Range(at)
                                   /\ IndexOf(at, ds[1 + q], first, upto) = q
         /\ \A q \in 0..(len - 1) : ds[1 + q] \in Range(at) => q \in first..upto
    <2>1. upto < len
      BY <1>15, <1>d
    <2>2. Chosen(at, ds, len, first, upto)
      BY <1>12, <1>16, <1>d, <2>1, SectorsWritten
    <2> QED  BY <2>2, Zenon DEF Chosen
  <1>18. /\ DOMAIN bytesAt' = Sector /\ DOMAIN headerAt' = Sector
         /\ bytesAt' = [t \in Sector |-> bytesAt'[t]]
         /\ headerAt' = [t \in Sector |-> headerAt'[t]]
         /\ SectorsGet(at, out, s, first, upto)
    <2>1. at = SectorsFrom(hdr, first, upto)
      BY <1>12, <1>16 DEF SectorsFrom
    <2>2. DiskGets(at, out, SectorSize, first, upto)
      <3>1. WriteSectors(hdr, out, first, upto)
        BY <1>8, <1>9, <1>10
      <3> QED  BY <1>d, <2>1, <3>1, WriteGets
    <2>3. DiskGets(at, out, s, first, upto)
      BY <1>8, <2>2
    <2> QED  BY <2>3, Zenon DEF DiskGets
  <1>19. /\ \A t \in Sector \ Range(at) : headerAt'[t] = headerAt[t] /\ bytesAt'[t] = bytesAt[t]
         /\ \A t \in Sector \cap Range(at) : headerAt'[t] = NULL
         /\ \A q \in first..upto :
              bytesAt'[ds[1 + q]] = SubSeq(out, (q - first) * s + 1, (q - first + 1) * s)
    <2>1. /\ \A t \in Sector \ Range(at) : headerAt'[t] = headerAt[t] /\ bytesAt'[t] = bytesAt[t]
          /\ \A t \in Sector \cap Range(at) :
               /\ headerAt'[t] = NULL
               /\ \E q \in first..upto :
                    /\ q = IndexOf(at, t, first, upto)
                    /\ bytesAt'[t] = SubSeq(out, (q - first) * s + 1, (q - first + 1) * s)
      BY <1>18, Zenon DEF SectorsGet
    <2>2. ASSUME NEW q \in first..upto
          PROVE  bytesAt'[ds[1 + q]] = SubSeq(out, (q - first) * s + 1, (q - first + 1) * s)
      <3>1. PICK t : t = ds[1 + q]
        OBVIOUS
      <3>2. t \in Sector \cap Range(at) /\ IndexOf(at, t, first, upto) = q
        BY <1>13, <1>17, <3>1
      <3>3. PICK r \in first..upto :
              /\ r = IndexOf(at, t, first, upto)
              /\ bytesAt'[t] = SubSeq(out, (r - first) * s + 1, (r - first + 1) * s)
        BY <2>1, <3>2
      <3>4. r = q
        BY <3>2, <3>3
      <3> QED  BY <3>1, <3>3, <3>4, Zenon
    <2> QED  BY <2>1, <2>2, Zenon
  <1>20. \A q \in first..upto :
           /\ bytesAt'[ds[1 + q]] \in [1..s -> Byte]
           /\ \A r \in 1..s : bytesAt'[ds[1 + q]][r] = out[q * s - fs + r]
    <2>1. ASSUME NEW q \in first..upto
          PROVE  /\ bytesAt'[ds[1 + q]] \in [1..s -> Byte]
                 /\ \A r \in 1..s : bytesAt'[ds[1 + q]][r] = out[q * s - fs + r]
      <3>1. PICK part : part = SubSeq(out, (q - first) * s + 1, (q - first + 1) * s)
        OBVIOUS
      <3>2. out \in [1..(last * s - first * s + s) -> Byte]
        BY <1>8, <1>11, Zenon
      <3>a. IsPart(part, out, q, s, first)
        <4>1. q \in first..last
          BY <1>d
        <4> QED  BY <3>1, <3>2, <4>1, PartOfBuffer
      <3>3. part \in [1..s -> Byte] /\ \A r \in 1..s : part[r] = out[q * s - first * s + r]
        BY <3>a, Zenon DEF IsPart
      <3> QED  BY <1>8, <1>19, <3>1, <3>3, ZenonT(30)
    <2> QED  BY <2>1, Zenon
  <1>21. bytesAt' \in [Sector -> Block]
    <2>1. ASSUME NEW t \in Sector PROVE bytesAt'[t] \in Block
      <3>1. CASE t \in Range(at)
        <4>1. PICK q \in first..upto : t = ds[1 + q]
          BY <1>17, <3>1
        <4>2. bytesAt'[t] \in [1..s -> Byte]
          BY <1>20, <4>1
        <4> QED  BY <1>8, <4>2 DEF Block
      <3>2. CASE t \notin Range(at)
        BY <1>19, <3>2 DEF TypeOK
      <3> QED  BY <3>1, <3>2
    <2> QED  BY <1>18, <2>1
  <1>22. headerAt' \in [Sector -> Header \cup {NULL}]
         /\ \A t \in Sector : headerAt'[t] \in {NULL, headerAt[t]}
    <2>1. \A t \in Sector : headerAt'[t] \in {NULL, headerAt[t]}
      BY <1>19
    <2>2. \A t \in Sector : headerAt[t] \in Header \cup {NULL}
      BY DEF TypeOK
    <2> QED  BY <1>18, <2>1, <2>2
  <1>23. \A t \in Sector \ Range(ds) : headerAt'[t] = headerAt[t] /\ bytesAt'[t] = bytesAt[t]
    BY <1>17, <1>19
  <1>24. \A x \in 1..size :
           Content(hdr)'[x] = IF x \in (p + 1)..(p + m0) THEN buf[x - p] ELSE Content(hdr)[x]
    <2> SUFFICES ASSUME NEW x \in 1..size
                 PROVE  Content(hdr)'[x] = IF x \in (p + 1)..(p + m0) THEN buf[x - p]
                                                                      ELSE Content(hdr)[x]
      OBVIOUS
    <2>1. PICK q, r : q = (x - 1) \div s /\ r = (x - 1) % s
      OBVIOUS
    <2>2. /\ Content(hdr)[x] = bytesAt[ds[1 + q]][1 + r]
          /\ Content(hdr)'[x] = bytesAt'[ds[1 + q]][1 + r]
      BY <1>4, <1>8, <1>12, <2>1, Zenon DEF Content
    <2>3. /\ 1 + r \in 1..s
          /\ q \in first..last => /\ q * s - fs + (1 + r) = x - fs
                                  /\ x - fs \in 1..(ls - fs + s)
          /\ q \notin first..last => x \notin (p + 1)..(p + n)
      <3>1. x \in Nat \ {0} /\ n \in Nat \ {0} /\ p \in Nat
        BY <1>1, <1>6
      <3>2. Placed(x, q, r, p, n, s, first, last, fs, ls)
        BY <1>7, <2>1, <3>1, ByteInBuffer
      <3> QED  BY <3>2, Zenon DEF Placed
    <2>a. /\ q <= upto => (x \in (p + 1)..(p + n) <=> x \in (p + 1)..(p + m0))
          /\ q > upto => x \notin (p + 1)..(p + m0)
      BY <1>e, <2>1 DEF FirstPart
    <2>b. q \in 0..(len - 1)
      BY <1>14, <2>1
    <2>4. CASE q \in first..upto
      <3>0. q \in first..last /\ q <= upto
        BY <1>d, <2>4
      <3>1. Content(hdr)'[x] = out[x - fs]
        BY <1>20, <2>2, <2>3, <2>4, <3>0, Zenon
      <3>2. PICK m \in 1..(ls - fs + s) : m = x - fs /\ fs + m = x
        BY <2>3, <3>0
      <3>3. CASE x \in (p + 1)..(p + m0)
        <4>0. x \in (p + 1)..(p + n)
          BY <2>a, <3>0, <3>3
        <4>1. out[m] = from[fs + m - p]
          BY <1>11, <3>2, <4>0
        <4>2. x - p \in 1..n /\ fs + m - p = x - p
          <5>1. n \in Nat /\ p \in Nat
            BY <1>1, <1>3
          <5>2. x - p \in 1..n
            BY <4>0, <5>1
          <5>3. fs + m - p = x - p
            BY <3>2, <5>1
          <5> QED  BY <5>2, <5>3
        <4>3. from[x - p] = buf[x - p]
          BY <1>9, <4>2
        <4> QED  BY <3>1, <3>2, <3>3, <4>1, <4>2, <4>3
      <3>4. CASE x \notin (p + 1)..(p + m0)
        <4>0. x \notin (p + 1)..(p + n)
          BY <2>a, <3>0, <3>4
        <4>1. out[m] = Content(hdr)[fs + m]
          <5>1. fs + m \notin (p + 1)..(p + n) /\ fs + m <= hdr.numBytes
            BY <1>4, <3>2, <4>0
          <5> QED  BY <1>11, <5>1, Zenon
        <4> QED  BY <3>1, <3>2, <3>4, <4>1
      <3> QED  BY <3>3, <3>4
    <2>5. CASE q \notin first..upto
      <3>2. ds[1 + q] \in Sector \ Range(at)
        BY <1>13, <1>17, <2>5, <2>b
      <3>3. Content(hdr)'[x] = Content(hdr)[x]
        BY <1>19, <2>2, <3>2, Zenon
      <3>4. x \notin (p + 1)..(p + m0)
        <4>1. CASE q > upto
          BY <2>a, <4>1
        <4>2. CASE ~(q > upto)
          <5>1. q <= upto /\ q \notin first..last
            BY <1>d, <2>5, <2>b, <4>2
          <5> QED  BY <2>3, <2>a, <5>1
        <4> QED  BY <4>1, <4>2
      <3> QED  BY <3>3, <3>4, Zenon
    <2> QED  BY <2>4, <2>5
  <1>25. n \in DOMAIN buf
    BY <1>2, <1>3, <1>4, <1>5
  <1>26. p + n <= hdr.numBytes /\ 1..size = 1..hdr.numBytes /\ Range(ds) = Range(hdr.dataSectors)
    BY <1>4, <1>6, <1>12
  <1>27. WriteEffect(i, buf, hdr, p, n, m0)
    BY <1>1, <1>4, <1>21, <1>22, <1>23, <1>24, <1>25, <1>26, <1>f, Zenon DEF WriteEffect
  <1> QED  BY <1>1, <1>3, <1>8, <1>27, <1>f, Zenon

-----------------------------------------------------------------------------
(* The files of the directory, and what leaves them alone.                 *)

LEMMA FileTyped ==
  ASSUME TypeOK, FilesDisjoint, NEW i \in Sound
  PROVE  /\ i \in 1..NumDirEntries /\ table[i] \in Entry /\ table[i].inUse
         /\ table[i].name \in Name /\ table[i].sector \in Sector
         /\ HeaderOf(i) \in Header /\ HeaderOf(i) # NULL
         /\ Range(HeaderOf(i).dataSectors) \subseteq Sector
         /\ FileSectors(i) \subseteq Sector
  <1>1. i \in 1..NumDirEntries /\ table[i].inUse
    BY DEF Sound, InUse
  <1>2. table[i] \in Entry
    BY <1>1 DEF TypeOK, Directory
  <1>3. PICK s \in Sector : s = table[i].sector
    BY <1>2 DEF Entry
  <1>a. table[i].name \in Name
    BY <1>2 DEF Entry
  <1>4. headerAt[s] # NULL
    BY <1>3 DEF FilesDisjoint, HeaderOf
  <1>5. headerAt[s] \in Header
    BY <1>4 DEF TypeOK
  <1>6. PICK ds : ds \in Seq(Sector) /\ ds = headerAt[s].dataSectors
    BY <1>5 DEF Header
  <1>7. Range(ds) \subseteq Sector
    BY <1>6 DEF Range
  <1> QED  BY <1>1, <1>2, <1>3, <1>4, <1>5, <1>6, <1>7, <1>a DEF HeaderOf, FileSectors

(* FindIndex meets entry i first. *)
LEMMA NamedFirst ==
  ASSUME NEW i \in InUse, \A k \in 1..(i - 1) : table[k].name # table[i].name
  PROVE  /\ Present(table[i].name) /\ Min(Entries(table[i].name)) = i
         /\ Find(table[i].name) = table[i].sector
  <1>1. PICK n : n = table[i].name
    OBVIOUS
  <1>2. i \in 1..NumDirEntries /\ i \in Entries(n)
    BY <1>1 DEF InUse, Entries
  <1>3. Entries(n) \in SUBSET Nat /\ \A k \in Entries(n) : table[k].name = n
    BY SectorsFinite DEF Entries
  <1>4. Min(Entries(n)) \in Entries(n) /\ Min(Entries(n)) <= i
    BY <1>2, <1>3, LeastOf
  <1>5. PICK m \in Nat : m = Min(Entries(n)) /\ m \in 1..NumDirEntries
    BY <1>4, SectorsFinite DEF Entries
  <1>6. m = i
    BY <1>1, <1>2, <1>3, <1>4, <1>5
  <1> QED  BY <1>1, <1>2, <1>5, <1>6 DEF Present, Find

(* What Open and Remove find is a sound file. *)
LEMMA UsableIsSound ==
  ASSUME NEW n, Usable(n)
  PROVE  \E j \in Sound : j = Min(Entries(n)) /\ table[j].name = n /\ Find(n) = table[j].sector
  <1>1. Entries(n) \in SUBSET Nat /\ Entries(n) # {}
    BY SectorsFinite DEF Entries, Usable, Present
  <1>2. PICK j : j = Min(Entries(n)) /\ j \in Entries(n) /\ j \notin hurt
    BY <1>1, LeastOf DEF Usable
  <1>3. j \in Sound /\ table[j].name = n
    BY <1>2 DEF Entries, Sound, InUse
  <1> QED  BY <1>2, <1>3 DEF Find

(* The files at these entries are what they were. *)
KeepsFiles(files) ==
    \A i \in files : /\ table'[i].sector = table[i].sector
                     /\ HeaderOf(i)' = HeaderOf(i) /\ FileSectors(i)' = FileSectors(i)
SameHeaders(files) ==
    \A i \in files : /\ table'[i].sector = table[i].sector
                     /\ headerAt'[table[i].sector] = headerAt[table[i].sector]

LEMMA FilesKept ==
  ASSUME NEW files, SameHeaders(files) PROVE KeepsFiles(files)
  <1>1. \A i \in files : HeaderOf(i)' = HeaderOf(i)
    BY DEF HeaderOf, SameHeaders
  <1>2. \A i \in files : FileSectors(i)' = FileSectors(i)
    BY <1>1 DEF FileSectors, SameHeaders
  <1> QED  BY <1>1, <1>2 DEF KeepsFiles, SameHeaders

LEMMA DisjointKept ==
  ASSUME FilesDisjoint, NEW files \in SUBSET Sound, Sound' = files, KeepsFiles(files)
  PROVE  FilesDisjoint'
  <1>1. \A i \in files : HeaderOf(i)' # NULL
    BY DEF FilesDisjoint, KeepsFiles
  <1>2. \A i \in files : /\ IsInjective(HeaderOf(i)'.dataSectors)
                         /\ table'[i].sector \notin Range(HeaderOf(i)'.dataSectors)
                         /\ FileSectors(i)' \cap SystemSectors = {}
    BY DEF FilesDisjoint, KeepsFiles
  <1>3. \A i \in files, k \in files : i # k => FileSectors(i)' \cap FileSectors(k)' = {}
    BY DEF FilesDisjoint, KeepsFiles
  <1> QED  BY <1>1, <1>2, <1>3 DEF FilesDisjoint

LEMMA MapKept ==
  ASSUME NEW files, freeMap' = freeMap, KeepsFiles(files), MapExactFor(files)
  PROVE  MapExactFor(files)'
  <1>1. {FileSectors(i)' : i \in files} = {FileSectors(i) : i \in files}
    BY DEF KeepsFiles
  <1> QED  BY <1>1 DEF MapExactFor

LEMMA InMap ==
  ASSUME NEW files, MapExactFor(files)
  PROVE  /\ SystemSectors \subseteq freeMap
         /\ \A i \in files : FileSectors(i) \subseteq freeMap
         /\ \A t \in freeMap : t \in SystemSectors \/ \E i \in files : t \in FileSectors(i)
  BY DEF MapExactFor

(* Nothing of the directory changes, and no header that it leads to. *)
LEMMA DirectorySame ==
  ASSUME FInv, table' = table, hurt' = hurt, SameHeaders(Sound)
  PROVE  /\ InUse' = InUse /\ Unused' = Unused /\ Sound' = Sound
         /\ KeepsFiles(Sound) /\ FilesDisjoint' /\ Standard' /\ hurt' \subseteq InUse'
         /\ \A files : NamesApart(files)' <=> NamesApart(files)
         /\ \A j, n : NewName(j, n)' <=> NewName(j, n)
  <1>1. InUse' = InUse /\ Unused' = Unused
    BY DEF InUse, Unused
  <1>2. Sound' = Sound
    BY <1>1 DEF Sound
  <1>3. KeepsFiles(Sound)
    BY FilesKept
  <1>4. FilesDisjoint'
    <2>1. PICK files \in SUBSET Sound : files = Sound
      OBVIOUS
    <2> QED  BY <1>2, <1>3, <2>1, DisjointKept DEF FInv
  <1>5. Standard'
    BY <1>2 DEF FInv, Standard
  <1>6. hurt' \subseteq InUse'
    BY <1>1 DEF FInv
  <1>7. \A files : NamesApart(files)' <=> NamesApart(files)
    BY Zenon DEF NamesApart
  <1>8. \A j, n : NewName(j, n)' <=> NewName(j, n)
    BY <1>1, Zenon DEF NewName
  <1> QED  BY <1>1, <1>2, <1>3, <1>4, <1>5, <1>6, <1>7, <1>8

LEMMA WholeKept ==
  ASSUME FInv, table' = table, hurt' = hurt, freeMap' = freeMap, SameHeaders(Sound)
  PROVE  /\ Whole => Whole'
         /\ \A j : WholeBut(j) => WholeBut(j)'
  <1>1. Sound' = Sound /\ KeepsFiles(Sound) /\ \A files : NamesApart(files)' <=> NamesApart(files)
    BY DirectorySame
  <1>2. ASSUME NEW files \in SUBSET Sound, MapExactFor(files) PROVE MapExactFor(files)'
    <2>1. KeepsFiles(files)
      BY <1>1 DEF KeepsFiles
    <2> QED  BY <1>2, <2>1, MapKept
  <1>3. ASSUME Whole PROVE Whole'
    <2>1. PICK files \in SUBSET Sound : files = Sound
      OBVIOUS
    <2>2. MapExactFor(files)' /\ NamesApart(files)'
      BY <1>1, <1>2, <1>3, <2>1 DEF Whole
    <2> QED  BY <1>1, <2>1, <2>2 DEF Whole, MapExactFor, NamesApart
  <1>4. ASSUME NEW j, WholeBut(j) PROVE WholeBut(j)'
    <2>1. PICK files \in SUBSET Sound : files = Sound \ {j}
      OBVIOUS
    <2>2. MapExactFor(files)' /\ NamesApart(files)'
      BY <1>1, <1>2, <1>4, <2>1 DEF WholeBut
    <2> QED  BY <1>1, <1>4, <2>1, <2>2 DEF WholeBut, MapExactFor, NamesApart
  <1> QED  BY <1>3, <1>4

(* Open files are files of the directory. *)
LEMMA OpenIsFile ==
  ASSUME TypeOK, HeadersSized, FilesDisjoint, OpenHeadersCurrent, NEW i \in Slot, openf[i] # NULL
  PROVE  /\ openf[i] \in OpenFile /\ openf[i].hdr \in Header /\ openf[i].of \in Sector
         /\ openf[i].seekPosition \in Nat
         /\ headerAt[openf[i].of] = openf[i].hdr
         /\ Sized(openf[i].hdr) /\ IsInjective(openf[i].hdr.dataSectors)
         /\ \E j \in Sound : table[j].sector = openf[i].of /\ HeaderOf(j) = openf[i].hdr
  <1>1. PICK f : f = openf[i]
    OBVIOUS
  <1>2. f \in OpenFile
    BY <1>1 DEF TypeOK
  <1>3. f.hdr \in Header /\ f.of \in Sector /\ f.seekPosition \in Nat
    BY <1>2 DEF OpenFile
  <1>4. headerAt[f.of] = f.hdr
    BY <1>1 DEF OpenHeadersCurrent
  <1>5. PICK j \in Sound : table[j].sector = f.of
    BY <1>1 DEF OpenHeadersCurrent
  <1>6. HeaderOf(j) = f.hdr
    BY <1>4, <1>5 DEF HeaderOf
  <1>7. headerAt[f.of] # NULL
    BY <1>5, <1>6, <1>4 DEF FilesDisjoint
  <1>8. Sized(f.hdr)
    BY <1>3, <1>4, <1>7 DEF HeadersSized
  <1>9. IsInjective(f.hdr.dataSectors)
    BY <1>6 DEF FilesDisjoint
  <1> QED  BY <1>1, <1>2, <1>3, <1>4, <1>5, <1>6, <1>8, <1>9

(* Between any two sector writes the disk is whole, but for one file. *)
LEMMA WholeOrBut ==
  ASSUME Progress PROVE Whole \/ \E j : WholeBut(j)
  BY DEF Progress, Creating, Removing, HeaderNext, LinkNext, NameNext, MarkNext,
         UnmarkNext, UnlinkNext, RestNext

LEMMA QuietWhole ==
  ASSUME Progress, Quiet PROVE Whole
  <1>1. Len(todo) = 0 /\ todo = << >>
    BY DEF Quiet
  <1>2. \A j, n, sector : ~HeaderNext(j, n, sector) /\ ~LinkNext(j, n, sector)
    BY <1>1 DEF HeaderNext, LinkNext
  <1>3. \A j, n : ~NameNext(j, n) /\ ~MarkNext(j)
    BY <1>1 DEF NameNext, MarkNext
  <1>4. \A j : ~UnmarkNext(j) /\ ~UnlinkNext(j)
    BY <1>1 DEF UnmarkNext, UnlinkNext
  <1> QED  BY <1>2, <1>3, <1>4 DEF Progress, Creating, Removing, RestNext

(* What a stop would hurt. *)
LEMMA UnmarkedFiles ==
  ASSUME FInv
  PROVE  /\ Whole => Unmarked = {}
         /\ \A j : WholeBut(j) => Unmarked = {j}
  <1>1. ASSUME Whole PROVE Unmarked = {}
    BY <1>1, InMap DEF Whole, Unmarked
  <1>2. ASSUME NEW j, WholeBut(j) PROVE Unmarked = {j}
    <2>1. j \in Sound /\ MapExactFor(Sound \ {j})
      BY <1>2 DEF WholeBut
    <2>2. \A i \in Sound \ {j} : FileSectors(i) \subseteq freeMap
      BY <2>1, InMap
    <2>3. table[j].sector \in FileSectors(j)
      BY DEF FileSectors
    <2>4. /\ FileSectors(j) \cap SystemSectors = {}
          /\ \A i \in Sound \ {j} : FileSectors(j) \cap FileSectors(i) = {}
      BY <2>1 DEF FInv, FilesDisjoint
    <2>5. table[j].sector \notin freeMap
      BY <2>1, <2>3, <2>4, InMap
    <2> QED  BY <2>1, <2>2, <2>3, <2>5 DEF Unmarked
  <1> QED  BY <1>1, <1>2

-----------------------------------------------------------------------------
(* The invariant holds at first, and every step keeps it.                  *)

LEMMA InitFInv ==
  ASSUME Init PROVE FInv
  <1>1. PICK ff \in Nat : ff = FirstFile /\ ff = 2 + MapSectors + DirSectors
    BY Sizes DEF FirstFile
  <1>2. /\ ff \in Sector /\ ff + 1 \in Sector /\ SystemSectors \subseteq Sector
        /\ ff \notin SystemSectors /\ ff + 1 \notin SystemSectors /\ 0 \in Sector
    BY <1>1, Sizes DEF Sector, SystemSectors
  <1>3. PICK e1, e2 : e1 = NewEntry("stdin", ff) /\ e2 = NewEntry("stdout", ff + 1)
    OBVIOUS
  <1>4. /\ e1.name = "stdin" /\ e1.sector = ff /\ e2.name = "stdout" /\ e2.sector = ff + 1
        /\ e1.inUse /\ e2.inUse /\ e1 \in Entry /\ e2 \in Entry
    BY <1>2, <1>3, Sizes DEF NewEntry, Entry
  <1>5. /\ table \in [1..NumDirEntries -> Entry] /\ table[1] = e1 /\ table[2] = e2
        /\ \A i \in 1..NumDirEntries : i # 1 /\ i # 2 => ~table[i].inUse
        /\ 1 \in 1..NumDirEntries /\ 2 \in 1..NumDirEntries
    <2>1. 1 \in 1..NumDirEntries /\ 2 \in 1..NumDirEntries
      BY Sizes
    <2>2. PICK garbage \in [1..NumDirEntries -> Name] :
            table = [EmptyDirectory(garbage) EXCEPT ![1] = e1, ![2] = e2]
      BY <1>1, <1>3 DEF Init
    <2>3. PICK d : /\ d = EmptyDirectory(garbage) /\ d \in [1..NumDirEntries -> Entry]
                   /\ \A i \in 1..NumDirEntries : ~d[i].inUse
      <3>1. PICK d : d = [i \in 1..NumDirEntries |->
                            [inUse |-> FALSE, name |-> garbage[i], sector |-> 0]]
        OBVIOUS
      <3>2. \A i \in 1..NumDirEntries : garbage[i] \in Name
        OBVIOUS
      <3>3. ASSUME NEW n \in Name
            PROVE  [inUse |-> FALSE, name |-> n, sector |-> 0] \in Entry
        BY <1>2 DEF Entry
      <3>4. \A i \in 1..NumDirEntries : d[i] \in Entry /\ ~d[i].inUse
        BY <3>1, <3>2, <3>3
      <3>5. d \in [1..NumDirEntries -> Entry]
        BY <3>1, <3>4
      <3>6. d = EmptyDirectory(garbage)
        BY <3>1, Zenon DEF EmptyDirectory
      <3> QED  BY <3>4, <3>5, <3>6
    <2>4. table = [d EXCEPT ![1] = e1, ![2] = e2]
      BY <2>2, <2>3
    <2> QED  BY <1>4, <2>1, <2>3, <2>4
  <1>6. InUse = {1, 2} /\ Sound = {1, 2} /\ hurt = {}
    BY <1>4, <1>5 DEF InUse, Sound, Init
  <1>7. Empty \in Header /\ Empty # NULL /\ Empty.dataSectors = << >> /\ Empty.numBytes = 0
    <2>1. Empty \in Header
      BY Sizes DEF Empty, Header
    <2> QED  BY <2>1, NullApart DEF Empty
  <1>8. Range(<< >>) = {} /\ IsInjective(<< >>)
    BY DEF Range, IsInjective
  <1>9. /\ headerAt \in [Sector -> Header \cup {NULL}]
        /\ headerAt[ff] = Empty /\ headerAt[ff + 1] = Empty
        /\ \A t \in Sector : headerAt[t] # NULL => headerAt[t] = Empty
    BY <1>1, <1>2, <1>7 DEF Init
  <1>10. /\ HeaderOf(1) = Empty /\ HeaderOf(2) = Empty
         /\ FileSectors(1) = {ff} /\ FileSectors(2) = {ff + 1}
    BY <1>4, <1>5, <1>7, <1>8, <1>9 DEF HeaderOf, FileSectors
  <1>11. TypeOK
    <2>1. freeMap \in PersistentBitmap
      BY <1>1, <1>2 DEF Init, PersistentBitmap
    <2>2. bytesAt \in [Sector -> Block]
      BY Sizes DEF Init, JunkBlock, Block
    <2>3. openf \in [Slot -> OpenFile \cup {NULL}]
      BY DEF Init
    <2>4. Len(todo) <= 3
      BY DEF Init
    <2> QED  BY <1>5, <1>6, <1>9, <2>1, <2>2, <2>3, <2>4 DEF TypeOK, Directory
  <1>12. HeadersSized
    <2>1. DivRoundUp(0, SectorSize) = 0
      <3>1. PICK s \in Nat \ {0} : s = SectorSize
        BY Sizes
      <3>2. PICK r \in Nat : r = s - 1
        OBVIOUS
      <3>3. (0 * s + r) \div s = 0
        BY <3>2, DivModUnique
      <3> QED  BY <3>1, <3>2, <3>3 DEF DivRoundUp
    <2>2. Sized(Empty)
      BY <1>7, <2>1 DEF Sized
    <2> QED  BY <1>9, <2>2 DEF HeadersSized
  <1>13. FilesDisjoint
    BY <1>2, <1>4, <1>5, <1>6, <1>7, <1>8, <1>10 DEF FilesDisjoint
  <1>14. Standard /\ hurt \subseteq InUse
    BY <1>4, <1>5, <1>6 DEF Standard
  <1>15. OpenHeadersCurrent
    BY DEF Init, OpenHeadersCurrent
  <1>16. Progress
    <2>1. UNION {FileSectors(i) : i \in Sound} = {ff, ff + 1}
      BY <1>6, <1>10
    <2>2. MapExactFor(Sound)
      BY <1>1, <2>1 DEF Init, MapExactFor
    <2>3. NamesApart(Sound)
      <3>1. \A i \in 1..(1 - 1) : table[i].name # table[1].name
        OBVIOUS
      <3>2. \A i \in 1..(2 - 1) : table[i].name # table[2].name
        <4>1. \A i \in 1..(2 - 1) : i = 1
          OBVIOUS
        <4> QED  BY <1>4, <1>5, <4>1
      <3> QED  BY <1>6, <3>1, <3>2 DEF NamesApart
    <2>4. Quiet
      BY DEF Init, Quiet
    <2> QED  BY <2>2, <2>3, <2>4 DEF Progress, Whole
  <1> QED  BY <1>11, <1>12, <1>13, <1>14, <1>15, <1>16 DEF FInv

(* Calls that change what is open, and perhaps data sectors. *)
LEMMA OpenOnly ==
  ASSUME FInv, Quiet, UNCHANGED << freeMap, table, todo, hurt >>, SameHeaders(Sound),
         headerAt' \in [Sector -> Header \cup {NULL}], HeadersSized',
         bytesAt' \in [Sector -> Block],
         openf' \in [Slot -> OpenFile \cup {NULL}], OpenHeadersCurrent'
  PROVE  FInv'
  <1>1. FilesDisjoint' /\ Standard' /\ hurt' \subseteq InUse'
    BY DirectorySame
  <1>2. Whole'
    BY QuietWhole, WholeKept DEF FInv
  <1>3. Progress'
    BY <1>2 DEF Quiet, Progress
  <1>4. TypeOK'
    BY DEF FInv, TypeOK
  <1> QED  BY <1>1, <1>3, <1>4 DEF FInv

(* Calls that leave the disk alone. *)
LEMMA SlotsOnly ==
  ASSUME FInv, Quiet, UNCHANGED << disk, todo, hurt >>,
         openf' \in [Slot -> OpenFile \cup {NULL}], OpenHeadersCurrent'
  PROVE  FInv'
  <1>1. UNCHANGED << freeMap, table, todo, hurt, headerAt, bytesAt >>
    BY DEF disk
  <1>2. SameHeaders(Sound)
    BY <1>1 DEF SameHeaders
  <1>3. headerAt' \in [Sector -> Header \cup {NULL}] /\ bytesAt' \in [Sector -> Block]
    BY <1>1 DEF FInv, TypeOK
  <1>4. HeadersSized'
    BY <1>1 DEF FInv, HeadersSized
  <1> QED  BY <1>1, <1>2, <1>3, <1>4, OpenOnly

(* The OpenFile of a sound file. *)
OpensFile(f, j) ==
    /\ f \in OpenFile /\ f # NULL /\ f.of = table[j].sector /\ headerAt[f.of] = f.hdr

LEMMA NewOpenFileTyped ==
  ASSUME TypeOK, FilesDisjoint, NEW n, NEW j \in Sound, Find(n) = table[j].sector,
         NEW f, f = NewOpenFile(n)
  PROVE  OpensFile(f, j)
  <1>2. table[j].sector \in Sector /\ HeaderOf(j) \in Header
    BY FileTyped
  <1>3. f = [hdr |-> HeaderOf(j), of |-> table[j].sector, seekPosition |-> 0]
    BY DEF NewOpenFile, FetchHeader, HeaderOf
  <1>4. f \in OpenFile /\ f.hdr = HeaderOf(j) /\ f.of = table[j].sector
    BY <1>2, <1>3 DEF OpenFile
  <1> QED  BY <1>4, NullApart DEF HeaderOf, OpensFile

(* Every boot finds stdin and stdout. *)
LEMMA MountOpens ==
  ASSUME FInv, Mount, SameHeaders({1, 2}), {1, 2} \subseteq Sound'
  PROVE  openf' \in [Slot -> OpenFile \cup {NULL}] /\ OpenHeadersCurrent'
  <1>1. /\ 1 \in Sound /\ table[1].name = "stdin" /\ 2 \in Sound /\ table[2].name = "stdout"
        /\ Sound \subseteq InUse
    BY DEF FInv, Standard, Sound
  <1>2. Find("stdin") = table[1].sector
    <2>1. \A k \in 1..(1 - 1) : table[k].name # table[1].name
      OBVIOUS
    <2> QED  BY <1>1, <2>1, NamedFirst
  <1>3. Find("stdout") = table[2].sector
    <2>1. \A k \in 1..(2 - 1) : k = 1
      OBVIOUS
    <2>2. \A k \in 1..(2 - 1) : table[k].name # table[2].name
      BY <1>1, <2>1
    <2> QED  BY <1>1, <2>2, NamedFirst
  <1>4. PICK f : f = NewOpenFile("stdin") /\ OpensFile(f, 1)
    BY <1>1, <1>2, NewOpenFileTyped DEF FInv
  <1>5. PICK g : g = NewOpenFile("stdout") /\ OpensFile(g, 2)
    BY <1>1, <1>3, NewOpenFileTyped DEF FInv
  <1>6. openf' = [i \in Slot |-> CASE i = 2 -> f [] i = 3 -> g [] OTHER -> NULL]
    BY <1>4, <1>5 DEF Mount
  <1>7. f \in OpenFile /\ g \in OpenFile
    BY <1>4, <1>5 DEF OpensFile
  <1>8. /\ openf' \in [Slot -> OpenFile \cup {NULL}]
        /\ \A i \in Slot : openf'[i] \in {f, g, NULL}
    BY <1>6, <1>7
  <1>9. headerAt'[f.of] = f.hdr /\ f.of = table'[1].sector
    BY <1>4 DEF OpensFile, SameHeaders
  <1>10. headerAt'[g.of] = g.hdr /\ g.of = table'[2].sector
    BY <1>5 DEF OpensFile, SameHeaders
  <1>11. OpenHeadersCurrent'
    BY <1>8, <1>9, <1>10 DEF OpenHeadersCurrent
  <1> QED  BY <1>8, <1>11

LEMMA OpenStep ==
  ASSUME FInv, NEW n \in Name, Open(n) PROVE FInv'
  <1>1. PICK j \in Sound : Find(n) = table[j].sector
    BY UsableIsSound DEF Open
  <1>2. PICK f : f = NewOpenFile(n) /\ OpensFile(f, j)
    BY <1>1, NewOpenFileTyped DEF FInv
  <1>3. PICK k : k = Min(FreeSlots)
    OBVIOUS
  <1>4. openf' = [openf EXCEPT ![k] = f]
    BY <1>2, <1>3 DEF Open
  <1>5. Quiet /\ UNCHANGED << disk, todo, hurt >> /\ UNCHANGED << table, headerAt >>
    BY DEF Open, disk
  <1>6. openf \in [Slot -> OpenFile \cup {NULL}]
    BY DEF FInv, TypeOK
  <1>7. openf' \in [Slot -> OpenFile \cup {NULL}]
    BY <1>2, <1>4, <1>6 DEF OpensFile
  <1>8. \A i \in Slot : openf'[i] = openf[i] \/ openf'[i] = f
    BY <1>4, <1>6
  <1>9. Sound' = Sound
    BY <1>5 DEF Sound, InUse
  <1>10. OpenHeadersCurrent'
    BY <1>2, <1>5, <1>8, <1>9 DEF FInv, OpenHeadersCurrent, OpensFile
  <1> QED  BY <1>5, <1>7, <1>10, SlotsOnly

LEMMA CloseStep ==
  ASSUME FInv, NEW k \in Slot, Close(k) PROVE FInv'
  <1>1. /\ Quiet /\ UNCHANGED << disk, todo, hurt >> /\ UNCHANGED << table, headerAt >>
        /\ openf' = [openf EXCEPT ![k] = NULL]
    BY DEF Close, disk
  <1>2. openf \in [Slot -> OpenFile \cup {NULL}]
    BY DEF FInv, TypeOK
  <1>3. openf' \in [Slot -> OpenFile \cup {NULL}]
        /\ \A i \in Slot : openf'[i] = openf[i] \/ openf'[i] = NULL
    BY <1>1, <1>2
  <1>4. Sound' = Sound
    BY <1>1 DEF Sound, InUse
  <1>5. OpenHeadersCurrent'
    BY <1>1, <1>3, <1>4 DEF FInv, OpenHeadersCurrent
  <1> QED  BY <1>1, <1>3, <1>5, SlotsOnly

(* Wherever Nachos stopped, the boot after it finds a disk that is whole   *)
(* but for the files it counts as hurt.                                    *)
LEMMA RestartStep ==
  ASSUME FInv, Restart PROVE FInv'
  <1>1. /\ Mount /\ todo' = << >> /\ hurt' = hurt \cup Unmarked
        /\ UNCHANGED << freeMap, table, headerAt, bytesAt >>
    BY DEF Restart, Mount, disk
  <1>2. PICK files \in SUBSET Sound :
          /\ files = Sound \ Unmarked /\ {1, 2} \subseteq files
          /\ MapExactFor(files) /\ NamesApart(files)
    <2>1. Whole \/ \E j : WholeBut(j)
      BY WholeOrBut DEF FInv
    <2>2. CASE Whole
      <3>1. Sound \ Unmarked = Sound
        BY <2>2, UnmarkedFiles
      <3> QED  BY <2>2, <3>1 DEF Whole, FInv, Standard
    <2>3. CASE \E j : WholeBut(j)
      <3>1. PICK j : WholeBut(j)
        BY <2>3
      <3>2. Sound \ Unmarked = Sound \ {j}
        BY <3>1, UnmarkedFiles
      <3> QED  BY <3>1, <3>2 DEF WholeBut, FInv, Standard
    <2> QED  BY <2>1, <2>2, <2>3
  <1>3. InUse' = InUse /\ Sound' = files
    <2>1. InUse' = InUse
      BY <1>1 DEF InUse
    <2> QED  BY <1>1, <1>2, <2>1 DEF Sound
  <1>4. KeepsFiles(files) /\ SameHeaders({1, 2})
    <2>1. SameHeaders(files) /\ SameHeaders({1, 2})
      BY <1>1 DEF SameHeaders
    <2> QED  BY <2>1, FilesKept
  <1>5. FilesDisjoint'
    BY <1>3, <1>4, DisjointKept DEF FInv
  <1>6. Progress'
    <2>1. MapExactFor(files)'
      BY <1>1, <1>2, <1>4, MapKept
    <2>2. NamesApart(files)'
      BY <1>1, <1>2 DEF NamesApart
    <2>3. Whole'
      BY <1>3, <2>1, <2>2 DEF Whole, MapExactFor, NamesApart
    <2> QED  BY <1>1, <2>3 DEF Progress, Quiet
  <1>7. Standard' /\ hurt' \subseteq InUse'
    <2>1. Unmarked \subseteq InUse
      BY DEF Unmarked, Sound
    <2> QED  BY <1>1, <1>2, <1>3, <2>1 DEF FInv, Standard
  <1>8. openf' \in [Slot -> OpenFile \cup {NULL}] /\ OpenHeadersCurrent'
    BY <1>1, <1>2, <1>3, <1>4, MountOpens
  <1>9. TypeOK'
    <2>1. Len(todo') <= 3
      BY <1>1
    <2>2. hurt' \subseteq 1..NumDirEntries
      BY <1>3, <1>7 DEF InUse
    <2> QED  BY <1>1, <1>8, <2>1, <2>2 DEF FInv, TypeOK
  <1>10. HeadersSized'
    BY <1>1 DEF FInv, HeadersSized
  <1> QED  BY <1>5, <1>6, <1>7, <1>8, <1>9, <1>10 DEF FInv

(* The seek position of an open file moves. *)
LEMMA PositionMoves ==
  ASSUME FInv, NEW i \in Slot, openf[i] # NULL, NEW v \in Nat,
         openf' = [openf EXCEPT ![i].seekPosition = v],
         table' = table, hurt' = hurt, SameHeaders(Sound)
  PROVE  openf' \in [Slot -> OpenFile \cup {NULL}] /\ OpenHeadersCurrent'
  <1>1. openf \in [Slot -> OpenFile \cup {NULL}]
    BY DEF FInv, TypeOK
  <1>2. PICK f : f = openf[i] /\ f \in OpenFile
    BY <1>1
  <1>3. PICK g : g = [f EXCEPT !.seekPosition = v]
    OBVIOUS
  <1>4. g \in OpenFile /\ g.hdr = f.hdr /\ g.of = f.of
    BY <1>2, <1>3 DEF OpenFile
  <1>5. openf' \in [Slot -> OpenFile \cup {NULL}] /\ openf'[i] = g
        /\ \A k \in Slot : k # i => openf'[k] = openf[k]
    BY <1>1, <1>2, <1>3, <1>4
  <1>6. Sound' = Sound
    BY DEF Sound, InUse
  <1>7. \A k \in Slot : openf[k] # NULL =>
          headerAt'[openf[k].of] = openf[k].hdr /\ \E j \in Sound : table[j].sector = openf[k].of
    BY DEF FInv, OpenHeadersCurrent, SameHeaders
  <1>8. ASSUME NEW k \in Slot, openf'[k] # NULL
        PROVE  /\ headerAt'[openf'[k].of] = openf'[k].hdr
               /\ \E j \in Sound : table[j].sector = openf'[k].of
    BY <1>2, <1>4, <1>5, <1>7, <1>8
  <1> QED  BY <1>5, <1>6, <1>8 DEF OpenHeadersCurrent

LEMMA ReadStep ==
  ASSUME FInv, NEW i \in Slot, NEW k \in 1..MaxSize, Read(i, k) PROVE FInv'
  <1>1. openf[i] # NULL /\ Quiet /\ UNCHANGED << disk, todo, hurt >> /\ table' = table
        /\ SameHeaders(Sound)
    BY DEF Read, disk, SameHeaders
  <1>2. PICK hdr, p : /\ hdr = openf[i].hdr /\ p = openf[i].seekPosition
                      /\ hdr \in Header /\ p \in Nat
    BY <1>1, OpenIsFile DEF FInv
  <1>3. k \in Nat
    BY Sizes
  <1>4. PICK c, size \in Nat : Within(hdr, k, p, c, size)
    BY <1>2, <1>3, ClipWithin
  <1>5. ReadAt(hdr, k, p) = [m \in 1..c |-> Content(hdr)[p + m]]
    <2>1. c = Clip(hdr, k, p)
      BY <1>4 DEF Within
    <2>2. ReadAt(hdr, k, p) = [m \in 1..Clip(hdr, k, p) |-> Content(hdr)[p + m]]
      BY <1>2, <1>3, ReadAtBytes, ZenonT(40)
    <2> QED  BY <2>1, <2>2, Zenon
  <1>6. Len([m \in 1..c |-> Content(hdr)[p + m]]) = c
    OBVIOUS
  <1>7. PICK v \in Nat : v = p + c
    BY <1>2
  <1>8. openf' = [openf EXCEPT ![i].seekPosition = @ + c]
    BY <1>2, <1>5, <1>6, Zenon DEF Read, Advance
  <1>9. openf' = [openf EXCEPT ![i].seekPosition = v]
    BY <1>2, <1>7, <1>8
  <1>10. openf' \in [Slot -> OpenFile \cup {NULL}] /\ OpenHeadersCurrent'
    BY <1>1, <1>9, PositionMoves
  <1> QED  BY <1>1, <1>10, SlotsOnly

LEMMA SeekStep ==
  ASSUME FInv, NEW i \in Slot, NEW p \in 0..MaxSize, Seek(i, p) PROVE FInv'
  <1>1. /\ openf[i] # NULL /\ Quiet /\ UNCHANGED << disk, todo, hurt >> /\ table' = table
        /\ SameHeaders(Sound)
    BY DEF Seek, disk, SameHeaders
  <1>a. openf' = [openf EXCEPT ![i].seekPosition = p] /\ p \in Nat
    BY Sizes DEF Seek
  <1>2. openf' \in [Slot -> OpenFile \cup {NULL}] /\ OpenHeadersCurrent'
    BY <1>1, <1>a, PositionMoves
  <1> QED  BY <1>1, <1>2, SlotsOnly

(* The sectors a Write of an open file changes are data sectors of that    *)
(* file, so no header of any sound file.                                   *)
LEMMA WriteSparesHeaders ==
  ASSUME FInv, NEW i \in Slot, openf[i] # NULL, NEW j \in Sound
  PROVE  /\ table[j].sector \in Sector \ Range(openf[i].hdr.dataSectors)
         /\ table[j].sector # openf[i].of =>
              FileSectors(j) \cap Range(openf[i].hdr.dataSectors) = {}
  <1>1. PICK m \in Sound : table[m].sector = openf[i].of /\ HeaderOf(m) = openf[i].hdr
    BY OpenIsFile DEF FInv
  <1>2. /\ table[m].sector \notin Range(HeaderOf(m).dataSectors)
        /\ j # m => FileSectors(j) \cap FileSectors(m) = {}
    BY DEF FInv, FilesDisjoint
  <1>3. /\ table[j].sector \in FileSectors(j)
        /\ Range(HeaderOf(m).dataSectors) \subseteq FileSectors(m)
    BY DEF FileSectors
  <1>4. table[j].sector \in Sector
    BY FileTyped DEF FInv
  <1> QED  BY <1>1, <1>2, <1>3, <1>4

(* What a write leaves as it should be, whether or not it was cut off. *)
LEMMA WriteKeeps ==
  ASSUME FInv, NEW i \in Slot, openf[i] # NULL, NEW buf, NEW hdr, NEW p, NEW n, NEW m,
         WriteEffect(i, buf, hdr, p, n, m), table' = table
  PROVE  /\ SameHeaders(Sound) /\ HeadersSized'
         /\ headerAt' \in [Sector -> Header \cup {NULL}] /\ bytesAt' \in [Sector -> Block]
  <1>1. /\ hdr = openf[i].hdr
        /\ bytesAt' \in [Sector -> Block]
        /\ headerAt' \in [Sector -> Header \cup {NULL}]
        /\ \A t \in Sector : headerAt'[t] \in {NULL, headerAt[t]}
        /\ \A t \in Sector \ Range(hdr.dataSectors) : headerAt'[t] = headerAt[t]
    BY Zenon DEF WriteEffect
  <1>2. SameHeaders(Sound)
    BY <1>1, WriteSparesHeaders DEF SameHeaders
  <1>3. HeadersSized'
    BY <1>1 DEF FInv, HeadersSized
  <1> QED  BY <1>1, <1>2, <1>3

(* Write and WriteStopped, by their effect. *)
LEMMA WriteHas ==
  ASSUME FInv, NEW i \in Slot, NEW k \in 1..MaxSize, NEW buf, buf \in [1..k -> Byte],
         Write(i, buf)
  PROVE  \E hdr \in Header, p \in Nat, n \in Nat :
           /\ WriteEffect(i, buf, hdr, p, n, n)
           /\ openf' = [openf EXCEPT ![i].seekPosition = @ + n]
  <1>1. PICK hdr, p : hdr = openf[i].hdr /\ p = openf[i].seekPosition
    OBVIOUS
  <1>2. PICK n : n = Clip(hdr, Len(buf), p)
    OBVIOUS
  <1>3. /\ openf[i] # NULL /\ n > 0 /\ openf' = [openf EXCEPT ![i].seekPosition = @ + n]
        /\ WriteSectors(hdr, WriteBuffer(hdr, SubSeq(buf, 1, n), p),
                        FirstSector(p), LastSector(p, n))
    BY <1>1, <1>2, Zenon DEF Write, Advance
  <1>4. TypeOK /\ Sized(openf[i].hdr) /\ IsInjective(openf[i].hdr.dataSectors) /\ p \in Nat
    BY <1>1, <1>3, OpenIsFile DEF FInv
  <1>5. WriteArgs(i, buf, hdr, p, n)
    BY <1>1, <1>2, <1>3 DEF WriteArgs
  <1>6. PICK upto : upto = LastSector(p, n)
    OBVIOUS
  <1>7. upto \in FirstSector(p)..LastSector(p, n)
    <2>1. PICK c, size \in Nat : Within(hdr, k, p, c, size)
      <3>1. k \in Nat /\ hdr \in Header
        BY <1>1, <1>3, Sizes, OpenIsFile DEF FInv
      <3> QED  BY <1>4, <3>1, ClipWithin
    <2>2. n \in Nat \ {0}
      <3>1. Len(buf) = k
        BY Sizes
      <3>2. c = n
        BY <1>2, <2>1, <3>1 DEF Within
      <3> QED  BY <1>3, <2>1, <3>2
    <2>3. PICK s \in Nat \ {0}, first, last, fs, ls \in Nat :
            Touched(p, n, s, first, last, fs, ls)
      BY <1>4, <2>2, SectorsTouched
    <2> QED  BY <1>6, <2>3 DEF Touched
  <1>8. /\ hdr \in Header /\ p \in Nat /\ n \in Nat
        /\ \E m \in Nat : /\ WriteEffect(i, buf, hdr, p, n, m)
                          /\ upto = LastSector(p, n) => m = n
    BY <1>3, <1>4, <1>5, <1>6, <1>7, WriteDoes
  <1> QED  BY <1>3, <1>6, <1>8

LEMMA StoppedHas ==
  ASSUME FInv, NEW i \in Slot, NEW k \in 1..MaxSize, NEW buf, buf \in [1..k -> Byte],
         WriteStopped(i, buf)
  PROVE  \E hdr \in Header, p \in Nat, n \in Nat, m \in Nat : WriteEffect(i, buf, hdr, p, n, m)
  <1>1. PICK hdr, p : hdr = openf[i].hdr /\ p = openf[i].seekPosition
    OBVIOUS
  <1>2. PICK n : n = Clip(hdr, Len(buf), p)
    OBVIOUS
  <1>3. openf[i] # NULL /\ n > 0
    BY <1>1, <1>2, Zenon DEF WriteStopped
  <1>a. PICK upto \in FirstSector(p)..(LastSector(p, n) - 1) :
          WriteSectors(hdr, WriteBuffer(hdr, SubSeq(buf, 1, n), p), FirstSector(p), upto)
    BY <1>1, <1>2, Zenon DEF WriteStopped
  <1>4. TypeOK /\ Sized(openf[i].hdr) /\ IsInjective(openf[i].hdr.dataSectors) /\ p \in Nat
    BY <1>1, <1>3, OpenIsFile DEF FInv
  <1>5. WriteArgs(i, buf, hdr, p, n)
    BY <1>1, <1>2, <1>3 DEF WriteArgs
  <1>7. upto \in FirstSector(p)..LastSector(p, n)
    <2>1. PICK c, size \in Nat : Within(hdr, k, p, c, size)
      <3>1. k \in Nat /\ hdr \in Header
        BY <1>1, <1>3, Sizes, OpenIsFile DEF FInv
      <3> QED  BY <1>4, <3>1, ClipWithin
    <2>2. n \in Nat \ {0}
      <3>1. Len(buf) = k
        BY Sizes
      <3>2. c = n
        BY <1>2, <2>1, <3>1 DEF Within
      <3> QED  BY <1>3, <2>1, <3>2
    <2>3. PICK s \in Nat \ {0}, first, last, fs, ls \in Nat :
            Touched(p, n, s, first, last, fs, ls)
      BY <1>4, <2>2, SectorsTouched
    <2>4. first = FirstSector(p) /\ last = LastSector(p, n)
      BY <2>3 DEF Touched
    <2> QED  BY <1>a, <2>4
  <1>8. /\ hdr \in Header /\ p \in Nat /\ n \in Nat
        /\ \E m \in Nat : WriteEffect(i, buf, hdr, p, n, m)
    BY <1>a, <1>3, <1>4, <1>5, <1>7, WriteDoes
  <1> QED  BY <1>8

LEMMA WriteStep ==
  ASSUME FInv, NEW i \in Slot, NEW k \in 1..MaxSize, NEW buf, buf \in [1..k -> Byte],
         Write(i, buf)
  PROVE  FInv'
  <1>1. openf[i] # NULL /\ Quiet /\ UNCHANGED << freeMap, table, todo, hurt >>
    BY DEF Write, WriteSectors
  <1>2. PICK hdr \in Header, p \in Nat, n \in Nat :
          /\ WriteEffect(i, buf, hdr, p, n, n)
          /\ openf' = [openf EXCEPT ![i].seekPosition = @ + n]
    BY WriteHas
  <1>3. /\ SameHeaders(Sound) /\ HeadersSized'
        /\ headerAt' \in [Sector -> Header \cup {NULL}] /\ bytesAt' \in [Sector -> Block]
    BY <1>1, <1>2, WriteKeeps
  <1>4. PICK v \in Nat : v = openf[i].seekPosition + n
    <2>1. p = openf[i].seekPosition
      BY <1>2, Zenon DEF WriteEffect
    <2> QED  BY <2>1
  <1>5. openf' = [openf EXCEPT ![i].seekPosition = v]
    BY <1>2, <1>4
  <1>6. openf' \in [Slot -> OpenFile \cup {NULL}] /\ OpenHeadersCurrent'
    BY <1>1, <1>3, <1>5, PositionMoves
  <1> QED  BY <1>1, <1>3, <1>6, OpenOnly

LEMMA WriteStoppedStep ==
  ASSUME FInv, NEW i \in Slot, NEW k \in 1..MaxSize, NEW buf, buf \in [1..k -> Byte],
         WriteStopped(i, buf)
  PROVE  FInv'
  <1>1. openf[i] # NULL /\ Quiet /\ Mount /\ hurt' = hurt
    BY DEF WriteStopped
  <1>2. UNCHANGED << freeMap, table >>
    BY DEF WriteStopped, WriteSectors
  <1>3. todo' = todo
    BY <1>1 DEF Mount, Quiet
  <1>4. PICK hdr \in Header, p \in Nat, n \in Nat, m \in Nat : WriteEffect(i, buf, hdr, p, n, m)
    BY StoppedHas
  <1>5. /\ SameHeaders(Sound) /\ HeadersSized'
        /\ headerAt' \in [Sector -> Header \cup {NULL}] /\ bytesAt' \in [Sector -> Block]
    BY <1>1, <1>2, <1>4, WriteKeeps
  <1>6. {1, 2} \subseteq Sound /\ Sound' = Sound
    BY <1>1, <1>2 DEF FInv, Standard, Sound, InUse
  <1>7. SameHeaders({1, 2})
    BY <1>5, <1>6 DEF SameHeaders
  <1>8. openf' \in [Slot -> OpenFile \cup {NULL}] /\ OpenHeadersCurrent'
    BY <1>1, <1>6, <1>7, MountOpens
  <1> QED  BY <1>1, <1>2, <1>3, <1>5, <1>8, OpenOnly

(* A step that only puts writes in todo. *)
LEMMA TodoOnly ==
  ASSUME FInv, UNCHANGED << disk, openf, hurt >>, Len(todo') <= 3, Progress'
  PROVE  FInv'
  <1>1. UNCHANGED << freeMap, table, headerAt, bytesAt >> /\ SameHeaders(Sound)
    BY DEF disk, SameHeaders
  <1>2. Sound' = Sound /\ FilesDisjoint' /\ Standard' /\ hurt' \subseteq InUse'
    BY <1>1, DirectorySame
  <1>3. TypeOK'
    BY <1>1 DEF FInv, TypeOK
  <1>4. HeadersSized'
    BY <1>1 DEF FInv, HeadersSized
  <1>5. OpenHeadersCurrent'
    BY <1>1, <1>2 DEF FInv, OpenHeadersCurrent
  <1> QED  BY <1>2, <1>3, <1>4, <1>5 DEF FInv

LEMMA CreateStep ==
  ASSUME FInv, NEW n \in Name, NEW size \in 0..MaxSize, Create(n, size) PROVE FInv'
  <1>1. PICK sector : sector = Min(Sector \ freeMap)
    OBVIOUS
  <1>2. PICK map : map = freeMap \cup {sector}
    OBVIOUS
  <1>3. PICK hdr : hdr = Allocate(map, size)
    OBVIOUS
  <1>4. /\ Quiet /\ ~Present(n) /\ freeMap # Sector /\ Unused # {}
        /\ UNCHANGED << disk, openf, hurt >>
        /\ DivRoundUp(size, SectorSize) <= NumClear(map)
        /\ todo' = CreateWrites(n, sector, hdr)
    BY <1>1, <1>2, <1>3, Zenon DEF Create
  <1>a. UNCHANGED << freeMap, table, headerAt, bytesAt >> /\ SameHeaders(Sound)
    BY <1>4 DEF disk, SameHeaders
  <1>5. freeMap \in SUBSET Sector
    BY DEF FInv, TypeOK, PersistentBitmap
  <1>6. sector \in Sector \ freeMap
    <2>1. Sector \ freeMap \in SUBSET Nat /\ Sector \ freeMap # {}
      BY <1>4, <1>5, SectorsFinite
    <2> QED  BY <1>1, <2>1, LeastOf
  <1>7. PICK j : j = Min(Unused) /\ j \in Unused /\ \A i \in Unused : j <= i
    <2>1. Unused \in SUBSET Nat
      BY SectorsFinite DEF Unused
    <2> QED  BY <1>4, <2>1, LeastOf
  <1>8. PICK k \in Nat : k = DivRoundUp(size, SectorSize)
    <2>1. size \in Nat
      BY Sizes
    <2> QED  BY <2>1, RoundUp
  <1>9. PICK ds : ds = FirstClear(map, k)
    OBVIOUS
  <1>10. ds \in Seq(Sector) /\ Len(ds) = k /\ IsInjective(ds) /\ Range(ds) \cap map = {}
    <2>1. map \in SUBSET Sector /\ k <= NumClear(map)
      BY <1>2, <1>4, <1>5, <1>6, <1>8
    <2> QED  BY <1>9, <2>1, FirstClearFree
  <1>11. hdr = [numBytes |-> size, dataSectors |-> ds]
    BY <1>3, <1>8, <1>9 DEF Allocate
  <1>12. hdr \in Header /\ hdr.dataSectors = ds /\ hdr.numBytes = size
    BY <1>10, <1>11 DEF Header
  <1>13. NewFile(sector, hdr)
    <2>1. Sized(hdr)
      BY <1>8, <1>10, <1>12 DEF Sized
    <2> QED  BY <1>2, <1>6, <1>10, <1>12, <2>1 DEF NewFile
  <1>14. PICK a, b, c : /\ a = [op |-> "hdr", at |-> sector, new |-> hdr]
                        /\ b = WriteDir(1, Linked(j, n, sector))
                        /\ c = Mark({sector} \cup Range(hdr.dataSectors))
    OBVIOUS
  <1>15. todo' = << a, b, c >>
    <2>1. freeMap \cup {sector} \cup Range(hdr.dataSectors)
            = freeMap \cup ({sector} \cup Range(hdr.dataSectors))
      OBVIOUS
    <2>2. b = [op |-> "dir", part |-> 1, new |-> Add(n, sector)]
      BY <1>7, <1>14 DEF WriteDir, Linked, Add
    <2>3. c = [op |-> "map", new |-> freeMap \cup {sector} \cup Range(hdr.dataSectors)]
      BY <1>14, <2>1 DEF Mark
    <2> QED  BY <1>4, <1>14, <2>2, <2>3, Zenon DEF CreateWrites
  <1>16. Len(todo') = 3 /\ todo'[1] = a /\ a.new = hdr
    BY <1>14, <1>15
  <1>17. Unused' = Unused /\ \A m : NewName(j, m)' <=> NewName(j, m)
    BY <1>a, <1>4, DirectorySame
  <1>18. Whole'
    BY <1>a, <1>4, QuietWhole, WholeKept DEF FInv
  <1>19. HeaderNext(j, n, sector)'
    <2>1. Linked(j, n, sector)' = Linked(j, n, sector)
          /\ Mark({sector} \cup Range(hdr.dataSectors))' = c
      BY <1>a, <1>14 DEF Linked, Mark
    <2>2. NewFile(sector, hdr)'
      BY <1>a, <1>13 DEF NewFile
    <2>3. todo'[1].new = hdr
      BY <1>16
    <2>4. Mark({sector} \cup Range(todo[1].new.dataSectors))' = c
      BY <2>1, <2>3 DEF Mark
    <2>5. NewFile(sector, todo[1].new)'
      BY <2>2, <2>3 DEF NewFile
    <2>6. WriteDir(1, Linked(j, n, sector))' = b
      BY <1>14, <2>1 DEF WriteDir
    <2>7. todo' = << [op |-> "hdr", at |-> sector, new |-> todo'[1].new],
                     WriteDir(1, Linked(j, n, sector))',
                     Mark({sector} \cup Range(todo[1].new.dataSectors))' >>
      BY <1>14, <1>15, <2>3, <2>4, <2>6, Zenon
    <2> QED  BY <1>16, <1>18, <2>5, <2>7 DEF HeaderNext
  <1>20. NewName(j, n)
    <2>1. \A i \in 1..NumDirEntries : i < j => i \in InUse
      <3>1. \A i \in 1..NumDirEntries : i \in Unused \/ i \in InUse
        BY DEF Unused, InUse
      <3>2. j \in 1..NumDirEntries
        BY <1>7 DEF Unused
      <3> QED  BY <1>7, <3>1, <3>2
    <2>2. \A i \in 1..NumDirEntries : i \in InUse => table[i].name # n
      BY <1>4 DEF Present, Entries, InUse
    <2> QED  BY <2>1, <2>2 DEF NewName
  <1>21. Progress'
    <2>1. j \in Unused' /\ NewName(j, n)'
      BY <1>7, <1>17, <1>20
    <2> QED  BY <1>6, <1>19, <2>1 DEF Progress, Creating
  <1> QED  BY <1>4, <1>16, <1>21, TodoOnly

LEMMA RemoveStep ==
  ASSUME ~RemoveOpen, FInv, NEW n \in Name \ {"stdin", "stdout"}, Remove(n) PROVE FInv'
  <1>1. /\ Quiet /\ Usable(n) /\ ~IsOpen(Find(n))
        /\ todo' = << [op |-> "map", new |-> freeMap \ Freed(Find(n))],
                      [op |-> "dir", part |-> 1, new |-> RemoveEntry(n)] >>
        /\ UNCHANGED << disk, openf, hurt >>
    BY DEF Remove
  <1>a. UNCHANGED << freeMap, table, headerAt, bytesAt >> /\ SameHeaders(Sound)
    BY <1>1 DEF disk, SameHeaders
  <1>2. PICK j \in Sound : /\ j = Min(Entries(n)) /\ table[j].name = n
                           /\ Find(n) = table[j].sector
    BY <1>1, UsableIsSound
  <1>3. Freed(Find(n)) = FileSectors(j) /\ RemoveEntry(n) = Unlinked(j)
    BY <1>2 DEF Freed, FileSectors, HeaderOf, RemoveEntry, Unlinked
  <1>4. Sound' = Sound /\ KeepsFiles(Sound)
    BY <1>a, <1>1, DirectorySame
  <1>5. Whole'
    BY <1>a, <1>1, QuietWhole, WholeKept DEF FInv
  <1>6. j \in Sound' /\ FileSectors(j)' = FileSectors(j)
    BY <1>4 DEF KeepsFiles
  <1>7. /\ Unmark(FileSectors(j))' = [op |-> "map", new |-> freeMap \ FileSectors(j)]
        /\ WriteDir(1, Unlinked(j))' = [op |-> "dir", part |-> 1, new |-> Unlinked(j)]
    BY <1>a, <1>6 DEF Unmark, WriteDir, Unlinked
  <1>8. UnmarkNext(j)'
    BY <1>1, <1>3, <1>5, <1>7, Zenon DEF UnmarkNext
  <1>9. Removable(j)'
    <2>1. j \notin {1, 2}
      BY <1>2 DEF FInv, Standard
    <2>2. ~IsOpen(table[j].sector)'
      BY <1>a, <1>1, <1>2 DEF IsOpen
    <2> QED  BY <2>1, <2>2 DEF Removable
  <1>10. Progress'
    BY <1>6, <1>8, <1>9 DEF Progress, Removing
  <1>11. Len(todo') = 2
    BY <1>1
  <1> QED  BY <1>1, <1>10, <1>11, TodoOnly

(* The header of a new file is written: no name leads to it yet. *)
LEMMA HeaderStep ==
  ASSUME FInv, WriteBack, NEW j \in Unused, NEW n \in Name, NEW sector \in Sector,
         NewName(j, n), HeaderNext(j, n, sector)
  PROVE  FInv'
  <1>1. PICK hdr : hdr = todo[1].new
    OBVIOUS
  <1>2. PICK a, b, c : /\ a = [op |-> "hdr", at |-> sector, new |-> hdr]
                       /\ b = WriteDir(1, Linked(j, n, sector))
                       /\ c = Mark({sector} \cup Range(hdr.dataSectors))
    OBVIOUS
  <1>3. todo = << a, b, c >> /\ NewFile(sector, hdr) /\ Whole
    BY <1>1, <1>2, Zenon DEF HeaderNext
  <1>4. Head(todo) = a /\ Tail(todo) = << b, c >>
    BY <1>3
  <1>5. a.op = "hdr" /\ a.at = sector /\ a.new = hdr
    BY <1>2
  <1>6. WriteHeader(sector, hdr) /\ todo' = << b, c >> /\ openf' = openf /\ hurt' = hurt
    BY <1>4, <1>5 DEF WriteBack, AfterWrite
  <1>7. /\ headerAt' = [headerAt EXCEPT ![sector] = hdr]
        /\ bytesAt' = [bytesAt EXCEPT ![sector] = JunkBlock]
        /\ freeMap' = freeMap /\ table' = table
    BY <1>6 DEF WriteHeader
  <1>8. hdr \in Header /\ Sized(hdr) /\ sector \notin freeMap
    BY <1>3 DEF NewFile
  <1>9. headerAt \in [Sector -> Header \cup {NULL}]
    BY DEF FInv, TypeOK
  <1>10. headerAt' \in [Sector -> Header \cup {NULL}] /\ headerAt'[sector] = hdr
         /\ \A t \in Sector : t # sector => headerAt'[t] = headerAt[t]
    BY <1>7, <1>8, <1>9
  <1>11. \A i \in Sound : table[i].sector \in Sector /\ table[i].sector # sector
    <2>1. \A i \in Sound : table[i].sector \in FileSectors(i)
      BY DEF FileSectors
    <2>2. \A i \in Sound : FileSectors(i) \subseteq freeMap
      BY <1>3, InMap DEF Whole
    <2>3. \A i \in Sound : table[i].sector \in Sector
      BY FileTyped DEF FInv
    <2> QED  BY <1>8, <2>1, <2>2, <2>3
  <1>12. SameHeaders(Sound)
    BY <1>7, <1>10, <1>11 DEF SameHeaders
  <1>13. /\ Sound' = Sound /\ Unused' = Unused /\ FilesDisjoint' /\ Standard'
         /\ hurt' \subseteq InUse' /\ NewName(j, n)'
    BY <1>6, <1>7, <1>12, DirectorySame
  <1>14. Whole'
    BY <1>3, <1>6, <1>7, <1>12, WholeKept
  <1>15. LinkNext(j, n, sector)'
    <2>1. NewFile(sector, headerAt[sector])'
      BY <1>3, <1>7, <1>10 DEF NewFile
    <2>2. WriteDir(1, Linked(j, n, sector))' = b
      BY <1>2, <1>7 DEF WriteDir, Linked
    <2>3. Mark({sector} \cup Range(headerAt[sector].dataSectors))' = c
      BY <1>2, <1>7, <1>10 DEF Mark
    <2>4. todo' = << WriteDir(1, Linked(j, n, sector))',
                     Mark({sector} \cup Range(headerAt[sector].dataSectors))' >>
      BY <1>6, <2>2, <2>3, Zenon
    <2>5. 1 \in 1..HeadPart(j)
      BY DirParts DEF Unused
    <2> QED  BY <1>14, <2>1, <2>4, <2>5, Zenon DEF LinkNext
  <1>16. Progress'
    BY <1>13, <1>15 DEF Progress, Creating
  <1>17. TypeOK'
    <2>1. JunkBlock \in Block
      BY Sizes DEF JunkBlock, Block
    <2>2. bytesAt' \in [Sector -> Block]
      BY <1>7, <2>1 DEF FInv, TypeOK
    <2>3. Len(todo') = 2
      BY <1>6
    <2> QED  BY <1>6, <1>7, <1>10, <2>2, <2>3 DEF FInv, TypeOK
  <1>18. HeadersSized'
    BY <1>8, <1>10 DEF FInv, HeadersSized
  <1>19. OpenHeadersCurrent'
    BY <1>6, <1>7, <1>12, <1>13 DEF FInv, OpenHeadersCurrent, SameHeaders
  <1> QED  BY <1>13, <1>16, <1>17, <1>18, <1>19 DEF FInv

-----------------------------------------------------------------------------
(* One sector of the directory is written, as it is to become with e for   *)
(* entry j.                                                                *)
EntryWritten(j, p, e) ==
    /\ UNCHANGED << freeMap, headerAt, bytesAt, openf, hurt >>
    /\ table' \in [1..NumDirEntries -> Entry]
    /\ \A i \in 1..NumDirEntries : i # j => table'[i] = table[i]
    /\ table'[j] = [inUse |-> IF HeadPart(j) = p THEN e.inUse ELSE table[j].inUse,
                    name |-> IF NamePart(j) = p THEN e.name ELSE table[j].name,
                    sector |-> IF HeadPart(j) = p THEN e.sector ELSE table[j].sector]
    /\ todo' = AfterWrite(todo)

LEMMA EntryFields ==
  ASSUME NEW x \in Entry
  PROVE  /\ x = [inUse |-> x.inUse, name |-> x.name, sector |-> x.sector]
         /\ x.inUse \in BOOLEAN /\ x.name \in Name /\ x.sector \in Sector
  BY DEF Entry

LEMMA DirStep ==
  ASSUME FInv, WriteBack, NEW p, NEW j \in 1..NumDirEntries, NEW e \in Entry,
         NEW new, new = [table EXCEPT ![j] = e], Head(todo) = WriteDir(p, new)
  PROVE  EntryWritten(j, p, e)
  <1>1. WriteDir(p, new).op = "dir" /\ WriteDir(p, new).part = p /\ WriteDir(p, new).new = new
    BY DEF WriteDir
  <1>2. WriteDirectory(new, p) /\ todo' = AfterWrite(todo) /\ UNCHANGED << openf, hurt >>
    BY <1>1 DEF WriteBack
  <1>3. /\ table' = [i \in 1..NumDirEntries |->
              [inUse |-> (IF HeadPart(i) = p THEN new[i] ELSE table[i]).inUse,
               name |-> (IF NamePart(i) = p THEN new[i] ELSE table[i]).name,
               sector |-> (IF HeadPart(i) = p THEN new[i] ELSE table[i]).sector]]
        /\ UNCHANGED << freeMap, headerAt, bytesAt >>
    BY <1>2, Zenon DEF WriteDirectory
  <1>4. table \in [1..NumDirEntries -> Entry]
    BY DEF FInv, TypeOK, Directory
  <1>5. new[j] = e /\ \A i \in 1..NumDirEntries : i # j => new[i] = table[i]
    BY <1>4
  <1>6. ASSUME NEW i \in 1..NumDirEntries, i # j PROVE table'[i] = table[i]
    <2>1. table'[i] = [inUse |-> table[i].inUse, name |-> table[i].name,
                       sector |-> table[i].sector]
      BY <1>3, <1>5, <1>6
    <2>2. table[i] \in Entry
      BY <1>4
    <2> QED  BY <2>1, <2>2, EntryFields
  <1>7. table'[j] = [inUse |-> IF HeadPart(j) = p THEN e.inUse ELSE table[j].inUse,
                     name |-> IF NamePart(j) = p THEN e.name ELSE table[j].name,
                     sector |-> IF HeadPart(j) = p THEN e.sector ELSE table[j].sector]
    BY <1>3, <1>5
  <1>8. table'[j] \in Entry
    <2>1. table[j] \in Entry
      BY <1>4
    <2>2. PICK u \in BOOLEAN, n \in Name, s \in Sector :
            table'[j] = [inUse |-> u, name |-> n, sector |-> s]
      BY <1>7, <2>1, EntryFields
    <2> QED  BY <2>2 DEF Entry
  <1>9. table' \in [1..NumDirEntries -> Entry]
    <2>1. \A i \in 1..NumDirEntries : table'[i] \in Entry
      BY <1>4, <1>6, <1>8
    <2>2. table' = [i \in 1..NumDirEntries |-> table'[i]]
      BY <1>3, Zenon
    <2> QED  BY <2>1, <2>2
  <1> QED  BY <1>2, <1>3, <1>6, <1>7, <1>9 DEF EntryWritten

LEMMA DirTodo ==
  ASSUME NEW p \in Nat, NEW new, NEW c
  PROVE  /\ AfterWrite(<< WriteDir(p, new) >>)
              = IF p < DirSectors THEN << WriteDir(p + 1, new) >> ELSE << >>
         /\ AfterWrite(<< WriteDir(p, new), c >>)
              = IF p < DirSectors THEN << WriteDir(p + 1, new), c >> ELSE << c >>
  <1>1. PICK b, b1 : b = WriteDir(p, new) /\ b1 = WriteDir(p + 1, new)
    OBVIOUS
  <1>2. b.op = "dir" /\ b.part = p /\ [b EXCEPT !.part = b.part + 1] = b1
    BY <1>1 DEF WriteDir
  <1>3. Head(<< b >>) = b /\ Tail(<< b >>) = << >>
    OBVIOUS
  <1>4. [<< b >> EXCEPT ![1].part = @ + 1] = << b1 >>
    BY <1>2
  <1>5. Head(<< b, c >>) = b /\ Tail(<< b, c >>) = << c >>
    OBVIOUS
  <1>6. [<< b, c >> EXCEPT ![1].part = @ + 1] = << b1, c >>
    BY <1>2
  <1>7. AfterWrite(<< b >>) = IF p < DirSectors THEN << b1 >> ELSE << >>
    BY <1>2, <1>3, <1>4, Zenon DEF AfterWrite
  <1>8. AfterWrite(<< b, c >>) = IF p < DirSectors THEN << b1, c >> ELSE << c >>
    BY <1>2, <1>5, <1>6, Zenon DEF AfterWrite
  <1> QED  BY <1>1, <1>7, <1>8, Zenon

(* The sector holds nothing that changes. *)
LEMMA NothingWritten ==
  ASSUME FInv, NEW j \in 1..NumDirEntries, NEW p, NEW e, EntryWritten(j, p, e),
         HeadPart(j) # p \/ (e.inUse = table[j].inUse /\ e.sector = table[j].sector),
         NamePart(j) # p \/ e.name = table[j].name
  PROVE  table' = table /\ UNCHANGED << disk, openf, hurt >>
  <1>1. table \in [1..NumDirEntries -> Entry]
    BY DEF FInv, TypeOK, Directory
  <1>2. table'[j] = [inUse |-> table[j].inUse, name |-> table[j].name, sector |-> table[j].sector]
    BY DEF EntryWritten
  <1>3. table'[j] = table[j]
    <2>1. table[j] \in Entry
      BY <1>1
    <2> QED  BY <1>2, <2>1, EntryFields
  <1>4. table' = table
    <2>1. \A i \in 1..NumDirEntries : table'[i] = table[i]
      BY <1>3 DEF EntryWritten
    <2>2. table' \in [1..NumDirEntries -> Entry]
      BY Zenon DEF EntryWritten
    <2>3. table' = [i \in 1..NumDirEntries |-> table'[i]]
      BY <2>2
    <2>4. table = [i \in 1..NumDirEntries |-> table[i]]
      BY <1>1
    <2>5. [i \in 1..NumDirEntries |-> table'[i]] = [i \in 1..NumDirEntries |-> table[i]]
      BY <2>1
    <2> QED  BY <2>3, <2>4, <2>5, Zenon
  <1> QED  BY <1>4 DEF EntryWritten, disk

(* A step that changes the directory. *)
LEMMA TableOnly ==
  ASSUME FInv, UNCHANGED << freeMap, headerAt, bytesAt, openf, hurt >>,
         table' \in [1..NumDirEntries -> Entry], Len(todo') <= 3,
         FilesDisjoint', Standard', hurt' \subseteq InUse', OpenHeadersCurrent', Progress'
  PROVE  FInv'
  <1>1. TypeOK'
    BY DEF FInv, TypeOK, Directory
  <1>2. HeadersSized'
    BY DEF FInv, HeadersSized
  <1> QED  BY <1>1, <1>2 DEF FInv

(* Names other than the new one stay apart while it is written. *)
LEMMA NamesStay ==
  ASSUME NEW j \in 1..NumDirEntries, NEW n, NewName(j, n),
         \A i \in 1..NumDirEntries : i # j => table'[i] = table[i],
         table'[j].name \in {table[j].name, n},
         NEW files \in SUBSET InUse, j \notin files, NamesApart(files)
  PROVE  /\ NamesApart(files)' /\ (table'[j].name = n => NamesApart({j})')
  <1>1. ASSUME NEW k \in files, NEW i \in 1..(k - 1) PROVE table'[i].name # table'[k].name
    <2>1. k \in 1..NumDirEntries /\ k # j /\ k \in InUse
      BY <1>1 DEF InUse
    <2>2. i \in 1..NumDirEntries
      BY <2>1, Sizes
    <2>3. table'[k] = table[k] /\ table[k].name # n /\ table[i].name # table[k].name
      BY <1>1, <2>1 DEF NewName, NamesApart
    <2> QED  BY <2>2, <2>3
  <1>2. ASSUME table'[j].name = n, NEW i \in 1..(j - 1) PROVE table'[i].name # table'[j].name
    <2>1. i \in 1..NumDirEntries /\ i # j /\ i < j
      BY Sizes
    <2>2. table[i].name # n
      BY <2>1 DEF NewName
    <2> QED  BY <1>2, <2>1, <2>2
  <1>3. NamesApart(files)'
    BY <1>1 DEF NamesApart
  <1>4. table'[j].name = n => NamesApart({j})'
    BY <1>2 DEF NamesApart
  <1> QED  BY <1>3, <1>4

(* The entries that are in use, but for entry j. *)
LEMMA OthersSame ==
  ASSUME NEW j \in 1..NumDirEntries, NEW p, NEW e, EntryWritten(j, p, e)
  PROVE  /\ InUse' \ {j} = InUse \ {j} /\ Sound' \ {j} = Sound \ {j}
         /\ \A n : NewName(j, n) => NewName(j, n)'
         /\ KeepsFiles(Sound \ {j})
  <1>1. \A i \in 1..NumDirEntries : i # j => table'[i] = table[i]
    BY DEF EntryWritten
  <1>2. InUse' \ {j} = InUse \ {j}
    BY <1>1 DEF InUse
  <1>3. Sound' \ {j} = Sound \ {j}
    BY <1>2 DEF Sound, EntryWritten
  <1>4. ASSUME NEW n, NewName(j, n) PROVE NewName(j, n)'
    BY <1>1, <1>2, <1>4 DEF NewName
  <1>5. SameHeaders(Sound \ {j})
    BY <1>1 DEF SameHeaders, Sound, InUse, EntryWritten
  <1> QED  BY <1>2, <1>3, <1>4, <1>5, FilesKept

(* The directory up to the head of the new entry is written: with the head *)
(* the file appears, whole.                                                *)
LEMMA LinkStep ==
  ASSUME FInv, WriteBack, NEW j \in Unused, NEW n \in Name, NEW sector \in Sector,
         NewName(j, n), LinkNext(j, n, sector)
  PROVE  FInv'
  <1>1. PICK hdr : hdr = headerAt[sector]
    OBVIOUS
  <1>2. PICK e, c : e = NewEntry(n, sector) /\ c = Mark({sector} \cup Range(hdr.dataSectors))
    OBVIOUS
  <1>3. PICK new : new = Linked(j, n, sector) /\ new = [table EXCEPT ![j] = e]
    BY <1>2 DEF Linked
  <1>4. PICK p \in 1..HeadPart(j) : todo = << WriteDir(p, new), c >>
    BY <1>1, <1>2, <1>3, Zenon DEF LinkNext
  <1>5. NewFile(sector, hdr) /\ Whole
    BY <1>1 DEF LinkNext
  <1>6. e \in Entry /\ e.inUse /\ e.name = n /\ e.sector = sector
    BY <1>2 DEF NewEntry, Entry
  <1>7. j \in 1..NumDirEntries /\ ~table[j].inUse /\ j \notin InUse
    BY DEF Unused, InUse
  <1>8. EntryWritten(j, p, e)
    <2>1. Head(todo) = WriteDir(p, new)
      BY <1>4
    <2> QED  BY <1>3, <1>6, <1>7, <2>1, DirStep
  <1>9. /\ p \in Nat /\ HeadPart(j) \in Nat /\ DirSectors \in Nat /\ p <= HeadPart(j)
        /\ HeadPart(j) <= NamePart(j) /\ NamePart(j) <= DirSectors /\ NamePart(j) \in Nat
    BY <1>7, DirParts
  <1>10. todo' = IF p < DirSectors THEN << WriteDir(p + 1, new), c >> ELSE << c >>
    <2>1. AfterWrite(<< WriteDir(p, new), c >>)
            = IF p < DirSectors THEN << WriteDir(p + 1, new), c >> ELSE << c >>
      <3>1. p \in Nat
        BY <1>9
      <3> QED  BY <3>1, DirTodo, Zenon
    <2>2. todo' = AfterWrite(todo)
      BY <1>8, Zenon DEF EntryWritten
    <2> QED  BY <1>4, <2>1, <2>2, Zenon
  <1>11. CASE p < HeadPart(j)
    <2>1. table' = table /\ UNCHANGED << disk, openf, hurt >>
      BY <1>7, <1>8, <1>9, <1>11, NothingWritten
    <2>2. UNCHANGED << freeMap, headerAt, bytesAt >> /\ SameHeaders(Sound)
      BY <2>1 DEF disk, SameHeaders
    <2>3. Unused' = Unused /\ NewName(j, n)'
      BY <2>1, <2>2, DirectorySame
    <2>4. Whole'
      BY <1>5, <2>1, <2>2, WholeKept
    <2>5. PICK q \in 1..HeadPart(j) : q = p + 1 /\ todo' = << WriteDir(q, new), c >>
      BY <1>9, <1>10, <1>11
    <2>6. LinkNext(j, n, sector)'
      <3>1. NewFile(sector, headerAt[sector])'
        BY <1>1, <1>5, <2>2 DEF NewFile
      <3>2. WriteDir(q, Linked(j, n, sector))' = WriteDir(q, new)
        BY <1>3, <2>1 DEF WriteDir, Linked
      <3>3. Mark({sector} \cup Range(headerAt[sector].dataSectors))' = c
        BY <1>1, <1>2, <2>2 DEF Mark
      <3>4. todo' = << WriteDir(q, Linked(j, n, sector))',
                       Mark({sector} \cup Range(headerAt[sector].dataSectors))' >>
        BY <2>5, <3>2, <3>3, Zenon
      <3> QED  BY <2>4, <2>5, <3>1, <3>4, Zenon DEF LinkNext
    <2>7. Progress'
      BY <2>3, <2>6 DEF Progress, Creating
    <2>8. Len(todo') = 2
      BY <2>5
    <2> QED  BY <2>1, <2>7, <2>8, TodoOnly
  <1>12. CASE p = HeadPart(j)
    <2>1. /\ UNCHANGED << freeMap, headerAt, bytesAt, openf, hurt >>
          /\ table' \in [1..NumDirEntries -> Entry]
          /\ \A i \in 1..NumDirEntries : i # j => table'[i] = table[i]
      BY <1>8 DEF EntryWritten
    <2>2. /\ table'[j].inUse /\ table'[j].sector = sector
          /\ table'[j].name = IF NamePart(j) = p THEN n ELSE table[j].name
      BY <1>6, <1>8, <1>12 DEF EntryWritten
    <2>3. /\ InUse' \ {j} = InUse \ {j} /\ Sound' \ {j} = Sound \ {j}
          /\ NewName(j, n)' /\ KeepsFiles(Sound \ {j})
      BY <1>7, <1>8, OthersSame
    <2>4. /\ InUse' = InUse \cup {j} /\ j \notin InUse /\ j \notin Sound /\ j \notin {1, 2}
          /\ Sound' = Sound \cup {j} /\ KeepsFiles(Sound)
      <3>1. j \in InUse' /\ j \notin hurt'
        BY <1>7, <2>1, <2>2 DEF InUse, FInv
      <3>2. j \in Sound' /\ j \notin Sound /\ 1 \in Sound /\ 2 \in Sound
        BY <1>7, <3>1 DEF Sound, FInv, Standard
      <3> QED  BY <1>7, <2>3, <3>1, <3>2
    <2>5. HeaderOf(j)' = hdr /\ FileSectors(j)' = {sector} \cup Range(hdr.dataSectors)
      BY <1>1, <2>1, <2>2 DEF HeaderOf, FileSectors
    <2>6. SystemSectors \subseteq freeMap /\ \A i \in Sound : FileSectors(i) \subseteq freeMap
      BY <1>5, InMap DEF Whole
    <2>7. /\ hdr \in Header /\ sector \in Sector \ freeMap /\ IsInjective(hdr.dataSectors)
          /\ Range(hdr.dataSectors) \cap (freeMap \cup {sector}) = {}
      BY <1>5 DEF NewFile
    <2>8. FileSectors(j)' \cap freeMap = {}
      BY <2>5, <2>7
    <2>9. FilesDisjoint'
      <3>1. \A i \in Sound' : HeaderOf(i)' # NULL
        <4>1. hdr # NULL
          BY <2>7, NullApart
        <4> QED  BY <2>4, <2>5, <4>1 DEF FInv, FilesDisjoint, KeepsFiles
      <3>2. \A i \in Sound' : /\ IsInjective(HeaderOf(i)'.dataSectors)
                              /\ table'[i].sector \notin Range(HeaderOf(i)'.dataSectors)
        BY <2>2, <2>4, <2>5, <2>7 DEF FInv, FilesDisjoint, KeepsFiles
      <3>3. \A i \in Sound' : FileSectors(i)' \cap SystemSectors = {}
        BY <2>4, <2>6, <2>8 DEF FInv, FilesDisjoint, KeepsFiles
      <3>4. \A i \in Sound', k \in Sound' : i # k => FileSectors(i)' \cap FileSectors(k)' = {}
        BY <2>4, <2>6, <2>8 DEF FInv, FilesDisjoint, KeepsFiles
      <3> QED  BY <3>1, <3>2, <3>3, <3>4 DEF FilesDisjoint
    <2>10. PICK files \in SUBSET InUse : files = Sound /\ files = Sound' \ {j} /\ j \notin files
      BY <2>4 DEF Sound
    <2>11. NamesApart(files)' /\ (table'[j].name = n => NamesApart({j})')
      <3>1. NamesApart(files)
        BY <1>5, <2>10 DEF Whole
      <3> QED  BY <1>7, <2>1, <2>2, <2>10, <3>1, NamesStay
    <2>12. MapExactFor(files)'
      BY <1>5, <2>1, <2>4, <2>10, MapKept DEF Whole
    <2>13. WholeBut(j)'
      BY <2>4, <2>10, <2>11, <2>12 DEF WholeBut, MapExactFor, NamesApart
    <2>14. Mark(FileSectors(j))' = c
      BY <1>2, <2>1, <2>5 DEF Mark
    <2>15. Progress' /\ Len(todo') <= 3
      <3>1. CASE p < DirSectors
        <4>1. PICK q \in (HeadPart(j) + 1)..DirSectors :
                q = p + 1 /\ todo' = << WriteDir(q, new), c >>
          BY <1>9, <1>10, <1>12, <3>1
        <4>2. Linked(j, n, table[j].sector)' = new
          <5>1. table \in [1..NumDirEntries -> Entry]
            BY DEF FInv, TypeOK, Directory
          <5>2. [table' EXCEPT ![j] = e] = [table EXCEPT ![j] = e]
            BY <2>1, <5>1
          <5> QED  BY <1>2, <1>3, <2>2, <5>2 DEF Linked, NewEntry
        <4>3. todo' = << WriteDir(q, Linked(j, n, table[j].sector))', Mark(FileSectors(j))' >>
          <5>1. WriteDir(q, Linked(j, n, table[j].sector))' = WriteDir(q, new)
            BY <4>2 DEF WriteDir
          <5> QED  BY <2>14, <4>1, <5>1, Zenon
        <4>4. q > NamePart(j) => table'[j].name = n
          BY <1>9, <1>12, <2>2, <4>1
        <4>5. NameNext(j, n)'
          BY <2>13, <4>3, <4>4, Zenon DEF NameNext
        <4>6. Len(todo') = 2
          BY <4>1
        <4> QED  BY <2>3, <2>4, <4>5, <4>6 DEF Progress, Creating
      <3>2. CASE ~(p < DirSectors)
        <4>1. todo' = << c >> /\ NamePart(j) = p
          BY <1>9, <1>10, <1>12, <3>2
        <4>2. MarkNext(j)'
          BY <2>2, <2>11, <2>13, <2>14, <4>1 DEF MarkNext
        <4>3. Len(todo') = 1
          BY <4>1
        <4> QED  BY <2>4, <4>2, <4>3 DEF Progress, Creating
      <3> QED  BY <3>1, <3>2
    <2>16. Standard' /\ hurt' \subseteq InUse'
      BY <2>1, <2>4, Sizes DEF FInv, Standard
    <2>17. OpenHeadersCurrent'
      BY <2>1, <2>4 DEF FInv, OpenHeadersCurrent, KeepsFiles
    <2> QED  BY <2>1, <2>9, <2>15, <2>16, <2>17, TableOnly
  <1> QED  BY <1>9, <1>11, <1>12

(* The rest of the directory is written, and with it the name of the new   *)
(* entry, if it is not in the sector of the head.                          *)
LEMMA NameStep ==
  ASSUME FInv, WriteBack, NEW j \in Sound, NEW n \in Name, NewName(j, n), NameNext(j, n)
  PROVE  FInv'
  <1>1. PICK sector \in Sector : sector = table[j].sector
    BY FileTyped DEF FInv
  <1>b. PICK c : c = Mark(FileSectors(j))
    OBVIOUS
  <1>a. PICK e : e = NewEntry(n, sector)
    OBVIOUS
  <1>2. e = NewEntry(n, sector) /\ e \in Entry /\ e.inUse /\ e.name = n /\ e.sector = sector
    BY <1>a DEF NewEntry, Entry
  <1>3. PICK new : new = Linked(j, n, sector) /\ new = [table EXCEPT ![j] = e]
    BY <1>2 DEF Linked
  <1>4. PICK p \in (HeadPart(j) + 1)..DirSectors :
          todo = << WriteDir(p, new), c >> /\ (p > NamePart(j) => table[j].name = n)
    BY <1>1, <1>3, <1>b, Zenon DEF NameNext
  <1>5. WholeBut(j)
    BY DEF NameNext
  <1>7. j \in 1..NumDirEntries /\ table[j].inUse /\ j \notin {1, 2}
    BY <1>5 DEF Sound, InUse, WholeBut
  <1>8. EntryWritten(j, p, e)
    <2>1. Head(todo) = WriteDir(p, new)
      BY <1>4
    <2> QED  BY <1>2, <1>3, <1>7, <2>1, DirStep
  <1>9. /\ p \in Nat /\ HeadPart(j) \in Nat /\ DirSectors \in Nat /\ p > HeadPart(j)
        /\ NamePart(j) <= DirSectors /\ NamePart(j) \in Nat /\ p <= DirSectors
    BY <1>7, DirParts
  <1>10. todo' = IF p < DirSectors THEN << WriteDir(p + 1, new), c >> ELSE << c >>
    <2>1. AfterWrite(<< WriteDir(p, new), c >>)
            = IF p < DirSectors THEN << WriteDir(p + 1, new), c >> ELSE << c >>
      <3>1. p \in Nat
        BY <1>9
      <3> QED  BY <3>1, DirTodo, Zenon
    <2>2. todo' = AfterWrite(todo)
      BY <1>8, Zenon DEF EntryWritten
    <2> QED  BY <1>4, <2>1, <2>2, Zenon
  <1>11. /\ UNCHANGED << freeMap, headerAt, bytesAt, openf, hurt >>
         /\ table' \in [1..NumDirEntries -> Entry]
         /\ \A i \in 1..NumDirEntries : i # j => table'[i] = table[i]
    BY <1>8 DEF EntryWritten
  <1>12. /\ table'[j].inUse = table[j].inUse /\ table'[j].sector = sector
         /\ table'[j].name = IF NamePart(j) = p THEN n ELSE table[j].name
    BY <1>1, <1>2, <1>8, <1>9 DEF EntryWritten
  <1>13. /\ InUse' \ {j} = InUse \ {j} /\ Sound' \ {j} = Sound \ {j} /\ NewName(j, n)'
    BY <1>7, <1>8, OthersSame
  <1>14. InUse' = InUse /\ Sound' = Sound
    <2>1. j \in InUse' /\ j \in InUse
      BY <1>7, <1>12 DEF InUse
    <2>2. InUse' = InUse
      BY <1>13, <2>1
    <2> QED  BY <1>11, <2>2 DEF Sound
  <1>15. KeepsFiles(Sound)
    <2>1. SameHeaders(Sound)
      BY <1>1, <1>11, <1>12 DEF SameHeaders, Sound, InUse
    <2> QED  BY <2>1, FilesKept
  <1>16. FilesDisjoint'
    <2>1. PICK files \in SUBSET Sound : files = Sound
      OBVIOUS
    <2> QED  BY <1>14, <1>15, <2>1, DisjointKept DEF FInv
  <1>17. PICK files \in SUBSET InUse : files = Sound \ {j} /\ files = Sound' \ {j}
    BY <1>14 DEF Sound
  <1>18. NamesApart(files)' /\ (table'[j].name = n => NamesApart({j})')
    <2>1. NamesApart(files) /\ j \notin files
      BY <1>5, <1>17 DEF WholeBut
    <2> QED  BY <1>7, <1>11, <1>12, <1>17, <2>1, NamesStay
  <1>19. MapExactFor(files)'
    <2>1. MapExactFor(files) /\ KeepsFiles(files)
      BY <1>5, <1>15, <1>17 DEF WholeBut, KeepsFiles
    <2> QED  BY <1>11, <2>1, MapKept
  <1>20. WholeBut(j)'
    BY <1>7, <1>14, <1>17, <1>18, <1>19 DEF WholeBut, MapExactFor, NamesApart
  <1>21. Mark(FileSectors(j))' = c
    BY <1>b, <1>11, <1>15 DEF Mark, KeepsFiles
  <1>22. p >= NamePart(j) => table'[j].name = n
    BY <1>4, <1>9, <1>12
  <1>23. Progress' /\ Len(todo') <= 3
    <2>1. CASE p < DirSectors
      <3>1. PICK q \in (HeadPart(j) + 1)..DirSectors :
              q = p + 1 /\ todo' = << WriteDir(q, new), c >>
        BY <1>9, <1>10, <2>1
      <3>2. Linked(j, n, table[j].sector)' = new
        <4>1. table \in [1..NumDirEntries -> Entry]
          BY DEF FInv, TypeOK, Directory
        <4>2. [table' EXCEPT ![j] = e] = [table EXCEPT ![j] = e]
          BY <1>11, <4>1
        <4> QED  BY <1>2, <1>3, <1>12, <4>2 DEF Linked, NewEntry
      <3>3. todo' = << WriteDir(q, Linked(j, n, table[j].sector))', Mark(FileSectors(j))' >>
        <4>1. WriteDir(q, Linked(j, n, table[j].sector))' = WriteDir(q, new)
          BY <3>2 DEF WriteDir
        <4> QED  BY <1>21, <3>1, <4>1, Zenon
      <3>4. q > NamePart(j) => table'[j].name = n
        BY <1>9, <1>22, <3>1
      <3>5. NameNext(j, n)'
        BY <1>20, <3>3, <3>4, Zenon DEF NameNext
      <3>6. Len(todo') = 2
        BY <3>1
      <3> QED  BY <1>13, <1>14, <3>5, <3>6 DEF Progress, Creating
    <2>2. CASE ~(p < DirSectors)
      <3>1. todo' = << c >> /\ p >= NamePart(j)
        BY <1>9, <1>10, <2>2
      <3>2. MarkNext(j)'
        BY <1>18, <1>20, <1>21, <1>22, <3>1 DEF MarkNext
      <3>3. Len(todo') = 1
        BY <3>1
      <3> QED  BY <1>14, <3>2, <3>3 DEF Progress, Creating
    <2> QED  BY <2>1, <2>2
  <1>24. Standard' /\ hurt' \subseteq InUse'
    BY <1>7, <1>11, <1>14, Sizes DEF FInv, Standard
  <1>25. OpenHeadersCurrent'
    BY <1>11, <1>14, <1>15 DEF FInv, OpenHeadersCurrent, KeepsFiles
  <1> QED  BY <1>11, <1>16, <1>23, <1>24, <1>25, TableOnly

(* A write of the map leaves the files; what is left is to see that the    *)
(* map is the one said.                                                    *)
LEMMA MapStep ==
  ASSUME FInv, WriteBack, NEW c, NEW new \in SUBSET Sector,
         Head(todo) = c, c.op = "map", c.new = new, Len(Tail(todo)) <= 3
  PROVE  /\ freeMap' = new /\ todo' = Tail(todo) /\ Sound' = Sound /\ KeepsFiles(Sound)
         /\ UNCHANGED << table, headerAt, bytesAt, openf, hurt >>
         /\ \A files : NamesApart(files)' <=> NamesApart(files)
         /\ Progress' => FInv'
  <1>1. WriteMap(new) /\ todo' = Tail(todo) /\ openf' = openf /\ hurt' = hurt
    BY DEF WriteBack, AfterWrite
  <1>2. freeMap' = new /\ table' = table /\ headerAt' = headerAt /\ bytesAt' = bytesAt
    BY <1>1 DEF WriteMap
  <1>3. SameHeaders(Sound)
    BY <1>2 DEF SameHeaders
  <1>4. /\ Sound' = Sound /\ KeepsFiles(Sound) /\ FilesDisjoint' /\ Standard'
        /\ hurt' \subseteq InUse' /\ \A files : NamesApart(files)' <=> NamesApart(files)
    BY <1>1, <1>2, <1>3, DirectorySame
  <1>5. TypeOK'
    BY <1>1, <1>2 DEF FInv, TypeOK, PersistentBitmap
  <1>6. HeadersSized'
    BY <1>2 DEF FInv, HeadersSized
  <1>7. OpenHeadersCurrent'
    BY <1>1, <1>2, <1>4 DEF FInv, OpenHeadersCurrent
  <1> QED  BY <1>1, <1>2, <1>4, <1>5, <1>6, <1>7 DEF FInv

LEMMA MarkStep ==
  ASSUME FInv, WriteBack, NEW j \in Sound, MarkNext(j)
  PROVE  FInv'
  <1>1. PICK c : c = Mark(FileSectors(j))
    OBVIOUS
  <1>2. /\ todo = << c >> /\ MapExactFor(Sound \ {j})
        /\ NamesApart(Sound \ {j}) /\ NamesApart({j})
    BY <1>1 DEF MarkNext, WholeBut
  <1>3. Head(todo) = c /\ Tail(todo) = << >>
    BY <1>2
  <1>4. PICK new \in SUBSET Sector : new = freeMap \cup FileSectors(j)
    BY FileTyped DEF FInv, TypeOK, PersistentBitmap
  <1>5. c.op = "map" /\ c.new = new /\ Len(Tail(todo)) <= 3
    <2>1. c.op = "map" /\ c.new = new
      BY <1>1, <1>4 DEF Mark
    <2>2. Len(<< >>) <= 3
      OBVIOUS
    <2> QED  BY <1>3, <2>1, <2>2, Zenon
  <1>6. /\ freeMap' = new /\ todo' = << >> /\ (Progress' => FInv')
        /\ Sound' = Sound /\ KeepsFiles(Sound) /\ table' = table
    BY <1>3, <1>5, MapStep
  <1>7. MapExactFor(Sound)'
    <2>1. \A i \in Sound : FileSectors(i)' = FileSectors(i)
      BY <1>6 DEF KeepsFiles
    <2>2. PICK V : V = UNION {FileSectors(i)' : i \in Sound'}
      OBVIOUS
    <2>3. \A t : t \in V <=> \E i \in Sound : t \in FileSectors(i)
      BY <1>6, <2>1, <2>2
    <2>4. \A t : t \in freeMap <=> \/ t \in SystemSectors
                                  \/ \E i \in Sound \ {j} : t \in FileSectors(i)
      BY <1>2 DEF MapExactFor
    <2>5. \A t : t \in new <=> t \in SystemSectors \/ t \in V
      BY <1>4, <2>3, <2>4
    <2>6. new = SystemSectors \cup V
      BY <2>5
    <2> QED  BY <1>6, <2>2, <2>6 DEF MapExactFor
  <1>8. NamesApart(Sound)'
    BY <1>2, <1>6 DEF NamesApart
  <1> QED  BY <1>6, <1>7, <1>8 DEF Progress, Quiet, Whole

LEMMA UnmarkStep ==
  ASSUME FInv, WriteBack, NEW j \in Sound, Removable(j), UnmarkNext(j)
  PROVE  FInv'
  <1>1. PICK b, c : c = Unmark(FileSectors(j)) /\ b = WriteDir(1, Unlinked(j))
    OBVIOUS
  <1>2. todo = << c, b >> /\ MapExactFor(Sound) /\ NamesApart(Sound)
    BY <1>1 DEF UnmarkNext, Whole
  <1>3. Head(todo) = c /\ Tail(todo) = << b >>
    BY <1>2
  <1>4. PICK new \in SUBSET Sector : new = freeMap \ FileSectors(j)
    BY DEF FInv, TypeOK, PersistentBitmap
  <1>5. c.op = "map" /\ c.new = new /\ Len(Tail(todo)) <= 3
    BY <1>1, <1>3, <1>4 DEF Unmark
  <1>6. /\ freeMap' = new /\ todo' = << b >> /\ (Progress' => FInv')
        /\ Sound' = Sound /\ KeepsFiles(Sound) /\ table' = table /\ openf' = openf
    BY <1>3, <1>5, MapStep
  <1>7. MapExactFor(Sound \ {j})'
    <2>1. /\ FileSectors(j) \cap SystemSectors = {}
          /\ \A i \in Sound \ {j} : FileSectors(i) \cap FileSectors(j) = {}
      BY DEF FInv, FilesDisjoint
    <2>2. UNION {FileSectors(i)' : i \in Sound' \ {j}} = UNION {FileSectors(i) : i \in Sound \ {j}}
      BY <1>6 DEF KeepsFiles
    <2>3. (SystemSectors \cup UNION {FileSectors(i) : i \in Sound}) \ FileSectors(j)
            = SystemSectors \cup UNION {FileSectors(i) : i \in Sound \ {j}}
      BY <2>1
    <2> QED  BY <1>2, <1>4, <1>6, <2>2, <2>3 DEF MapExactFor
  <1>8. WholeBut(j)' /\ NamesApart({j})'
    <2>1. NamesApart(Sound \ {j})' /\ NamesApart({j})'
      BY <1>2, <1>6 DEF NamesApart
    <2> QED  BY <1>6, <1>7, <2>1 DEF WholeBut, Removable
  <1>9. UnlinkNext(j)'
    <2>1. WriteDir(1, Unlinked(j))' = b
      BY <1>1, <1>6 DEF WriteDir, Unlinked
    <2>2. 1 \in 1..HeadPart(j)
      BY FileTyped, DirParts DEF FInv
    <2>3. todo' = << WriteDir(1, Unlinked(j))' >>
      BY <1>6, <2>1
    <2> QED  BY <1>8, <2>2, <2>3, Zenon DEF UnlinkNext
  <1>10. Removable(j)'
    BY <1>6 DEF Removable, IsOpen
  <1> QED  BY <1>6, <1>9, <1>10 DEF Progress, Removing

(* The directory up to the head of the entry is written: with the head the *)
(* file is gone.                                                           *)
LEMMA UnlinkStep ==
  ASSUME FInv, WriteBack, NEW j \in Sound, Removable(j), UnlinkNext(j)
  PROVE  FInv'
  <1>1. PICK t \in Entry : t = table[j]
    BY FileTyped DEF FInv
  <1>a. PICK e : e = [t EXCEPT !.inUse = FALSE]
    OBVIOUS
  <1>2. e \in Entry /\ e.inUse = FALSE /\ e.name = t.name /\ e.sector = t.sector
    BY <1>a DEF Entry
  <1>3. PICK new : new = Unlinked(j) /\ new = [table EXCEPT ![j] = e]
    BY <1>1, <1>a DEF Unlinked
  <1>4. PICK p \in 1..HeadPart(j) : todo = << WriteDir(p, new) >>
    BY <1>3, Zenon DEF UnlinkNext
  <1>5. WholeBut(j) /\ NamesApart({j})
    BY DEF UnlinkNext
  <1>7. j \in 1..NumDirEntries /\ j \in InUse /\ j \notin hurt
    BY DEF Sound, InUse
  <1>8. EntryWritten(j, p, e)
    <2>1. Head(todo) = WriteDir(p, new)
      BY <1>4
    <2> QED  BY <1>2, <1>3, <1>7, <2>1, DirStep
  <1>9. /\ p \in Nat /\ HeadPart(j) \in Nat /\ DirSectors \in Nat /\ p <= HeadPart(j)
        /\ HeadPart(j) <= NamePart(j) /\ NamePart(j) <= DirSectors /\ NamePart(j) \in Nat
    BY <1>7, DirParts
  <1>10. todo' = IF p < DirSectors THEN << WriteDir(p + 1, new) >> ELSE << >>
    <2>1. AfterWrite(<< WriteDir(p, new) >>)
            = IF p < DirSectors THEN << WriteDir(p + 1, new) >> ELSE << >>
      <3>1. p \in Nat
        BY <1>9
      <3> QED  BY <3>1, DirTodo, Zenon
    <2>2. todo' = AfterWrite(todo)
      BY <1>8, Zenon DEF EntryWritten
    <2> QED  BY <1>4, <2>1, <2>2, Zenon
  <1>11. CASE p < HeadPart(j)
    <2>1. table' = table /\ UNCHANGED << disk, openf, hurt >>
      BY <1>7, <1>8, <1>9, <1>11, NothingWritten
    <2>2. UNCHANGED << freeMap, headerAt, bytesAt >> /\ SameHeaders(Sound)
      BY <2>1 DEF disk, SameHeaders
    <2>3. Sound' = Sound /\ NamesApart({j})'
      BY <1>5, <2>1, <2>2, DirectorySame
    <2>4. WholeBut(j)'
      BY <1>5, <2>1, <2>2, WholeKept
    <2>5. PICK q \in 1..HeadPart(j) : q = p + 1 /\ todo' = << WriteDir(q, new) >>
      BY <1>9, <1>10, <1>11
    <2>6. UnlinkNext(j)'
      <3>1. WriteDir(q, Unlinked(j))' = WriteDir(q, new)
        BY <1>3, <2>1 DEF WriteDir, Unlinked
      <3>2. todo' = << WriteDir(q, Unlinked(j))' >>
        BY <2>5, <3>1, Zenon
      <3> QED  BY <2>3, <2>4, <3>2, Zenon DEF UnlinkNext
    <2>7. Removable(j)'
      BY <2>1 DEF Removable, IsOpen
    <2>8. Progress'
      BY <2>3, <2>6, <2>7 DEF Progress, Removing
    <2>9. Len(todo') = 1
      BY <2>5
    <2> QED  BY <2>1, <2>8, <2>9, TodoOnly
  <1>12. CASE p = HeadPart(j)
    <2>1. /\ UNCHANGED << freeMap, headerAt, bytesAt, openf, hurt >>
          /\ table' \in [1..NumDirEntries -> Entry]
          /\ \A i \in 1..NumDirEntries : i # j => table'[i] = table[i]
      BY <1>8 DEF EntryWritten
    <2>2. table'[j] = [inUse |-> FALSE, name |-> t.name, sector |-> t.sector]
      <3>1. table'[j] = [inUse |-> e.inUse, name |-> t.name, sector |-> e.sector]
        BY <1>1, <1>2, <1>8, <1>12 DEF EntryWritten
      <3> QED  BY <1>2, <3>1
    <2>3. /\ InUse' \ {j} = InUse \ {j} /\ Sound' \ {j} = Sound \ {j}
          /\ KeepsFiles(Sound \ {j})
      BY <1>7, <1>8, OthersSame
    <2>4. InUse' = InUse \ {j} /\ Sound' = Sound \ {j} /\ j \notin {1, 2}
      <3>1. j \notin InUse'
        BY <2>2 DEF InUse
      <3>2. j \notin Sound'
        BY <3>1 DEF Sound
      <3> QED  BY <2>3, <3>1, <3>2 DEF Removable
    <2>5. PICK files \in SUBSET Sound : files = Sound' /\ files = Sound \ {j}
      BY <2>4
    <2>6. FilesDisjoint'
      BY <2>3, <2>5, DisjointKept DEF FInv
    <2>7. MapExactFor(files)'
      <3>1. MapExactFor(files) /\ KeepsFiles(files)
        BY <1>5, <2>3, <2>5 DEF WholeBut
      <3> QED  BY <2>1, <3>1, MapKept
    <2>8. NamesApart(files)'
      <3>1. NamesApart(files)
        BY <1>5, <2>5 DEF WholeBut
      <3>2. table'[j].name = table[j].name
        BY <1>1, <2>2
      <3>3. \A i \in 1..NumDirEntries : table'[i].name = table[i].name
        BY <2>1, <3>2
      <3>4. \A k \in files : k \in 1..NumDirEntries /\ \A i \in 1..(k - 1) : i \in 1..NumDirEntries
        BY <2>5, Sizes DEF Sound, InUse
      <3>5. ASSUME NEW k \in files, NEW i \in 1..(k - 1) PROVE table'[i].name # table'[k].name
        <4>1. i \in 1..NumDirEntries /\ k \in 1..NumDirEntries
          BY <3>4
        <4>2. table[i].name # table[k].name
          BY <3>1 DEF NamesApart
        <4> QED  BY <3>3, <4>1, <4>2
      <3> QED  BY <3>5 DEF NamesApart
    <2>9. Whole'
      BY <2>5, <2>7, <2>8 DEF Whole, MapExactFor, NamesApart
    <2>10. Progress' /\ Len(todo') <= 3
      <3>1. CASE p < DirSectors
        <4>1. PICK q \in 1..DirSectors : q = p + 1 /\ todo' = << WriteDir(q, new) >>
          BY <1>9, <1>10, <3>1
        <4>2. table' = new
          <5>1. table \in [1..NumDirEntries -> Entry]
            BY DEF FInv, TypeOK, Directory
          <5>2. e = [inUse |-> FALSE, name |-> t.name, sector |-> t.sector]
            BY <1>2, EntryFields
          <5>3. \A i \in 1..NumDirEntries : table'[i] = new[i]
            BY <1>3, <2>1, <2>2, <5>1, <5>2
          <5>4. new \in [1..NumDirEntries -> Entry]
            BY <1>2, <1>3, <5>1
          <5>5. new = [i \in 1..NumDirEntries |-> new[i]]
            BY <5>4
          <5>6. table' = [i \in 1..NumDirEntries |-> table'[i]]
            BY <2>1
          <5>7. [i \in 1..NumDirEntries |-> table'[i]] = [i \in 1..NumDirEntries |-> new[i]]
            BY <5>3
          <5> QED  BY <5>5, <5>6, <5>7, Zenon
        <4>3. WriteDir(q, table)' = WriteDir(q, new)
          BY <4>2 DEF WriteDir
        <4>4. RestNext'
          BY <2>9, <4>1, <4>3, Zenon DEF RestNext
        <4>5. Len(todo') = 1
          BY <4>1
        <4> QED  BY <4>4, <4>5 DEF Progress, Removing
      <3>2. CASE ~(p < DirSectors)
        <4>1. todo' = << >>
          BY <1>10, <3>2
        <4> QED  BY <2>9, <4>1 DEF Progress, Quiet
      <3> QED  BY <3>1, <3>2
    <2>11. Standard' /\ hurt' \subseteq InUse'
      BY <1>7, <2>1, <2>4, Sizes DEF FInv, Standard
    <2>12. OpenHeadersCurrent'
      <3>1. \A k \in Slot : openf[k] # NULL => openf[k].of # table[j].sector
        BY DEF Removable, IsOpen
      <3>2. \A k \in Slot : openf[k] # NULL =>
              \E i \in Sound' : table'[i].sector = openf[k].of
        BY <2>3, <2>4, <3>1 DEF FInv, OpenHeadersCurrent, KeepsFiles
      <3>3. \A k \in Slot : openf[k] # NULL => headerAt'[openf[k].of] = openf[k].hdr
        BY <2>1 DEF FInv, OpenHeadersCurrent
      <3> QED  BY <2>1, <3>2, <3>3 DEF OpenHeadersCurrent
    <2> QED  BY <2>1, <2>6, <2>10, <2>11, <2>12, TableOnly
  <1> QED  BY <1>9, <1>11, <1>12

LEMMA RestStep ==
  ASSUME FInv, WriteBack, RestNext
  PROVE  FInv'
  <1>1. PICK p \in 1..DirSectors : todo = << WriteDir(p, table) >>
    BY DEF RestNext
  <1>2. Whole
    BY DEF RestNext
  <1>3. PICK j \in 1..NumDirEntries, e \in Entry : e = table[j]
    <2>1. 1 \in 1..NumDirEntries /\ table[1] \in Entry
      BY Sizes DEF FInv, TypeOK, Directory
    <2> QED  BY <2>1
  <1>4. EntryWritten(j, p, e)
    <2>1. table = [table EXCEPT ![j] = e]
      BY <1>3 DEF FInv, TypeOK, Directory
    <2>2. Head(todo) = WriteDir(p, table)
      BY <1>1
    <2> QED  BY <2>1, <2>2, DirStep
  <1>5. table' = table /\ UNCHANGED << disk, openf, hurt >>
    BY <1>3, <1>4, NothingWritten
  <1>6. p \in Nat /\ DirSectors \in Nat /\ p <= DirSectors
    BY DirParts
  <1>7. todo' = IF p < DirSectors THEN << WriteDir(p + 1, table) >> ELSE << >>
    <2>1. AfterWrite(<< WriteDir(p, table) >>)
            = IF p < DirSectors THEN << WriteDir(p + 1, table) >> ELSE << >>
      <3>1. p \in Nat
        BY <1>6
      <3> QED  BY <3>1, DirTodo, Zenon
    <2>2. todo' = AfterWrite(todo)
      BY <1>4, Zenon DEF EntryWritten
    <2> QED  BY <1>1, <2>1, <2>2, Zenon
  <1>8. Whole'
    <2>1. UNCHANGED << freeMap, headerAt >> /\ SameHeaders(Sound)
      BY <1>5 DEF disk, SameHeaders
    <2> QED  BY <1>2, <1>5, <2>1, WholeKept
  <1>9. Progress' /\ Len(todo') <= 3
    <2>1. CASE p < DirSectors
      <3>1. PICK q \in 1..DirSectors : q = p + 1 /\ todo' = << WriteDir(q, table) >>
        BY <1>6, <1>7, <2>1
      <3>2. WriteDir(q, table)' = WriteDir(q, table)
        BY <1>5 DEF WriteDir
      <3>3. RestNext'
        BY <1>8, <3>1, <3>2, Zenon DEF RestNext
      <3>4. Len(todo') = 1
        BY <3>1
      <3> QED  BY <3>3, <3>4 DEF Progress, Removing
    <2>2. CASE ~(p < DirSectors)
      <3>1. todo' = << >>
        BY <1>7, <2>2
      <3> QED  BY <1>8, <3>1 DEF Progress, Quiet
    <2> QED  BY <2>1, <2>2
  <1> QED  BY <1>5, <1>9, TodoOnly

LEMMA WriteBackStep ==
  ASSUME FInv, WriteBack PROVE FInv'
  <1>1. ~Quiet /\ Progress
    BY DEF WriteBack, FInv
  <1>2. CASE Creating
    <2>1. CASE \E j \in Unused, n \in Name, sector \in Sector :
                 NewName(j, n) /\ (HeaderNext(j, n, sector) \/ LinkNext(j, n, sector))
      BY <2>1, HeaderStep, LinkStep
    <2>2. CASE \E j \in Sound, n \in Name : NewName(j, n) /\ NameNext(j, n)
      BY <2>2, NameStep
    <2>3. CASE \E j \in Sound : MarkNext(j)
      BY <2>3, MarkStep
    <2> QED  BY <1>2, <2>1, <2>2, <2>3 DEF Creating
  <1>3. CASE Removing
    <2>1. CASE \E j \in Sound : Removable(j) /\ (UnmarkNext(j) \/ UnlinkNext(j))
      BY <2>1, UnmarkStep, UnlinkStep
    <2> QED  BY <1>3, <2>1, RestStep DEF Removing
  <1> QED  BY <1>1, <1>2, <1>3 DEF Progress

LEMMA NextFInv ==
  ASSUME ~RemoveOpen, FInv, [Next]_vars PROVE FInv'
  <1>1. CASE UNCHANGED vars
    <2>1. /\ UNCHANGED << freeMap, table, headerAt, bytesAt, openf, todo, hurt >>
          /\ UNCHANGED << disk, openf, hurt >>
      BY <1>1 DEF vars, disk
    <2>2. SameHeaders(Sound)
      BY <2>1 DEF SameHeaders
    <2>3. /\ Sound' = Sound /\ Unused' = Unused /\ KeepsFiles(Sound)
          /\ \A files : NamesApart(files)' <=> NamesApart(files)
          /\ \A j, n : NewName(j, n)' <=> NewName(j, n)
      BY <2>1, <2>2, DirectorySame
    <2>4. (Whole => Whole') /\ \A j : WholeBut(j) => WholeBut(j)'
      BY <2>1, <2>2, WholeKept
    <2>5. \A j : Removable(j)' <=> Removable(j)
      BY <2>1, Zenon DEF Removable, IsOpen
    <2>6. \A sector, hdr : NewFile(sector, hdr)' <=> NewFile(sector, hdr)
      BY <2>1, Zenon DEF NewFile
    <2>7. \A j, n, sector : Linked(j, n, sector)' = Linked(j, n, sector)
      BY <2>1, Zenon DEF Linked
    <2>8. /\ \A j : Unlinked(j)' = Unlinked(j) /\ FileSectors(j)' = FileSectors(j)
          /\ \A sectors : Mark(sectors)' = Mark(sectors) /\ Unmark(sectors)' = Unmark(sectors)
      <3>1. \A j : HeaderOf(j)' = HeaderOf(j)
        BY <2>1, Zenon DEF HeaderOf
      <3> QED  BY <2>1, <3>1, Zenon DEF Unlinked, FileSectors, Mark, Unmark
    <2>9. \A j, n, sector : HeaderNext(j, n, sector) => HeaderNext(j, n, sector)'
      BY <2>1, <2>4, <2>6, <2>7, <2>8, Zenon DEF HeaderNext, WriteDir
    <2>10. \A j, n, sector : LinkNext(j, n, sector) => LinkNext(j, n, sector)'
      BY <2>1, <2>4, <2>6, <2>7, <2>8, Zenon DEF LinkNext, WriteDir
    <2>11. \A j, n : NameNext(j, n) => NameNext(j, n)'
      BY <2>1, <2>4, <2>7, <2>8, Zenon DEF NameNext, WriteDir
    <2>12. \A j : MarkNext(j) => MarkNext(j)'
      BY <2>1, <2>3, <2>4, <2>8, Zenon DEF MarkNext
    <2>13. \A j : UnmarkNext(j) => UnmarkNext(j)'
      BY <2>1, <2>4, <2>8, Zenon DEF UnmarkNext, WriteDir
    <2>14. \A j : UnlinkNext(j) => UnlinkNext(j)'
      BY <2>1, <2>3, <2>4, <2>8, Zenon DEF UnlinkNext, WriteDir
    <2>15. RestNext => RestNext'
      BY <2>1, <2>4, Zenon DEF RestNext, WriteDir
    <2>16. Creating => Creating'
      BY <2>3, <2>9, <2>10, <2>11, <2>12, Zenon DEF Creating
    <2>17. Removing => Removing'
      BY <2>3, <2>5, <2>13, <2>14, <2>15, Zenon DEF Removing
    <2>18. Progress' /\ Len(todo') <= 3
      <3>1. Quiet => Quiet'
        BY <2>1 DEF Quiet
      <3>2. Len(todo') <= 3
        BY <2>1 DEF FInv, TypeOK
      <3> QED  BY <2>4, <2>16, <2>17, <3>1, <3>2 DEF FInv, Progress
    <2> QED  BY <2>1, <2>18, TodoOnly
  <1>2. ASSUME NEW n \in Name \ {"stdin", "stdout"}, NEW size \in 0..MaxSize, Create(n, size)
        PROVE  FInv'
    BY <1>2, CreateStep
  <1>3. ASSUME NEW n \in Name \ {"stdin", "stdout"}, Remove(n) PROVE FInv'
    BY <1>3, RemoveStep
  <1>4. ASSUME NEW n \in Name \ {"stdin", "stdout"}, Open(n) PROVE FInv'
    BY <1>4, OpenStep
  <1>5. ASSUME NEW i \in Slot, NEW buf \in Buffer, Write(i, buf) \/ WriteStopped(i, buf)
        PROVE  FInv'
    <2>1. PICK k \in 1..MaxSize : buf \in [1..k -> Byte]
      BY Zenon DEF Buffer
    <2> QED  BY <1>5, <2>1, WriteStep, WriteStoppedStep
  <1>6. ASSUME NEW i \in Slot, NEW n \in 1..MaxSize, Read(i, n) PROVE FInv'
    BY <1>6, ReadStep
  <1>7. ASSUME NEW i \in Slot, NEW p \in 0..MaxSize, Seek(i, p) PROVE FInv'
    BY <1>7, SeekStep
  <1>8. ASSUME NEW i \in Slot, Close(i) PROVE FInv'
    BY <1>8, CloseStep
  <1>9. CASE WriteBack
    BY <1>9, WriteBackStep
  <1>10. CASE Restart
    BY <1>10, RestartStep
  <1>11. ASSUME NEW n \in Name \ {"stdin", "stdout"},
                (\E size \in 0..MaxSize : Create(n, size)) \/ Remove(n) \/ Open(n)
         PROVE  FInv'
    BY <1>2, <1>3, <1>4, <1>11, Zenon
  <1>12. ASSUME NEW i \in Slot,
                \/ Close(i)
                \/ \E buf \in Buffer : Write(i, buf) \/ WriteStopped(i, buf)
                \/ \E n \in 1..MaxSize : Read(i, n)
                \/ \E position \in 0..MaxSize : Seek(i, position)
         PROVE  FInv'
    BY <1>5, <1>6, <1>7, <1>8, <1>12, Zenon
  <1> QED  BY <1>1, <1>9, <1>10, <1>11, <1>12, Zenon DEF Next

LEMMA FInvAlways == ~RemoveOpen => (Spec => []FInv)
  <1> SUFFICES ASSUME ~RemoveOpen PROVE Spec => []FInv
    OBVIOUS
  <1>1. Init => FInv
    BY InitFInv
  <1>2. FInv /\ [Next]_vars => FInv'
    BY NextFInv
  <1> QED  BY <1>1, <1>2, PTL DEF Spec

-----------------------------------------------------------------------------
(* What follows from the invariant.                                        *)

LEMMA ConsistentIfFInv ==
  ASSUME FInv PROVE DiskConsistent
  <1>1. FreeMapExact
    BY QuietWhole DEF FInv, FreeMapExact, Whole, MapExactFor
  <1>2. NamesLead
    <2> SUFFICES ASSUME Quiet, NEW i \in Sound PROVE Min(Entries(table[i].name)) = i
      BY DEF NamesLead
    <2>1. i \in InUse
      BY DEF Sound
    <2>2. \A k \in 1..(i - 1) : table[k].name # table[i].name
      BY QuietWhole DEF FInv, Whole, NamesApart
    <2> QED  BY <2>1, <2>2, NamedFirst
  <1>3. Quiet => Unmarked = {}
    BY QuietWhole, UnmarkedFiles DEF FInv
  <1>4. Cardinality(Unmarked) <= 1
    <2>1. Whole \/ \E j : WholeBut(j)
      BY WholeOrBut DEF FInv
    <2>2. CASE Whole
      <3>1. Cardinality({}) = 0
        BY FS_EmptySet
      <3>2. Unmarked = {}
        BY <2>2, UnmarkedFiles
      <3> QED  BY <3>1, <3>2
    <2>3. ASSUME NEW j, WholeBut(j) PROVE Cardinality(Unmarked) <= 1
      <3>1. Cardinality({j}) = 1
        BY FS_Singleton
      <3>2. Unmarked = {j}
        BY <2>3, UnmarkedFiles
      <3> QED  BY <3>1, <3>2
    <2> QED  BY <2>1, <2>2, <2>3
  <1>5. StopHurtsOneFile
    BY <1>3, <1>4 DEF StopHurtsOneFile
  <1> QED  BY <1>1, <1>2, <1>5 DEF DiskConsistent, FInv

(* The data Print shows of block b of a file is what ReadAt returns. *)
LEMMA ShownBlock ==
  ASSUME NEW hdr \in Header, Sized(hdr), NEW b \in 1..Len(hdr.dataSectors)
  PROVE  HeaderShown(hdr).data[b] = ReadAt(hdr, SectorSize, (b - 1) * SectorSize)
  <1>1. PICK s \in Nat \ {0} : s = SectorSize
    BY Sizes
  <1>2. PICK size \in Nat : size = hdr.numBytes
    BY Sizes DEF Header
  <1>3. PICK ds : ds = hdr.dataSectors /\ ds \in Seq(Sector) /\ DOMAIN ds = 1..Len(ds)
    BY DEF Header
  <1>4. PICK len \in Nat : /\ len = Len(ds) /\ size <= len * s /\ len * s < size + s
    BY <1>1, <1>2, <1>3, RoundUp DEF Sized
  <1>5. PICK q \in Nat, qs \in Nat : q = b - 1 /\ qs = q * s /\ qs < size
    <2>1. PICK q \in Nat : q = b - 1 /\ q + 1 <= len
      BY <1>3, <1>4
    <2>2. PICK q1 \in Nat : q1 = q + 1
      OBVIOUS
    <2>3. q1 * s <= len * s /\ (q + 1) * s = q * s + s /\ q * s \in Nat /\ len * s \in Nat
      BY <2>1, <2>2, TimesOrder
    <2> QED  BY <1>4, <2>1, <2>2, <2>3
  <1>6. PICK c, sz \in Nat : Within(hdr, s, qs, c, sz)
    BY ClipWithin
  <1>7. c = Clip(hdr, s, qs) /\ c <= s /\ qs + c <= size
        /\ c = IF s <= size - qs THEN s ELSE size - qs
    BY <1>2, <1>5, <1>6 DEF Within
  <1>8. Min({s, size - qs}) = c
    <2>1. PICK rest \in Nat : rest = size - qs
      BY <1>5
    <2> QED  BY <1>7, <2>1, LesserOf
  <1>9. HeaderShown(hdr).data[b] = SubSeq(bytesAt[ds[b]], 1, c)
    <2>1. HeaderShown(hdr).data[b]
            = SubSeq(bytesAt[ds[b]], 1, Min({SectorSize, size - (b - 1) * SectorSize}))
      BY <1>2, <1>3 DEF HeaderShown
    <2>2. (b - 1) * SectorSize = qs
      BY <1>1, <1>5
    <2> QED  BY <1>1, <1>8, <2>1, <2>2
  <1>10. SubSeq(bytesAt[ds[b]], 1, c) = [m \in 1..c |-> bytesAt[ds[b]][m]]
    <2>1. PICK f : f = bytesAt[ds[b]]
      OBVIOUS
    <2>2. SubSeq(f, 0 + 1, 0 + c) = [m \in 1..c |-> f[0 + m]]
      BY Cut
    <2>3. SubSeq(f, 1, c) = [m \in 1..c |-> f[m]]
      BY <2>2
    <2> QED  BY <2>1, <2>3
  <1>11. ASSUME NEW m \in 1..c PROVE Content(hdr)[qs + m] = bytesAt[ds[b]][m]
    <2>1. PICK r \in Nat : r = m - 1 /\ r < s
      BY <1>7
    <2>2. (q * s + r) \div s = q /\ (q * s + r) % s = r
      BY <2>1, DivModUnique
    <2>3. qs + m \in 1..size /\ (qs + m) - 1 = q * s + r
      BY <1>5, <1>7, <2>1
    <2>4. Content(hdr)[qs + m] = bytesAt[ds[1 + q]][1 + r]
      BY <1>1, <1>2, <1>3, <2>2, <2>3 DEF Content
    <2>5. 1 + q = b /\ 1 + r = m
      BY <1>5, <2>1
    <2> QED  BY <2>4, <2>5
  <1>12. ReadAt(hdr, s, qs) = [m \in 1..c |-> Content(hdr)[qs + m]]
    <2>1. ReadAt(hdr, s, qs) = [m \in 1..Clip(hdr, s, qs) |-> Content(hdr)[qs + m]]
      BY ReadAtBytes
    <2> QED  BY <1>7, <2>1
  <1>13. [m \in 1..c |-> Content(hdr)[qs + m]] = [m \in 1..c |-> bytesAt[ds[b]][m]]
    BY <1>11
  <1>14. (b - 1) * SectorSize = qs
    BY <1>1, <1>5
  <1> QED  BY <1>1, <1>9, <1>10, <1>12, <1>13, <1>14

LEMMA ShownIfFInv ==
  ASSUME FInv PROVE ShownCorrect
  <1> SUFFICES ASSUME Quiet PROVE ShownCorrect
    BY DEF ShownCorrect
  <1>1. InUse \in SUBSET Nat /\ IsFiniteSet(InUse)
    <2>1. InUse \in SUBSET 1..NumDirEntries
      BY DEF InUse
    <2> QED  BY <2>1, SectorsFinite, FS_Subset
  <1>2. PICK N \in Nat : N = Cardinality(InUse)
    BY <1>1, UpwardsMeetsAll
  <1>3. PICK up : up = Upwards(InUse)
    OBVIOUS
  <1>4. up \in [1..N -> InUse] /\ \A x \in InUse : \E i \in 1..N : up[i] = x
    BY <1>1, <1>2, <1>3, UpwardsMeetsAll
  <1>5. ListFiles = [k \in 1..N |-> table[up[k]].name]
    BY <1>2, <1>3 DEF ListFiles, ListNames
  <1>6. ASSUME NEW n \in Name PROVE Present(n) <=> n \in Range(ListFiles)
    <2>1. ASSUME Present(n) PROVE n \in Range(ListFiles)
      <3>1. PICK i \in InUse : table[i].name = n
        BY <2>1 DEF Present, Entries, InUse
      <3>2. PICK k \in 1..N : up[k] = i
        BY <1>4
      <3> QED  BY <1>5, <3>1, <3>2 DEF Range
    <2>2. ASSUME n \in Range(ListFiles) PROVE Present(n)
      <3>1. PICK k \in 1..N : n = table[up[k]].name
        BY <1>5, <2>2 DEF Range
      <3>2. up[k] \in InUse
        BY <1>4
      <3>3. up[k] \in Entries(n)
        BY <3>1, <3>2 DEF Entries, InUse
      <3> QED  BY <3>3 DEF Present
    <2> QED  BY <2>1, <2>2
  <1>7. freeMap \subseteq Range(Upwards(freeMap))
    <2>1. freeMap \in SUBSET Nat /\ IsFiniteSet(freeMap)
      BY SectorsFinite, FS_Subset DEF FInv, TypeOK, PersistentBitmap
    <2>2. PICK g : g = Upwards(freeMap)
      OBVIOUS
    <2>3. DOMAIN g = 1..Cardinality(freeMap)
          /\ \A x \in freeMap : \E i \in 1..Cardinality(freeMap) : g[i] = x
      BY <2>1, <2>2, UpwardsMeetsAll
    <2> QED  BY <2>2, <2>3 DEF Range
  <1>8. Shown.map = Upwards(freeMap) /\ Shown.directory = DirectoryShown
    BY DEF Shown, MapShown
  <1>9. DOMAIN DirectoryShown = 1..N
    BY <1>2 DEF DirectoryShown
  <1>10. ASSUME NEW k \in 1..N, NEW f, f = DirectoryShown[k], up[k] \in Sound
         PROVE  /\ f.name = ListFiles[k] /\ f.sector = Find(f.name)
                /\ \A b \in DOMAIN f.header.blocks :
                     f.header.data[b] = ReadAt(FetchHeader(f.sector), SectorSize,
                                               (b - 1) * SectorSize)
                /\ Len(f.header.blocks) * SectorSize >= f.header.size
                /\ {f.sector} \cup Range(f.header.blocks) \subseteq freeMap
    <2>1. PICK i : i = up[k] /\ i \in Sound /\ i \in InUse
      BY <1>10 DEF Sound
    <2>2. PICK h : h = HeaderOf(i) /\ h \in Header /\ h # NULL
      BY <2>1, FileTyped DEF FInv
    <2>4. FetchHeader(table[i].sector) = h
      BY <2>2 DEF FetchHeader, HeaderOf
    <2>3. /\ f.name = table[i].name /\ f.sector = table[i].sector
          /\ f.header = HeaderShown(FetchHeader(table[i].sector))
      <3>1. f = [name |-> table[i].name, sector |-> table[i].sector,
                 header |-> IF FetchHeader(table[i].sector) = NULL THEN NULL
                            ELSE HeaderShown(FetchHeader(table[i].sector))]
        BY <1>2, <1>3, <1>10, <2>1, Zenon DEF DirectoryShown
      <3> QED  BY <2>2, <2>4, <3>1
    <2>5. f.header.size = h.numBytes /\ f.header.blocks = h.dataSectors
      BY <2>3, <2>4 DEF HeaderShown
    <2>6. f.sector = Find(f.name)
      <3>1. \A m \in 1..(i - 1) : table[m].name # table[i].name
        BY <2>1, QuietWhole DEF FInv, Whole, NamesApart
      <3> QED  BY <2>1, <2>3, <3>1, NamedFirst
    <2>7. Sized(h)
      <3>1. table[i].sector \in Sector /\ HeaderOf(i) # NULL
        BY <2>1, FileTyped DEF FInv
      <3> QED  BY <2>2, <3>1 DEF FInv, HeadersSized, HeaderOf
    <2>8. ASSUME NEW b \in DOMAIN f.header.blocks
          PROVE  f.header.data[b] = ReadAt(FetchHeader(f.sector), SectorSize,
                                           (b - 1) * SectorSize)
      <3>1. h.dataSectors \in Seq(Sector)
        BY <2>2 DEF Header
      <3>2. b \in 1..Len(h.dataSectors)
        BY <2>5, <3>1
      <3>3. HeaderShown(h).data[b] = ReadAt(h, SectorSize, (b - 1) * SectorSize)
        BY <2>2, <2>7, <3>2, ShownBlock
      <3> QED  BY <2>3, <2>4, <3>3, Zenon
    <2>9. Len(f.header.blocks) * SectorSize >= f.header.size
      <3>1. PICK size \in Nat : size = h.numBytes
        BY <2>2, Sizes DEF Header
      <3>2. PICK d \in Nat : d = DivRoundUp(size, SectorSize) /\ size <= d * SectorSize
        BY RoundUp
      <3>3. Len(h.dataSectors) = d
        BY <2>7, <3>1, <3>2 DEF Sized
      <3>4. d * SectorSize >= size
        <4>1. d * SectorSize \in Nat
          BY Sizes, TimesOrder
        <4> QED  BY <3>2, <4>1
      <3> QED  BY <2>5, <3>1, <3>3, <3>4, Zenon
    <2>10. {f.sector} \cup Range(f.header.blocks) \subseteq freeMap
      <3>1. {f.sector} \cup Range(f.header.blocks) = FileSectors(i)
        BY <2>2, <2>3, <2>5 DEF FileSectors
      <3> QED  BY <2>1, <3>1, QuietWhole, InMap DEF FInv, Whole
    <2>11. f.name = ListFiles[k]
      BY <1>5, <2>1, <2>3
    <2> QED  BY <2>6, <2>8, <2>9, <2>10, <2>11, Zenon
  <1>11. ASSUME NEW k \in DOMAIN Shown.directory, Upwards(InUse)[k] \in Sound
         PROVE  LET f == Shown.directory[k]
                IN  /\ f.name = ListFiles[k] /\ f.sector = Find(f.name)
                    /\ \A b \in DOMAIN f.header.blocks :
                         f.header.data[b] = ReadAt(FetchHeader(f.sector), SectorSize,
                                                   (b - 1) * SectorSize)
                    /\ Len(f.header.blocks) * SectorSize >= f.header.size
                    /\ {f.sector} \cup Range(f.header.blocks) \subseteq Range(Shown.map)
    <2>1. PICK f : f = DirectoryShown[k] /\ f = Shown.directory[k]
      BY <1>8
    <2>2. k \in 1..N
      BY <1>8, <1>9
    <2>3. /\ f.name = ListFiles[k] /\ f.sector = Find(f.name)
          /\ \A b \in DOMAIN f.header.blocks :
               f.header.data[b] = ReadAt(FetchHeader(f.sector), SectorSize, (b - 1) * SectorSize)
          /\ Len(f.header.blocks) * SectorSize >= f.header.size
          /\ {f.sector} \cup Range(f.header.blocks) \subseteq freeMap
      BY <1>3, <1>10, <1>11, <2>1, <2>2, Zenon
    <2>4. {f.sector} \cup Range(f.header.blocks) \subseteq Range(Shown.map)
      BY <1>7, <1>8, <2>3
    <2> QED  BY <2>1, <2>3, <2>4, Zenon
  <1> QED  BY <1>6, <1>11, Zenon DEF ShownCorrect

-----------------------------------------------------------------------------
(* What a step does to the bytes of a file.                                *)

LEMMA ContentSame ==
  ASSUME TypeOK, NEW h \in Header, Sized(h),
         \A t \in Range(h.dataSectors) : bytesAt'[t] = bytesAt[t]
  PROVE  Content(h)' = Content(h)
  <1>1. ASSUME NEW k \in 1..h.numBytes
        PROVE  h.dataSectors[1 + (k - 1) \div SectorSize] \in Range(h.dataSectors)
    <2>1. 1 + (k - 1) \div SectorSize \in 1..Len(h.dataSectors)
      BY ContentTyped DEF TypeOK
    <2>2. h.dataSectors \in Seq(Sector)
      BY DEF Header
    <2>3. PICK x : x = 1 + (k - 1) \div SectorSize
      OBVIOUS
    <2>4. x \in DOMAIN h.dataSectors
      BY <2>1, <2>2, <2>3
    <2> QED  BY <2>3, <2>4 DEF Range
  <1> QED  BY <1>1, Zenon DEF Content

LEMMA SoundSized ==
  ASSUME FInv, NEW j \in Sound
  PROVE  HeaderOf(j) \in Header /\ Sized(HeaderOf(j)) /\ table[j].sector \in Sector
  <1>1. table[j].sector \in Sector /\ HeaderOf(j) # NULL /\ HeaderOf(j) \in Header
    BY FileTyped DEF FInv
  <1> QED  BY <1>1 DEF FInv, HeadersSized, HeaderOf

LEMMA BytesKept ==
  ASSUME FInv, NEW j \in Sound, table'[j].sector = table[j].sector,
         headerAt'[table[j].sector] = headerAt[table[j].sector],
         \A t \in Range(HeaderOf(j).dataSectors) : bytesAt'[t] = bytesAt[t]
  PROVE  Bytes(j)' = Bytes(j)
  <1>1. PICK h : h = HeaderOf(j) /\ h \in Header /\ Sized(h)
    BY SoundSized
  <1>2. Content(h)' = Content(h)
    BY <1>1, ContentSame DEF FInv
  <1>3. HeaderOf(j)' = h
    BY <1>1 DEF HeaderOf
  <1>4. Bytes(j)' = Content(h)'
    BY <1>3, Zenon DEF Bytes, Content
  <1>5. Bytes(j) = Content(h)
    BY <1>1 DEF Bytes
  <1> QED  BY <1>2, <1>4, <1>5

(* A sector of the directory: the file of every entry that stays in use is *)
(* where it was.                                                           *)
LEMMA DirKeeps ==
  ASSUME FInv, WriteBack, Head(todo).op = "dir", NEW i \in Sound, i \in Sound'
  PROVE  table'[i].sector = table[i].sector /\ UNCHANGED << headerAt, bytesAt >>
  <1>1. ASSUME NEW j \in 1..NumDirEntries, NEW p, NEW e \in Entry,
               Head(todo) = WriteDir(p, [table EXCEPT ![j] = e]),
               j # i \/ e.sector = table[j].sector
        PROVE  table'[i].sector = table[i].sector /\ UNCHANGED << headerAt, bytesAt >>
    <2>1. EntryWritten(j, p, e)
      BY <1>1, DirStep
    <2>2. i \in 1..NumDirEntries
      BY DEF Sound, InUse
    <2> QED  BY <1>1, <2>1, <2>2 DEF EntryWritten
  <1>2. ASSUME NEW j \in Unused, NEW n \in Name, NEW sector \in Sector, LinkNext(j, n, sector)
        PROVE  table'[i].sector = table[i].sector /\ UNCHANGED << headerAt, bytesAt >>
    <2>1. PICK e \in Entry : e = NewEntry(n, sector)
      BY DEF NewEntry, Entry
    <2>2. PICK p, c : todo = << WriteDir(p, Linked(j, n, sector)), c >>
      BY <1>2, Zenon DEF LinkNext
    <2>3. Head(todo) = WriteDir(p, [table EXCEPT ![j] = e])
      BY <2>1, <2>2 DEF Linked
    <2>4. j \in 1..NumDirEntries /\ j # i
      BY DEF Unused, Sound, InUse
    <2> QED  BY <1>1, <2>3, <2>4
  <1>3. ASSUME NEW j \in Sound, NEW n \in Name, NameNext(j, n)
        PROVE  table'[i].sector = table[i].sector /\ UNCHANGED << headerAt, bytesAt >>
    <2>0. j \in 1..NumDirEntries /\ table[j].sector \in Sector
      BY FileTyped DEF FInv
    <2>1. PICK e \in Entry : e = NewEntry(n, table[j].sector) /\ e.sector = table[j].sector
      <3>1. PICK sector \in Sector : sector = table[j].sector
        BY <2>0
      <3>2. NewEntry(n, sector) \in Entry /\ NewEntry(n, sector).sector = sector
        BY DEF NewEntry, Entry
      <3> QED  BY <3>1, <3>2
    <2>2. PICK p, c : todo = << WriteDir(p, Linked(j, n, table[j].sector)), c >>
      BY <1>3, Zenon DEF NameNext
    <2>3. Head(todo) = WriteDir(p, [table EXCEPT ![j] = e])
      BY <2>1, <2>2 DEF Linked
    <2> QED  BY <1>1, <2>0, <2>1, <2>3
  <1>4. ASSUME NEW j \in Sound, UnlinkNext(j)
        PROVE  table'[i].sector = table[i].sector /\ UNCHANGED << headerAt, bytesAt >>
    <2>0. j \in 1..NumDirEntries /\ table[j] \in Entry
      BY FileTyped DEF FInv
    <2>1. PICK e : e = [table[j] EXCEPT !.inUse = FALSE]
      OBVIOUS
    <2>2. e \in Entry /\ e.sector = table[j].sector
      BY <2>0, <2>1 DEF Entry
    <2>3. PICK p : todo = << WriteDir(p, Unlinked(j)) >>
      BY <1>4, Zenon DEF UnlinkNext
    <2>4. Head(todo) = WriteDir(p, [table EXCEPT ![j] = e])
      BY <2>1, <2>3 DEF Unlinked
    <2> QED  BY <1>1, <2>0, <2>2, <2>4
  <1>5. ASSUME RestNext
        PROVE  table'[i].sector = table[i].sector /\ UNCHANGED << headerAt, bytesAt >>
    <2>0. i \in 1..NumDirEntries /\ table[i] \in Entry /\ table \in [1..NumDirEntries -> Entry]
      BY FileTyped DEF FInv, TypeOK, Directory
    <2>1. PICK e \in Entry : e = table[i]
      BY <2>0
    <2>2. PICK p : todo = << WriteDir(p, table) >>
      BY <1>5, Zenon DEF RestNext
    <2>3. [table EXCEPT ![i] = e] = table
      BY <2>0, <2>1
    <2>4. Head(todo) = WriteDir(p, [table EXCEPT ![i] = e])
      BY <2>2, <2>3
    <2> QED  BY <1>1, <2>0, <2>1, <2>4
  <1>6. ASSUME NEW j, NEW n, NEW sector, HeaderNext(j, n, sector) PROVE FALSE
    <2>1. PICK a, b, c, h : a = [op |-> "hdr", at |-> sector, new |-> h] /\ todo = << a, b, c >>
      BY <1>6, Zenon DEF HeaderNext
    <2>2. Head(todo) = a /\ a.op = "hdr"
      BY <2>1
    <2> QED  BY <2>2
  <1>7. ASSUME NEW j, MarkNext(j) \/ UnmarkNext(j) PROVE FALSE
    <2>1. PICK a : (a = Mark(FileSectors(j)) \/ a = Unmark(FileSectors(j))) /\ Head(todo) = a
      <3>1. CASE MarkNext(j)
        BY <3>1 DEF MarkNext
      <3>2. CASE UnmarkNext(j)
        BY <3>2 DEF UnmarkNext
      <3> QED  BY <1>7, <3>1, <3>2
    <2>2. a.op = "map"
      BY <2>1 DEF Mark, Unmark
    <2> QED  BY <2>1, <2>2
  <1>8. Progress /\ ~Quiet
    BY DEF FInv, WriteBack
  <1> QED  BY <1>2, <1>3, <1>4, <1>5, <1>6, <1>7, <1>8, Zenon DEF Progress, Creating, Removing

-----------------------------------------------------------------------------
(* What Write and its first part do to the file, and to the others.        *)

LEMMA WrittenBytes ==
  ASSUME FInv, NEW i \in Slot, openf[i] # NULL, NEW k \in 1..MaxSize,
         NEW buf \in [1..k -> Byte], NEW hdr \in Header, NEW p \in Nat, NEW n \in Nat,
         NEW m \in Nat, WriteEffect(i, buf, hdr, p, n, m), table' = table,
         NEW j \in Sound, IsFileOf(j, i)
  PROVE  /\ HeaderOf(j) = hdr
         /\ Bytes(j)' = Patch(Bytes(j), p, SubSeq(buf, 1, m))
         /\ m = n => Bytes(j)' = Patch(Bytes(j), p, buf)
  <1>1. PICK size \in Nat : size = hdr.numBytes
    BY Sizes DEF Header
  <1>2. PICK old, new : old = Content(hdr) /\ new = Content(hdr)'
    OBVIOUS
  <1>3. /\ hdr = openf[i].hdr /\ p = openf[i].seekPosition /\ n = Clip(hdr, Len(buf), p)
        /\ n \in DOMAIN buf /\ m \in 1..n /\ p + n <= size
        /\ \A x \in 1..size : new[x] = IF x \in (p + 1)..(p + m) THEN buf[x - p] ELSE old[x]
    BY <1>1, <1>2, Zenon DEF WriteEffect
  <1>4. HeaderOf(j) = hdr
    <2>1. headerAt[openf[i].of] = openf[i].hdr
      BY OpenIsFile DEF FInv
    <2> QED  BY <1>3, <2>1 DEF IsFileOf, HeaderOf
  <1>5. HeaderOf(j)' = hdr
    BY <1>4, WriteKeeps DEF SameHeaders, HeaderOf
  <1>6. Bytes(j) = old
    BY <1>2, <1>4 DEF Bytes
  <1>7. Bytes(j)' = new
    <2>1. Bytes(j)' = Content(hdr)'
      BY <1>5, Zenon DEF Bytes, Content
    <2> QED  BY <1>2, <2>1
  <1>8. old = [x \in 1..size |-> old[x]] /\ Len(old) = size
    BY <1>1, <1>2 DEF Content
  <1>9. new = [x \in 1..size |-> new[x]]
    BY <1>1, <1>2 DEF Content
  <1>10. k \in Nat /\ Len(buf) = k /\ n \in 1..k
    BY <1>3, Sizes
  <1>11. Patch(old, p, SubSeq(buf, 1, m)) = new
    <2>1. PICK part : part = SubSeq(buf, 1, m)
      OBVIOUS
    <2>2. m \in 1..k /\ Len(part) = m /\ \A y \in 1..m : part[y] = buf[y]
      BY <1>3, <1>10, <2>1
    <2>3. Patch(old, p, part)
            = [x \in 1..size |-> IF x \in (p + 1)..(p + m) THEN part[x - p] ELSE old[x]]
      BY <1>8, <2>2 DEF Patch
    <2>4. ASSUME NEW x \in 1..size
          PROVE  new[x] = IF x \in (p + 1)..(p + m) THEN part[x - p] ELSE old[x]
      <3>1. x \in (p + 1)..(p + m) => x - p \in 1..m
        BY <2>2
      <3> QED  BY <1>3, <2>2, <3>1
    <2> QED  BY <1>9, <2>1, <2>3, <2>4, Zenon
  <1>12. ASSUME m = n PROVE Patch(old, p, buf) = new
    <2>1. Patch(old, p, buf)
            = [x \in 1..size |-> IF x \in (p + 1)..(p + k) THEN buf[x - p] ELSE old[x]]
      BY <1>8, <1>10 DEF Patch
    <2>2. n = k \/ p + n = size
      <3>1. PICK c, z \in Nat : Within(hdr, k, p, c, z)
        BY <1>10, ClipWithin
      <3>2. c = n /\ z = size
        BY <1>1, <1>3, <1>10, <3>1 DEF Within
      <3> QED  BY <1>3, <1>10, <3>1, <3>2 DEF Within
    <2>3. ASSUME NEW x \in 1..size
          PROVE  x \in (p + 1)..(p + k) <=> x \in (p + 1)..(p + n)
      BY <1>10, <2>2
    <2>4. ASSUME NEW x \in 1..size
          PROVE  new[x] = IF x \in (p + 1)..(p + k) THEN buf[x - p] ELSE old[x]
      BY <1>3, <1>12, <2>3
    <2> QED  BY <1>9, <2>1, <2>4, Zenon
  <1> QED  BY <1>4, <1>6, <1>7, <1>11, <1>12

LEMMA WriteOthers ==
  ASSUME FInv, NEW i \in Slot, openf[i] # NULL, NEW buf, NEW hdr, NEW p, NEW n, NEW m,
         WriteEffect(i, buf, hdr, p, n, m), table' = table,
         NEW j \in Sound, ~IsFileOf(j, i)
  PROVE  Bytes(j)' = Bytes(j)
  <1>1. /\ hdr = openf[i].hdr
        /\ \A t \in Sector \ Range(hdr.dataSectors) : bytesAt'[t] = bytesAt[t]
    BY Zenon DEF WriteEffect
  <1>2. FileSectors(j) \cap Range(hdr.dataSectors) = {}
    BY <1>1, WriteSparesHeaders DEF IsFileOf
  <1>3. Range(HeaderOf(j).dataSectors) \subseteq Sector
    <2>1. HeaderOf(j).dataSectors \in Seq(Sector)
      BY SoundSized DEF Header
    <2> QED  BY <2>1 DEF Range
  <1>4. \A t \in Range(HeaderOf(j).dataSectors) : bytesAt'[t] = bytesAt[t]
    BY <1>1, <1>2, <1>3 DEF FileSectors
  <1>5. headerAt'[table[j].sector] = headerAt[table[j].sector]
    BY WriteKeeps DEF SameHeaders
  <1> QED  BY <1>4, <1>5, BytesKept

LEMMA WriteExact ==
  ASSUME FInv, NEW i \in Slot, NEW k \in 1..MaxSize, NEW buf \in [1..k -> Byte], Write(i, buf)
  PROVE  /\ WriteIsExact(i, buf)
         /\ \A j \in Sound : ~IsFileOf(j, i) => Bytes(j)' = Bytes(j)
  <1>1. openf[i] # NULL /\ table' = table
    BY DEF Write, WriteSectors
  <1>2. PICK hdr \in Header, p \in Nat, n \in Nat :
          /\ WriteEffect(i, buf, hdr, p, n, n)
          /\ openf' = [openf EXCEPT ![i].seekPosition = @ + n]
    BY WriteHas
  <1>3. \A j \in Sound : ~IsFileOf(j, i) => Bytes(j)' = Bytes(j)
    BY <1>1, <1>2, WriteOthers
  <1>4. PICK size \in Nat : size = hdr.numBytes
    BY Sizes DEF Header
  <1>5. /\ p = openf[i].seekPosition /\ n = Clip(hdr, Len(buf), p)
        /\ n \in DOMAIN buf /\ p + n <= size
    BY <1>2, <1>4, Zenon DEF WriteEffect
  <1>6. k \in Nat /\ Len(buf) = k /\ n \in 1..k
    BY <1>5, Sizes
  <1>7. Min({p + k, size}) = p + n
    <2>1. PICK c, z \in Nat : Within(hdr, k, p, c, z)
      BY <1>6, ClipWithin
    <2>2. c = n /\ z = size
      BY <1>4, <1>5, <1>6, <2>1 DEF Within
    <2>3. PICK e \in Nat : e = p + k
      BY <1>6
    <2>4. n = k \/ p + n = size
      BY <1>5, <1>6, <2>1, <2>2 DEF Within
    <2> QED  BY <1>5, <1>6, <2>3, <2>4, LesserOf
  <1>8. openf'[i].seekPosition = p + n
    <2>1. openf \in [Slot -> OpenFile \cup {NULL}] /\ openf[i] \in OpenFile
      BY <1>1, OpenIsFile DEF FInv, TypeOK
    <2> QED  BY <1>2, <1>5, <2>1 DEF OpenFile
  <1>9. ASSUME NEW j \in Sound, IsFileOf(j, i)
        PROVE  /\ Bytes(j)' = Patch(Bytes(j), p, buf)
               /\ openf'[i].seekPosition = Min({p + Len(buf), HeaderOf(j).numBytes})
    <2>1. HeaderOf(j) = hdr /\ Bytes(j)' = Patch(Bytes(j), p, buf)
      BY <1>1, <1>2, <1>9, WrittenBytes
    <2> QED  BY <1>4, <1>6, <1>7, <1>8, <2>1
  <1>10. WriteIsExact(i, buf)
    BY <1>5, <1>9, Zenon DEF WriteIsExact, Kept
  <1> QED  BY <1>3, <1>10

LEMMA StoppedExact ==
  ASSUME FInv, NEW i \in Slot, NEW k \in 1..MaxSize, NEW buf \in [1..k -> Byte],
         WriteStopped(i, buf)
  PROVE  /\ StoppedIsExact(i, buf)
         /\ \A j \in Sound : ~IsFileOf(j, i) => Bytes(j)' = Bytes(j)
  <1>1. openf[i] # NULL /\ table' = table
    BY DEF WriteStopped, WriteSectors
  <1>2. PICK hdr \in Header, p \in Nat, n \in Nat, m \in Nat : WriteEffect(i, buf, hdr, p, n, m)
    BY StoppedHas
  <1>3. \A j \in Sound : ~IsFileOf(j, i) => Bytes(j)' = Bytes(j)
    BY <1>1, <1>2, WriteOthers
  <1>4. p = openf[i].seekPosition /\ n \in DOMAIN buf /\ m \in 1..n
    BY <1>2, Zenon DEF WriteEffect
  <1>5. m \in 1..Len(buf)
    <2>1. k \in Nat /\ Len(buf) = k /\ DOMAIN buf = 1..k
      BY Sizes
    <2> QED  BY <1>4, <2>1
  <1>6. ASSUME NEW j \in Sound, IsFileOf(j, i)
        PROVE  Bytes(j)' = Patch(Bytes(j), p, SubSeq(buf, 1, m))
    BY <1>1, <1>2, <1>6, WrittenBytes
  <1>7. StoppedIsExact(i, buf)
    BY <1>4, <1>5, <1>6, Zenon DEF StoppedIsExact, Kept
  <1> QED  BY <1>3, <1>7

-----------------------------------------------------------------------------
(* The steps of Create and Remove leave the bytes of files alone.          *)

LEMMA HeaderSpares ==
  ASSUME FInv, WriteBack, NEW i \in Sound, NEW j, NEW n, NEW sector, HeaderNext(j, n, sector)
  PROVE  Bytes(i)' = Bytes(i)
  <1>1. PICK hdr, b, c : /\ todo = << [op |-> "hdr", at |-> sector, new |-> hdr], b, c >>
                         /\ NewFile(sector, hdr) /\ Whole
    BY Zenon DEF HeaderNext
  <1>2. PICK a : a = [op |-> "hdr", at |-> sector, new |-> hdr]
    OBVIOUS
  <1>3. Head(todo) = a /\ a.op = "hdr" /\ a.at = sector /\ a.new = hdr
    BY <1>1, <1>2
  <1>4. WriteHeader(sector, hdr)
    BY <1>3 DEF WriteBack
  <1>5. /\ table' = table /\ bytesAt' = [bytesAt EXCEPT ![sector] = JunkBlock]
        /\ headerAt' = [headerAt EXCEPT ![sector] = hdr]
    BY <1>4 DEF WriteHeader
  <1>6. sector \notin FileSectors(i)
    <2>1. sector \notin freeMap
      BY <1>1 DEF NewFile
    <2>2. FileSectors(i) \subseteq freeMap
      BY <1>1, InMap DEF Whole
    <2> QED  BY <2>1, <2>2
  <1>7. /\ table[i].sector \in Sector /\ Range(HeaderOf(i).dataSectors) \subseteq Sector
        /\ headerAt \in [Sector -> Header \cup {NULL}] /\ bytesAt \in [Sector -> Block]
    <2>1. HeaderOf(i).dataSectors \in Seq(Sector)
      BY SoundSized DEF Header
    <2> QED  BY <2>1, SoundSized DEF Range, FInv, TypeOK
  <1>8. \A t \in Range(HeaderOf(i).dataSectors) : bytesAt'[t] = bytesAt[t]
    BY <1>5, <1>6, <1>7 DEF FileSectors
  <1>9. headerAt'[table[i].sector] = headerAt[table[i].sector]
    BY <1>5, <1>6, <1>7 DEF FileSectors
  <1> QED  BY <1>5, <1>8, <1>9, BytesKept

LEMMA WriteBackSpares ==
  ASSUME FInv, WriteBack, NEW i \in Kept PROVE Bytes(i)' = Bytes(i)
  <1>1. i \in Sound /\ i \in Sound'
    BY DEF Kept
  <1>2. CASE Head(todo).op = "dir"
    BY <1>1, <1>2, DirKeeps, BytesKept
  <1>3. CASE Head(todo).op = "map"
    <2>1. UNCHANGED << table, headerAt, bytesAt >>
      BY <1>3 DEF WriteBack, WriteMap
    <2> QED  BY <1>1, <2>1, BytesKept
  <1>4. CASE Head(todo).op = "hdr"
    <2>1. ASSUME NEW a, Head(todo) = a, a.op # "hdr" PROVE FALSE
      BY <1>4, <2>1
    <2>2. ASSUME NEW p, NEW new, Head(todo) = WriteDir(p, new) PROVE FALSE
      <3>1. WriteDir(p, new).op = "dir"
        BY DEF WriteDir
      <3> QED  BY <2>1, <2>2, <3>1
    <2>3. ASSUME NEW sectors, Head(todo) = Mark(sectors) \/ Head(todo) = Unmark(sectors)
          PROVE  FALSE
      <3>1. Mark(sectors).op = "map" /\ Unmark(sectors).op = "map"
        BY DEF Mark, Unmark
      <3> QED  BY <2>1, <2>3, <3>1
    <2>4. ASSUME NEW j, NEW n, NEW sector, LinkNext(j, n, sector) PROVE FALSE
      <3>1. PICK p, new, c : todo = << WriteDir(p, new), c >>
        BY <2>4, Zenon DEF LinkNext
      <3>2. Head(todo) = WriteDir(p, new)
        BY <3>1
      <3> QED  BY <2>2, <3>2
    <2>5. ASSUME NEW j, NEW n, NameNext(j, n) PROVE FALSE
      <3>1. PICK p, new, c : todo = << WriteDir(p, new), c >>
        BY <2>5, Zenon DEF NameNext
      <3>2. Head(todo) = WriteDir(p, new)
        BY <3>1
      <3> QED  BY <2>2, <3>2
    <2>6. ASSUME NEW j, MarkNext(j) \/ UnmarkNext(j) PROVE FALSE
      <3>1. CASE MarkNext(j)
        <4>1. Head(todo) = Mark(FileSectors(j))
          BY <3>1 DEF MarkNext
        <4> QED  BY <2>3, <4>1
      <3>2. CASE UnmarkNext(j)
        <4>1. Head(todo) = Unmark(FileSectors(j))
          BY <3>2 DEF UnmarkNext
        <4> QED  BY <2>3, <4>1
      <3> QED  BY <2>6, <3>1, <3>2
    <2>7. ASSUME NEW j, UnlinkNext(j) PROVE FALSE
      <3>1. PICK p, new : todo = << WriteDir(p, new) >>
        BY <2>7, Zenon DEF UnlinkNext
      <3>2. Head(todo) = WriteDir(p, new)
        BY <3>1
      <3> QED  BY <2>2, <3>2
    <2>8. ASSUME RestNext PROVE FALSE
      <3>1. PICK p, new : todo = << WriteDir(p, new) >>
        BY <2>8, Zenon DEF RestNext
      <3>2. Head(todo) = WriteDir(p, new)
        BY <3>1
      <3> QED  BY <2>2, <3>2
    <2>9. Progress /\ ~Quiet
      BY DEF FInv, WriteBack
    <2>10. PICK j, n, sector : HeaderNext(j, n, sector)
      BY <2>4, <2>5, <2>6, <2>7, <2>8, <2>9, Zenon DEF Progress, Creating, Removing
    <2> QED  BY <1>1, <2>10, HeaderSpares
  <1> QED  BY <1>2, <1>3, <1>4 DEF WriteBack

StepExact ==
    /\ \A i \in Slot : openf'[i] # openf[i] =>
         \A buf \in Buffer : Write(i, buf) => WriteIsExact(i, buf)
    /\ bytesAt' # bytesAt /\ Mount =>
         \A i \in Slot, buf \in Buffer : WriteStopped(i, buf) => StoppedIsExact(i, buf)
    /\ \A j \in Kept : \/ Bytes(j)' = Bytes(j)
                       \/ \E i \in Slot, buf \in Buffer :
                            /\ Write(i, buf) \/ WriteStopped(i, buf)
                            /\ IsFileOf(j, i)

LEMMA NextExact ==
  ASSUME FInv, [Next]_vars PROVE StepExact
  <1>1. ASSUME NEW i \in Slot, NEW buf \in Buffer
        PROVE  /\ Write(i, buf) =>
                    /\ WriteIsExact(i, buf)
                    /\ \A j \in Sound : ~IsFileOf(j, i) => Bytes(j)' = Bytes(j)
               /\ WriteStopped(i, buf) =>
                    /\ StoppedIsExact(i, buf)
                    /\ \A j \in Sound : ~IsFileOf(j, i) => Bytes(j)' = Bytes(j)
    <2>1. PICK k \in 1..MaxSize : buf \in [1..k -> Byte]
      BY Zenon DEF Buffer
    <2> QED  BY <2>1, WriteExact, StoppedExact
  <1>2. ASSUME NEW j \in Kept, UNCHANGED disk PROVE Bytes(j)' = Bytes(j)
    <2>1. j \in Sound /\ UNCHANGED << table, headerAt, bytesAt >>
      BY <1>2 DEF Kept, disk
    <2> QED  BY <2>1, BytesKept
  <1>3. ASSUME NEW j \in Kept, UNCHANGED disk \/ WriteBack
        PROVE  Bytes(j)' = Bytes(j)
    BY <1>2, <1>3, WriteBackSpares
  <1>4. ASSUME NEW i \in Slot, NEW buf \in Buffer, Write(i, buf) \/ WriteStopped(i, buf),
               NEW j \in Kept, ~IsFileOf(j, i)
        PROVE  Bytes(j)' = Bytes(j)
    <2>1. j \in Sound
      BY DEF Kept
    <2> QED  BY <1>1, <1>4, <2>1
  <1>5. \/ UNCHANGED disk \/ WriteBack
        \/ \E i \in Slot, buf \in Buffer : Write(i, buf) \/ WriteStopped(i, buf)
    <2>1. UNCHANGED vars => UNCHANGED disk
      BY DEF vars
    <2>2. \A n, size : Create(n, size) => UNCHANGED disk
      BY Zenon DEF Create
    <2>3. \A n : Remove(n) \/ Open(n) => UNCHANGED disk
      BY DEF Remove, Open
    <2>4. \A i : Close(i) => UNCHANGED disk
      BY DEF Close
    <2>5. \A i, n : Read(i, n) \/ Seek(i, n) => UNCHANGED disk
      BY DEF Read, Seek
    <2>6. Restart => UNCHANGED disk
      BY DEF Restart
    <2> QED  BY <2>1, <2>2, <2>3, <2>4, <2>5, <2>6, Zenon DEF Next
  <1>6. ASSUME NEW j \in Kept
        PROVE  \/ Bytes(j)' = Bytes(j)
               \/ \E i \in Slot, buf \in Buffer :
                    /\ Write(i, buf) \/ WriteStopped(i, buf)
                    /\ IsFileOf(j, i)
    BY <1>3, <1>4, <1>5, Zenon
  <1> QED  BY <1>1, <1>6, Zenon DEF StepExact

-----------------------------------------------------------------------------
(* Every state reached is as TypeOK says (FileSystem's members and what is *)
(* on the disk).                                                           *)
THEOREM TypeCorrect == ~RemoveOpen => (Spec => []TypeOK)
  <1>1. FInv => TypeOK
    BY DEF FInv
  <1> QED  BY <1>1, FInvAlways, PTL

(* Of FileSystem::Create, Remove and the boot that mounts the disk: stops  *)
(* between any two sector writes, however many, leave the files they do    *)
(* not hurt disjoint and found by their names and the map exact for them,  *)
(* and each stop hurts at most one.  Callers close files before they       *)
(* remove them, leave hurt files alone, and ask for sizes a header holds.  *)
THEOREM DiskStaysConsistent == ~RemoveOpen => (Spec => []DiskConsistent)
  <1>1. FInv => DiskConsistent
    BY ConsistentIfFInv
  <1> QED  BY <1>1, FInvAlways, PTL

(* Of OpenFile::ReadAt and the Print functions: an open file is the file   *)
(* of its name, ReadAt returns its bytes, and what is shown agrees, if     *)
(* callers close files before they remove them.                            *)
THEOREM OpenFilesStayCorrect == ~RemoveOpen => (Spec => []OpenFilesCorrect)
  <1>1. FInv => OpenFilesCorrect
    <2>1. ASSUME FInv PROVE OpenHeadersCurrent /\ ReadAtCorrect /\ ShownCorrect
      BY <2>1, ReadAtIsCorrect, ShownIfFInv DEF FInv
    <2> QED  BY <2>1 DEF OpenFilesCorrect
  <1> QED  BY <1>1, FInvAlways, PTL

(* Of OpenFile::Write and WriteAt: afterwards the file holds the bytes the *)
(* call was given, at its position, and its other bytes, as every other    *)
(* sound file, are what they were; a stop in the middle leaves a first     *)
(* part of the bytes written.                                              *)
THEOREM WritesStayExact == ~RemoveOpen => (Spec => WritesExact)
  <1>1. FInv /\ [Next]_vars => [StepExact]_vars
    BY NextExact
  <1>2. WritesExact <=> [][StepExact]_vars
    BY DEF WritesExact, StepExact
  <1> QED  BY <1>1, <1>2, FInvAlways, PTL DEF Spec

=============================================================================
