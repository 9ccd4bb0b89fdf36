-------------------------- MODULE SynchDiskProofs --------------------------
(***************************************************************************)
(* Proofs about SynchDisk, for any number of threads, any geometry and     *)
(* timing of the disk and any delay of its interrupt.                      *)
(*                                                                         *)
(* The disk's ASSERT, that a request finds it idle, follows from what the  *)
(* lock and the semaphore say together: the holder of the lock is the only *)
(* thread between Acquire and Release, and a wake-up exists only between   *)
(* the interrupt and the P of the holder.  Handshake is that statement, by *)
(* where the holder is.                                                    *)
(*                                                                         *)
(* That ComputeLatency is right for every disk is arithmetic: PassesExact  *)
(* says when a sector has passed in terms of ModuloDiff, and HeadInv that  *)
(* bufferInit is the arrival of the head rounded up to a whole slot.       *)
(***************************************************************************)
EXTENDS SynchDisk, TLAPS

Inside == {"request", "wait", "release"}

(* Exactly the holder of the lock is between Acquire and Release. *)
HolderExact == \A t \in Thread : pc[t] \in Inside <=> holder = t

Asleep == ~active /\ pending = NULL /\ semaphore = 0

(* The device, the wake-up and the holder's place in the call agree. *)
Handshake ==
    /\ holder = NULL => Asleep
    /\ \A t \in Thread :
         /\ pc[t] = "request" => Asleep
         /\ pc[t] = "wait" =>
              \/ pending = call[t].when /\ semaphore = 0
              \/ /\ ~active /\ pending = NULL /\ semaphore = 1
                 /\ call[t].when <= totalTicks
         /\ pc[t] = "release" => Asleep /\ call[t].when <= totalTicks

Called == \A t \in Thread : pc[t] # "idle" => call[t] \in Call

IInv == TypeOK /\ Called /\ HolderExact /\ Handshake /\ DataCurrent

-----------------------------------------------------------------------------
(* Rounding down stays among the natural numbers. *)
LEMMA DivMod ==
  ASSUME NEW a \in Nat, NEW b \in Nat \ {0}
  PROVE  a \div b \in Nat /\ a % b \in Nat /\ a % b < b
  OBVIOUS

LEMMA TimesNat ==
  ASSUME NEW a \in Nat, NEW b \in Nat
  PROVE  a * b \in Nat
  OBVIOUS

(* ComputeLatency returns a number of ticks, never a negative one. *)
LEMMA LatencyNat ==
  ASSUME TypeOK, NEW s \in Sector, NEW w \in BOOLEAN
  PROVE  /\ TimeAfter(s) \in Nat
         /\ totalTicks + Seek(s) \in Nat
         /\ ComputeLatency(s, w) \in Nat
  <1>1. s \in Nat /\ lastSector \in Nat
    BY DiskAssumption DEF Sector, NumSectors, TypeOK
  <1>2. Track(s) \in Nat /\ Track(lastSector) \in Nat
    BY <1>1, DivMod, DiskAssumption DEF Track
  <1>3. Distance(Track(s), Track(lastSector)) \in Nat
    BY <1>2 DEF Distance
  <1>4. Seek(s) \in Nat
    BY <1>3, TimesNat, DiskAssumption DEF Seek
  <1>5. totalTicks + Seek(s) \in Nat
    BY <1>4 DEF TypeOK
  <1>6. Over(s) \in Nat /\ Over(s) < RotationTime
    BY <1>5, DivMod, DiskAssumption DEF Over
  <1>7. Rotation(s) \in Nat
    BY <1>6, DiskAssumption DEF Rotation
  <1>8. TimeAfter(s) \in Nat
    BY <1>4, <1>7 DEF TimeAfter, TypeOK
  <1>9. ASSUME NEW k \in Nat PROVE ModuloDiff(s, k) \in Nat
    <2>1. s % SectorsPerTrack \in Nat /\ k % SectorsPerTrack \in Nat
          /\ k % SectorsPerTrack < SectorsPerTrack
      BY <1>1, DivMod, DiskAssumption
    <2>2. (((s % SectorsPerTrack) - (k % SectorsPerTrack)) + SectorsPerTrack) \in Nat
      BY <2>1, DiskAssumption
    <2> QED  BY <2>2, DivMod, DiskAssumption DEF ModuloDiff
  <1>10. ModuloDiff(s, TimeAfter(s) \div RotationTime) * RotationTime \in Nat
    BY <1>8, <1>9, DivMod, TimesNat, DiskAssumption
  <1>11. ComputeLatency(s, w) \in Nat
    BY <1>4, <1>7, <1>10, DiskAssumption DEF ComputeLatency
  <1> QED  BY <1>5, <1>8, <1>11

-----------------------------------------------------------------------------
LEMMA InitIInv == Init => IInv
  <1> SUFFICES ASSUME Init PROVE IInv
    OBVIOUS
  <1>1. 0 \in Sector
    <2>1. ASSUME NEW a \in Nat \ {0}, NEW b \in Nat \ {0} PROVE a * b > 0
      OBVIOUS
    <2>2. NumSectors \in Nat
      BY TimesNat, DiskAssumption DEF NumSectors
    <2>3. NumSectors > 0
      BY <2>1, DiskAssumption DEF NumSectors
    <2> QED  BY <2>2, <2>3 DEF Sector
  <1>2. TypeOK
    BY <1>1, DiskAssumption DEF Init, DiskInit, SynchDiskInit, TypeOK
  <1>3. Called /\ HolderExact /\ Handshake /\ DataCurrent
    BY DiskAssumption DEF Init, DiskInit, SynchDiskInit, Called, HolderExact, Handshake, Asleep,
       DataCurrent, Inside
  <1> QED  BY <1>2, <1>3 DEF IInv

(* The other threads are outside while t is inside. *)
LEMMA Alone ==
  ASSUME HolderExact, NEW t \in Thread, NEW u \in Thread,
         pc[t] \in Inside, u # t
  PROVE  pc[u] \notin Inside
  BY DEF HolderExact

LEMMA StartStep ==
  ASSUME IInv, NEW t \in Thread, Start(t)
  PROVE  IInv'
  <1> USE DEF Start, deviceVars
  <1>1. call'[t] \in Call /\ TypeOK' /\ pc'[t] = "acquire"
    BY DiskAssumption DEF IInv, TypeOK, Call
  <1>2. \A u \in Thread : u # t => pc'[u] = pc[u] /\ call'[u] = call[u]
    BY DEF IInv, TypeOK
  <1>3. Called'
    BY <1>1, <1>2 DEF IInv, Called
  <1>4. HolderExact' /\ Handshake' /\ DataCurrent'
    BY <1>1, <1>2 DEF IInv, HolderExact, Handshake, Asleep, DataCurrent, Inside
  <1> QED  BY <1>1, <1>3, <1>4 DEF IInv

LEMMA AcquireStep ==
  ASSUME IInv, NEW t \in Thread, Acquire(t)
  PROVE  IInv'
  <1> USE DEF Acquire, deviceVars
  <1>1. TypeOK' /\ pc'[t] = "request"
    BY DEF IInv, TypeOK
  <1>2. \A u \in Thread : u # t => pc'[u] = pc[u]
    BY DEF IInv, TypeOK
  <1>3. Called' /\ DataCurrent'
    BY <1>1, <1>2 DEF IInv, Called, DataCurrent
  <1>4. \A u \in Thread : pc[u] \notin Inside
    BY DiskAssumption DEF IInv, HolderExact
  <1>5. HolderExact'
    BY <1>1, <1>2, <1>4 DEF HolderExact, Inside
  <1>6. Handshake'
    BY <1>1, <1>2, <1>4, DiskAssumption DEF IInv, Handshake, Asleep, Inside
  <1> QED  BY <1>1, <1>3, <1>5, <1>6 DEF IInv

LEMMA RequestStep ==
  ASSUME IInv, NEW t \in Thread, Request(t)
  PROVE  IInv'
  <1> DEFINE c == call[t]
             due == totalTicks + ComputeLatency(c.sector, c.writing)
  <1>1. c \in Call
    BY DEF IInv, Called, Request
  <1>2. c.sector \in Sector /\ c.writing \in BOOLEAN /\ c.data \in Data
    BY <1>1 DEF Call
  <1>3. due \in Nat
    BY <1>2, LatencyNat DEF IInv, TypeOK
  <1>4. TimeAfter(c.sector) \in Nat /\ totalTicks + Seek(c.sector) \in Nat
    BY <1>2, LatencyNat DEF IInv
  <1>5. contents' \in [Sector -> Data]
    BY <1>2 DEF IInv, TypeOK, Request
  <1>6. lastSector' \in Sector /\ bufferInit' \in Nat /\ arrival' \in Nat
    BY <1>2, <1>4 DEF IInv, TypeOK, Request, UpdateLast
  <1>7. call' = [call EXCEPT ![t] = [c EXCEPT !.data = contents'[c.sector],
                                              !.at = totalTicks, !.when = due]]
    BY DEF Request
  <1>8. call'[t] = [c EXCEPT !.data = contents'[c.sector],
                             !.at = totalTicks, !.when = due]
    BY <1>7 DEF IInv, TypeOK
  <1>9. /\ call'[t] \in Call
        /\ call'[t].data = contents'[call'[t].sector]
        /\ call'[t].when = due
    BY <1>1, <1>2, <1>3, <1>5, <1>8 DEF Call, IInv, TypeOK
  <1>10. /\ pc'[t] = "wait" /\ pc[t] = "request"
         /\ \A u \in Thread : u # t => pc'[u] = pc[u] /\ call'[u] = call[u]
    BY <1>7 DEF Request, IInv, TypeOK
  <1>11. TypeOK'
    <2>1. call' \in [Thread -> Call \cup {NULL}]
      BY <1>7, <1>8, <1>9 DEF IInv, TypeOK
    <2> QED  BY <2>1, <1>3, <1>5, <1>6 DEF IInv, TypeOK, Request
  <1>12. \A u \in Thread : u # t => pc[u] \notin Inside
    BY <1>10, Alone DEF IInv, Inside
  <1>13. Called'
    BY <1>9, <1>10 DEF IInv, Called
  <1>14. HolderExact'
    BY <1>10 DEF IInv, HolderExact, Request, Inside
  <1>15. DataCurrent'
    BY <1>9, <1>10, <1>12 DEF DataCurrent, Inside
  <1>16. Handshake'
    <2>1. holder' = t /\ semaphore' = 0 /\ pending' = due
      BY <1>10 DEF IInv, HolderExact, Handshake, Asleep, Request, Inside
    <2> QED  BY <2>1, <1>9, <1>10, <1>12, DiskAssumption DEF Handshake, Inside
  <1> QED  BY <1>11, <1>13, <1>14, <1>15, <1>16 DEF IInv

LEMMA PStep ==
  ASSUME IInv, NEW t \in Thread, P(t)
  PROVE  IInv'
  <1> USE DEF P, deviceVars
  <1>1. /\ pc'[t] = "release"
        /\ \A u \in Thread : u # t => pc'[u] = pc[u]
    BY DEF IInv, TypeOK
  <1>2. /\ ~active /\ pending = NULL /\ semaphore = 1
        /\ call[t].when <= totalTicks
    BY DEF IInv, Handshake
  <1>3. TypeOK'
    BY <1>2 DEF IInv, TypeOK
  <1>4. Called' /\ DataCurrent' /\ HolderExact'
    BY <1>1 DEF IInv, Called, DataCurrent, HolderExact, Inside
  <1>5. \A u \in Thread : u # t => pc[u] \notin Inside
    BY Alone DEF IInv, Inside
  <1>6. Handshake'
    BY <1>1, <1>2, <1>5, DiskAssumption
       DEF IInv, HolderExact, Handshake, Asleep, Inside
  <1> QED  BY <1>3, <1>4, <1>6 DEF IInv

LEMMA ReleaseStep ==
  ASSUME IInv, NEW t \in Thread, Release(t)
  PROVE  IInv'
  <1> USE DEF Release, deviceVars
  <1>1. /\ pc'[t] = "idle"
        /\ \A u \in Thread : u # t => pc'[u] = pc[u] /\ call'[u] = call[u]
    BY DEF IInv, TypeOK
  <1>2. TypeOK' /\ Called'
    BY <1>1 DEF IInv, TypeOK, Called
  <1>3. \A u \in Thread : u # t => pc[u] \notin Inside
    BY Alone DEF IInv, Inside
  <1>4. HolderExact' /\ DataCurrent'
    BY <1>1, <1>3, DiskAssumption DEF HolderExact, DataCurrent, Inside
  <1>5. Handshake'
    BY <1>1, <1>3 DEF IInv, Handshake, Asleep, Inside
  <1> QED  BY <1>2, <1>4, <1>5 DEF IInv

(* The interrupt finds the holder waiting, and its request is the one that *)
(* is due.                                                                 *)
LEMMA CallBackStep ==
  ASSUME IInv, CallBack
  PROVE  IInv'
  <1> USE DEF CallBack, RequestDone
  <1>1. holder \in Thread /\ pc[holder] = "wait" /\ semaphore = 0
        /\ pending = call[holder].when
    BY DEF IInv, TypeOK, HolderExact, Handshake, Asleep, Inside
  <1>2. \A u \in Thread : u # holder => pc[u] \notin Inside
    BY DEF IInv, HolderExact
  <1>3. TypeOK'
    <2>1. active' \in BOOLEAN /\ pending' \in Nat \cup {NULL}
      OBVIOUS
    <2>2. semaphore' \in {0, 1}
      BY <1>1
    <2> QED  BY <2>1, <2>2 DEF IInv, TypeOK
  <1>4. Called' /\ DataCurrent' /\ HolderExact'
    BY DEF IInv, Called, DataCurrent, HolderExact
  <1>5. Handshake'
    BY <1>1, <1>2, DiskAssumption DEF Handshake, Asleep, Inside, IInv, TypeOK
  <1> QED  BY <1>3, <1>4, <1>5 DEF IInv

LEMMA TickStep ==
  ASSUME IInv, Tick
  PROVE  IInv'
  <1> USE DEF Tick, deviceVars
  <1>1. TypeOK' /\ totalTicks' = totalTicks + 1 /\ totalTicks \in Nat
    BY DEF IInv, TypeOK
  <1>2. Called' /\ DataCurrent' /\ HolderExact'
    BY DEF IInv, Called, DataCurrent, HolderExact
  <1>3. ASSUME NEW t \in Thread, pc[t] # "idle" PROVE call[t].when \in Nat
    BY <1>3 DEF IInv, Called, Call
  <1>4. Handshake'
    BY <1>1, <1>3 DEF IInv, Handshake, Asleep
  <1> QED  BY <1>1, <1>2, <1>4 DEF IInv

LEMMA StepIInv == IInv /\ [Next]_vars => IInv'
  <1> SUFFICES ASSUME IInv, [Next]_vars PROVE IInv'
    OBVIOUS
  <1>1. CASE UNCHANGED vars
    BY <1>1 DEF vars, deviceVars, IInv, TypeOK, Called, HolderExact, Handshake,
       Asleep, DataCurrent
  <1>2. CASE CallBack
    BY <1>2, CallBackStep
  <1>3. CASE Tick
    BY <1>3, TickStep
  <1>4. ASSUME NEW t \in Thread, Start(t) \/ Step(t) PROVE IInv'
    BY <1>4, StartStep, AcquireStep, RequestStep, PStep, ReleaseStep DEF Step
  <1> QED  BY <1>1, <1>2, <1>3, <1>4 DEF Next

LEMMA Invariance == Spec => []IInv
  BY InitIInv, StepIInv, PTL DEF Spec

-----------------------------------------------------------------------------
(* How long a request takes, in slots: slot k is the time from tick        *)
(* k * RotationTime on, for one sector to pass.                            *)

LEMMA DivModExact ==
  ASSUME NEW a \in Nat, NEW b \in Nat \ {0}
  PROVE  a = b * (a \div b) + (a % b)
  OBVIOUS

LEMMA TimesOrder ==
  ASSUME NEW a \in Int, NEW b \in Int, NEW c \in Nat \ {0}
  PROVE  /\ a <= b => a * c <= b * c
         /\ a < b => a * c < b * c
         /\ a * c < b * c => a < b
         /\ a * c <= b * c => a <= b
         /\ (a + 1) * c = a * c + c
         /\ (a - 1) * c = a * c - c
         /\ a * c \in Int
  OBVIOUS

LEMMA ModUnique ==
  ASSUME NEW b \in Nat \ {0}, NEW q \in Nat, NEW r \in Nat, r < b
  PROVE  (b * q + r) % b = r
  OBVIOUS

LEMMA DivUnique ==
  ASSUME NEW b \in Nat \ {0}, NEW q \in Nat
  PROVE  (q * b) \div b = q
  OBVIOUS

(* From slot n on, the first one of sector s comes ModuloDiff slots later. *)
LEMMA NextSlot ==
  ASSUME NEW s \in Nat, NEW n \in Nat
  PROVE  /\ ModuloDiff(s, n) \in Nat
         /\ (n + ModuloDiff(s, n)) % SectorsPerTrack = s % SectorsPerTrack
         /\ \A k \in Nat : n <= k /\ k % SectorsPerTrack = s % SectorsPerTrack
                             => n + ModuloDiff(s, n) <= k
  <1>1. PICK S \in Nat \ {0} : S = SectorsPerTrack
    BY DiskAssumption
  <1>2. PICK a \in Nat : a = s % S /\ a < S
    <2>1. s % S \in Nat /\ s % S < S
      BY DivMod
    <2> QED  BY <2>1
  <1>3. PICK b \in Nat, q \in Nat : b = n % S /\ b < S /\ q = n \div S /\ n = S * q + b
    <2>1. n % S \in Nat /\ n % S < S /\ n \div S \in Nat /\ n = S * (n \div S) + (n % S)
      BY DivMod, DivModExact
    <2> QED  BY <2>1
  <1>4. PICK m : m = ModuloDiff(s, n)
    OBVIOUS
  <1>5. m = ((a - b) + S) % S
    BY <1>1, <1>2, <1>3, <1>4 DEF ModuloDiff
  <1>6. CASE b <= a
    <2>1. m = a - b
      <3>1. (S * 1 + (a - b)) % S = a - b
        BY <1>2, <1>3, <1>6, ModUnique
      <3> QED  BY <1>5, <3>1
    <2>2. (n + m) % S = a
      <3>1. n + m = S * q + a
        <4>1. S * q \in Nat
          BY TimesNat
        <4> QED  BY <1>2, <1>3, <2>1, <4>1
      <3>2. q \in Nat
        OBVIOUS
      <3>3. (S * q + a) % S = a
        BY <1>2, <3>2, ModUnique
      <3> QED  BY <3>1, <3>3
    <2>3. ASSUME NEW k \in Nat, n <= k, k % S = a PROVE n + m <= k
      <3>1. PICK p \in Nat : k = S * p + a
        <4>1. k \div S \in Nat /\ k = S * (k \div S) + (k % S)
          BY DivMod, DivModExact
        <4> QED  BY <2>3, <4>1
      <3>2. q < p + 1
        <4> SUFFICES ASSUME p + 1 <= q PROVE FALSE
          OBVIOUS
        <4>1. (p + 1) * S <= q * S /\ (p + 1) * S = p * S + S
          BY TimesOrder
        <4> QED  BY <1>2, <1>3, <2>3, <3>1, <4>1
      <3>3. q * S <= p * S
        BY <3>2, TimesOrder
      <3> QED  BY <1>2, <1>3, <2>1, <3>1, <3>3
    <2> QED  BY <1>1, <1>2, <1>3, <1>4, <1>6, <2>1, <2>2, <2>3
  <1>7. CASE a < b
    <2>1. m = (a - b) + S
      <3>1. (S * 0 + ((a - b) + S)) % S = (a - b) + S
        BY <1>2, <1>3, <1>7, ModUnique
      <3> QED  BY <1>5, <3>1
    <2>2. (n + m) % S = a
      <3>1. n + m = S * (q + 1) + a
        BY <1>2, <1>3, <2>1
      <3>2. q + 1 \in Nat
        OBVIOUS
      <3>3. (S * (q + 1) + a) % S = a
        BY <1>2, <3>2, ModUnique
      <3> QED  BY <3>1, <3>3
    <2>3. ASSUME NEW k \in Nat, n <= k, k % S = a PROVE n + m <= k
      <3>1. PICK p \in Nat : k = S * p + a
        <4>1. k \div S \in Nat /\ k = S * (k \div S) + (k % S)
          BY DivMod, DivModExact
        <4> QED  BY <2>3, <4>1
      <3>2. q < p
        <4> SUFFICES ASSUME p <= q PROVE FALSE
          OBVIOUS
        <4>1. p * S <= q * S
          BY TimesOrder
        <4> QED  BY <1>2, <1>3, <1>7, <2>3, <3>1, <4>1
      <3>3. (q + 1) * S <= p * S /\ (q + 1) * S = q * S + S
        BY <3>2, TimesOrder
      <3> QED  BY <1>2, <1>3, <2>1, <3>1, <3>3
    <2> QED  BY <1>1, <1>2, <1>3, <1>4, <1>7, <2>1, <2>2, <2>3
  <1> QED  BY <1>2, <1>3, <1>6, <1>7

(* If slot n is the first to begin at or after tick from, then sector s    *)
(* has passed by tick to exactly if its first slot from there is over.     *)
LEMMA PassesExact ==
  ASSUME NEW s \in Nat, NEW from \in Nat, NEW to \in Int, to >= -1, NEW n \in Nat,
         from <= n * RotationTime, n * RotationTime < from + RotationTime
  PROVE  Passes(s, from, to) <=> (n + ModuloDiff(s, n) + 1) * RotationTime <= to
  <1>1. PICK R \in Nat \ {0} : R = RotationTime
    BY DiskAssumption
  <1>2. PICK m \in Nat : m = ModuloDiff(s, n)
    BY NextSlot
  <1>3. PICK k \in Nat : k = n + m
    OBVIOUS
  <1>4. n * R <= k * R /\ (k + 1) * R = k * R + R /\ k * R \in Int /\ n * R \in Int
    BY <1>3, TimesOrder
  <1>5. ASSUME Passes(s, from, to) PROVE (k + 1) * R <= to
    <2>1. PICK i \in (from \div R)..(to \div R) :
             i * R >= from /\ (i + 1) * R <= to
             /\ i % SectorsPerTrack = s % SectorsPerTrack
      BY <1>1, <1>5 DEF Passes
    <2>2. i \in Nat
      BY <2>1, DivMod
    <2>3. n <= i
      <3> SUFFICES ASSUME i + 1 <= n PROVE FALSE
        BY <2>2
      <3>1. (i + 1) * R <= n * R /\ (i + 1) * R = i * R + R /\ i * R \in Int
        BY <2>2, TimesOrder
      <3> QED  BY <1>1, <1>4, <2>1, <2>2, <3>1
    <2>4. k <= i
      BY <1>2, <1>3, <2>1, <2>2, <2>3, NextSlot
    <2>5. (k + 1) * R <= (i + 1) * R /\ (i + 1) * R \in Int
      BY <2>2, <2>4, TimesOrder
    <2> QED  BY <1>4, <2>1, <2>5
  <1>6. ASSUME (k + 1) * R <= to PROVE Passes(s, from, to)
    <2>1. to \in Nat
      BY <1>4, <1>6, <1>1
    <2>2. k * R >= from
      BY <1>1, <1>4
    <2>3. k <= to \div R
      <3>1. PICK d \in Nat, e \in Nat : d = to \div R /\ to = R * d + e /\ e < R
        BY <2>1, DivMod, DivModExact
      <3>2. ~(d + 1 <= k)
        <4> SUFFICES ASSUME d + 1 <= k PROVE FALSE
          OBVIOUS
        <4>1. (d + 1) * R <= k * R /\ (d + 1) * R = d * R + R
          BY TimesOrder
        <4> QED  BY <1>4, <1>6, <3>1, <4>1
      <3> QED  BY <3>1, <3>2
    <2>4. from \div R <= k
      <3>1. PICK d \in Nat, e \in Nat : d = from \div R /\ from = R * d + e
        BY DivMod, DivModExact
      <3>2. d * R <= k * R
        BY <1>4, <2>2, <3>1
      <3> QED  BY <3>1, <3>2, TimesOrder
    <2>5. k \in (from \div R)..(to \div R)
      BY <2>1, <2>3, <2>4, DivMod
    <2>6. k % SectorsPerTrack = s % SectorsPerTrack
      BY <1>2, <1>3, NextSlot
    <2> QED  BY <1>1, <1>6, <2>2, <2>5, <2>6 DEF Passes
  <1> QED  BY <1>1, <1>2, <1>3, <1>5, <1>6

-----------------------------------------------------------------------------
(* bufferInit is the beginning of the first slot after the head came to    *)
(* the track, and between two requests the head has arrived.               *)
HeadInv ==
    /\ \E n \in Nat : bufferInit = n * RotationTime
    /\ arrival <= bufferInit /\ bufferInit < arrival + RotationTime
    /\ arrival <= IF pending = NULL THEN totalTicks ELSE pending

DInv == IInv /\ HeadInv /\ LatencyExact

(* What TimeToSeek and ComputeLatency compute, in slots. *)
LEMMA LatencyInSlots ==
  ASSUME TypeOK, NEW s \in Sector
  PROVE  /\ s \in Nat /\ Seek(s) \in Nat /\ totalTicks \in Nat
         /\ totalTicks + Seek(s) <= TimeAfter(s)
         /\ TimeAfter(s) < totalTicks + Seek(s) + RotationTime
         /\ \E n \in Nat : TimeAfter(s) = n * RotationTime
  <1>1. s \in Nat /\ lastSector \in Nat
    BY DiskAssumption DEF Sector, NumSectors, TypeOK
  <1>2. Track(s) \in Nat /\ Track(lastSector) \in Nat
    BY <1>1, DivMod, DiskAssumption DEF Track
  <1>3. Distance(Track(s), Track(lastSector)) \in Nat
    BY <1>2 DEF Distance
  <1>4. PICK k \in Nat : k = Seek(s)
    BY <1>3, TimesNat, DiskAssumption DEF Seek
  <1>5. PICK R \in Nat \ {0} : R = RotationTime
    BY DiskAssumption
  <1>6. PICK a \in Nat : a = totalTicks + k
    BY DEF TypeOK
  <1>7. PICK q \in Nat, o \in Nat : a = q * R + o /\ o < R /\ o = Over(s)
    <2>1. a \div R \in Nat /\ a % R \in Nat /\ a % R < R /\ a = R * (a \div R) + (a % R)
      BY DivMod, DivModExact
    <2>2. a = (a \div R) * R + (a % R)
      BY <2>1
    <2> QED  BY <1>4, <1>5, <1>6, <2>1, <2>2 DEF Over
  <1>8. q * R \in Nat /\ (q + 1) * R = q * R + R
    BY TimesNat, TimesOrder
  <1>9. TimeAfter(s) = a + (IF o > 0 THEN R - o ELSE 0)
    BY <1>4, <1>5, <1>6, <1>7 DEF TimeAfter, Rotation, TypeOK
  <1>10. CASE o = 0
    BY <1>1, <1>4, <1>5, <1>6, <1>7, <1>8, <1>9, <1>10 DEF TypeOK
  <1>11. CASE o # 0
    <2>1. TimeAfter(s) = (q + 1) * R
      BY <1>7, <1>8, <1>9, <1>11
    <2>2. q + 1 \in Nat
      OBVIOUS
    <2>3. \E n \in Nat : TimeAfter(s) = n * RotationTime
      BY <1>5, <2>1, <2>2
    <2>4. a <= TimeAfter(s) /\ TimeAfter(s) < a + R
      BY <1>7, <1>9, <1>11
    <2> QED  BY <1>1, <1>4, <1>5, <1>6, <2>3, <2>4 DEF TypeOK
  <1> QED  BY <1>7, <1>10, <1>11

(* The statement of LatencyExact for one request: on sector s, a write or  *)
(* not, made at tick at and due at tick due, the head on the track from    *)
(* tick arr on.                                                            *)
ExactLatency(s, writing, at, due, arr) ==
    LET from == LaterOf(at, arr)
    IN  IF due - RotationTime = at
        THEN Passes(s, IF writing THEN from ELSE arr, due)
        ELSE /\ Passes(s, from, due)
             /\ ~Passes(s, from, due - 1)
             /\ ~writing => ~Passes(s, arr, at)

(* The tick ComputeLatency says is the one at which the hardware is done. *)
LEMMA LatencyIsPassage ==
  ASSUME TypeOK, HeadInv, pending = NULL, NEW s \in Sector, NEW w \in BOOLEAN,
         NEW arr, arr = IF Seek(s) # 0 THEN totalTicks + Seek(s) ELSE arrival,
         NEW due, due = totalTicks + ComputeLatency(s, w)
  PROVE  /\ due \in Nat /\ arr <= due /\ totalTicks <= due
         /\ ExactLatency(s, w, totalTicks, due, arr)
  <1>1. PICK R \in Nat \ {0} : R = RotationTime
    BY DiskAssumption
  <1>2. PICK T \in Nat : T = totalTicks
    BY DEF TypeOK
  <1>3. PICK k \in Nat : k = Seek(s)
    BY LatencyInSlots
  <1>4. PICK U \in Nat : TimeAfter(s) = U * R /\ T + k <= U * R /\ U * R < T + k + R
    BY <1>1, <1>2, <1>3, LatencyInSlots
  <1>5. PICK B \in Nat : bufferInit = B * R /\ arrival <= B * R /\ B * R < arrival + R
    BY <1>1 DEF HeadInv
  <1>6. s \in Nat /\ arrival \in Nat /\ arr \in Nat /\ arrival <= T
    BY <1>2, <1>3, LatencyInSlots DEF TypeOK, HeadInv
  <1>7. PICK m \in Nat : m = ModuloDiff(s, U)
    BY <1>6, NextSlot
  <1>8. PICK mB \in Nat : mB = ModuloDiff(s, B)
    BY <1>6, NextSlot
  <1>9. /\ U * R \in Nat /\ B * R \in Nat /\ m * R \in Nat
        /\ (U + m + 1) * R = U * R + m * R + R
        /\ TimeAfter(s) \div R = U /\ bufferInit \div R = B
    BY <1>4, <1>5, TimesNat, DivUnique
  <1>10. LaterOf(T, arr) = T + k
    BY <1>2, <1>3, <1>6 DEF LaterOf
  \* When the sector passes, as seen from each of the three ticks.
  <1>11. ASSUME NEW to \in Int, to >= -1
         PROVE  Passes(s, T + k, to) <=> (U + m + 1) * R <= to
    BY <1>1, <1>4, <1>6, <1>7, <1>11, PassesExact
  <1>12. ASSUME NEW to \in Int, to >= -1
         PROVE  Passes(s, arrival, to) <=> (B + mB + 1) * R <= to
    BY <1>1, <1>5, <1>6, <1>8, <1>12, PassesExact
  <1>13. k = 0 => B <= U
    <2> SUFFICES ASSUME k = 0, U + 1 <= B PROVE FALSE
      OBVIOUS
    <2>1. (U + 1) * R <= B * R /\ (U + 1) * R = U * R + R
      BY TimesOrder
    <2> QED  BY <1>4, <1>5, <1>6, <1>9, <2>1
  <1>14. k = 0 => (Buffered(s) <=> U - B > mB)
    <2> SUFFICES ASSUME k = 0 PROVE Buffered(s) <=> U - B > mB
      OBVIOUS
    <2>1. PICK d \in Nat : d = U - B
      BY <1>13
    <2>2. U * R - B * R = d * R
      BY <2>1
    <2>3. (d * R) \div R = d
      BY DivUnique
    <2> QED  BY <1>1, <1>4, <1>5, <1>8, <1>9, <2>1, <2>2, <2>3 DEF Buffered
  <1>15. CASE ~w /\ k = 0 /\ Buffered(s)
    <2>1. due = T + R /\ arr = arrival
      BY <1>1, <1>2, <1>3, <1>15 DEF ComputeLatency
    <2>2. (B + mB + 1) * R <= U * R
      <3>1. B + mB + 1 <= U
        BY <1>14, <1>15
      <3> QED  BY <3>1, TimesOrder
    <2>3. Passes(s, arr, due)
      <3>1. U * R <= T + R
        BY <1>4, <1>9, <1>15
      <3>2. (B + mB + 1) * R \in Nat
        BY TimesNat
      <3>3. (B + mB + 1) * R <= T + R
        BY <1>9, <2>2, <3>1, <3>2
      <3> QED  BY <1>12, <2>1, <3>3
    <2> QED  BY <1>1, <1>2, <1>6, <1>15, <2>1, <2>3 DEF ExactLatency
  <1>16. CASE ~(~w /\ k = 0 /\ Buffered(s))
    <2>1. due = (U + m + 1) * R
      <3>1. ComputeLatency(s, w) = k + Rotation(s) + m * R + R
        BY <1>1, <1>3, <1>7, <1>9, <1>16 DEF ComputeLatency
      <3>2. PICK r \in Nat : r = Rotation(s) /\ T + k + r = U * R
        <4>1. Rotation(s) \in Nat
          <5>1. T + k \in Nat
            OBVIOUS
          <5>2. Over(s) \in Nat /\ Over(s) < R
            BY <1>1, <1>2, <1>3, <5>1, DivMod DEF Over
          <5> QED  BY <1>1, <5>2 DEF Rotation
        <4> QED  BY <1>2, <1>3, <1>4, <4>1 DEF TimeAfter
      <3>3. due = T + (k + r + m * R + R)
        BY <1>2, <3>1, <3>2
      <3>4. due = U * R + m * R + R
        <4>1. PICK x \in Nat : x = m * R
          BY <1>9
        <4>2. PICK y \in Nat : y = U * R
          BY <1>9, <3>2
        <4>3. due = T + (k + r + x + R) /\ T + k + r = y
          BY <3>2, <3>3, <4>1, <4>2
        <4>4. due = y + x + R
          BY <4>3
        <4> QED  BY <4>1, <4>2, <4>4
      <3> QED  BY <1>9, <3>4
    <2>2. due \in Nat /\ arr <= due /\ T <= due /\ due > 0
      BY <1>2, <1>3, <1>4, <1>6, <1>9, <2>1
    <2>3. Passes(s, T + k, due) /\ ~Passes(s, T + k, due - 1)
      BY <1>11, <2>1, <2>2
    <2>4. ASSUME ~w PROVE ~Passes(s, arr, T)
      <3>1. CASE k = 0
        <4>1. U <= B + mB
          BY <1>14, <1>16, <2>4, <3>1
        <4>2. U * R <= (B + mB) * R /\ (B + mB + 1) * R = (B + mB) * R + R
              /\ (B + mB) * R \in Int
          BY <4>1, TimesOrder
        <4>3. ~((B + mB + 1) * R <= T)
          BY <1>4, <1>9, <3>1, <4>2
        <4> QED  BY <1>3, <1>12, <3>1, <4>3
      <3>2. CASE k # 0
        <4>1. arr = T + k
          BY <1>2, <1>3, <3>2
        <4> QED  BY <1>4, <1>9, <1>11, <4>1
      <3> QED  BY <3>1, <3>2
    <2>5. ASSUME due - R = T PROVE Passes(s, IF w THEN T + k ELSE arr, due)
      <3>1. k = 0 /\ m = 0
        <4>1. U * R + m * R = T
          BY <1>9, <2>1, <2>5
        <4>2. k = 0 /\ m * R = 0
          BY <1>4, <1>9, <4>1
        <4>3. ~(0 < m)
          BY <4>2, TimesOrder
        <4> QED  BY <4>2, <4>3
      <3>2. U % SectorsPerTrack = s % SectorsPerTrack
        <4>1. (U + m) % SectorsPerTrack = s % SectorsPerTrack
          BY <1>6, <1>7, NextSlot
        <4>2. U + m = U
          BY <3>1
        <4> QED  BY <4>1, <4>2
      <3>3. B + mB <= U
        BY <1>6, <1>8, <1>13, <3>1, <3>2, NextSlot
      <3>4. (B + mB + 1) * R <= (U + m + 1) * R
        BY <3>1, <3>3, TimesOrder
      <3>5. Passes(s, arrival, due)
        BY <1>12, <2>1, <2>2, <3>4
      <3> QED  BY <1>3, <2>3, <3>1, <3>5
    <2> QED  BY <1>1, <1>2, <1>10, <2>2, <2>3, <2>4, <2>5 DEF ExactLatency
  <1> QED  BY <1>15, <1>16

LEMMA InitDInv == Init => DInv
  <1> SUFFICES ASSUME Init PROVE DInv
    OBVIOUS
  <1>1. RotationTime \in Nat \ {0} /\ 0 * RotationTime = 0
    BY DiskAssumption
  <1>2. HeadInv
    BY <1>1 DEF Init, DiskInit, HeadInv
  <1>3. LatencyExact
    BY DEF Init, LatencyExact
  <1> QED  BY <1>2, <1>3, InitIInv DEF DInv

(* Only the holder of the lock waits, so a request changes the head under  *)
(* nobody else's.                                                          *)
LEMMA RequestLatency ==
  ASSUME DInv, NEW t \in Thread, Request(t)
  PROVE  HeadInv' /\ LatencyExact'
  <1>1. PICK s \in Sector, w \in BOOLEAN : s = call[t].sector /\ w = call[t].writing
    BY DEF DInv, IInv, Called, Call, Request
  <1>2. TypeOK /\ HeadInv /\ pending = NULL
    BY DEF DInv, IInv, Handshake, Asleep, Request
  <1>3. PICK due : due = totalTicks + ComputeLatency(s, w)
    OBVIOUS
  <1>4. PICK arr : arr = IF Seek(s) # 0 THEN totalTicks + Seek(s) ELSE arrival
    OBVIOUS
  <1>5. /\ due \in Nat /\ arr <= due /\ totalTicks <= due
        /\ ExactLatency(s, w, totalTicks, due, arr)
    BY <1>2, <1>3, <1>4, LatencyIsPassage
  <1>6. /\ totalTicks' = totalTicks /\ pending' = due /\ arrival' = arr
        /\ bufferInit' = IF Seek(s) # 0 THEN TimeAfter(s) ELSE bufferInit
    BY <1>1, <1>3, <1>4 DEF Request, UpdateLast
  <1>7. call'[t].sector = s /\ call'[t].writing = w /\ call'[t].at = totalTicks
        /\ call'[t].when = due
    <2>1. call[t] \in Call /\ t \in DOMAIN call
      BY DEF DInv, IInv, TypeOK, Called, Request
    <2> QED  BY <1>1, <1>3, <2>1 DEF Request, Call
  <1>8. ASSUME NEW u \in Thread, pc'[u] = "wait" PROVE u = t
    BY <1>8 DEF DInv, IInv, TypeOK, HolderExact, Inside, Request
  <1>9. HeadInv'
    <2>1. arrival' <= IF pending' = NULL THEN totalTicks' ELSE pending'
      BY <1>5, <1>6, DiskAssumption
    <2>2. CASE Seek(s) # 0
      BY <1>2, <1>4, <1>6, <2>1, <2>2, LatencyInSlots DEF HeadInv
    <2>3. CASE Seek(s) = 0
      BY <1>2, <1>4, <1>6, <2>1, <2>3 DEF HeadInv
    <2> QED  BY <2>2, <2>3
  <1>10. LatencyExact'
    BY <1>5, <1>6, <1>7, <1>8 DEF LatencyExact, ExactLatency, Passes, LaterOf
  <1> QED  BY <1>9, <1>10

LEMMA StepDInv == DInv /\ [Next]_vars => DInv'
  <1> SUFFICES ASSUME DInv, [Next]_vars PROVE DInv'
    OBVIOUS
  <1>1. IInv'
    BY StepIInv DEF DInv
  <1>2. CASE UNCHANGED vars
    BY <1>1, <1>2 DEF vars, deviceVars, DInv, HeadInv, LatencyExact, Passes, LaterOf
  <1>3. CASE CallBack
    <2>1. HeadInv'
      BY <1>3 DEF DInv, IInv, TypeOK, HeadInv, CallBack
    <2>2. LatencyExact'
      BY <1>3 DEF DInv, LatencyExact, CallBack, Passes, LaterOf
    <2> QED  BY <1>1, <2>1, <2>2 DEF DInv
  <1>4. CASE Tick
    <2>1. HeadInv'
      BY <1>4 DEF DInv, IInv, TypeOK, HeadInv, Tick, deviceVars
    <2>2. LatencyExact'
      BY <1>4 DEF DInv, LatencyExact, Tick, deviceVars, Passes, LaterOf
    <2> QED  BY <1>1, <2>1, <2>2 DEF DInv
  <1>5. ASSUME NEW t \in Thread, Request(t) PROVE DInv'
    BY <1>1, <1>5, RequestLatency DEF DInv
  <1>6. ASSUME NEW t \in Thread, Start(t) \/ Acquire(t) \/ P(t) \/ Release(t) PROVE DInv'
    <2>1. UNCHANGED << totalTicks, bufferInit, pending, arrival >>
      BY <1>6 DEF Start, Acquire, P, Release, deviceVars
    <2>2. HeadInv'
      BY <2>1 DEF DInv, HeadInv
    <2>3. ASSUME NEW u \in Thread, pc'[u] = "wait"
          PROVE  pc[u] = "wait" /\ call'[u] = call[u]
      BY <1>6, <2>3 DEF DInv, IInv, TypeOK, Start, Acquire, P, Release
    <2>4. LatencyExact'
      BY <2>1, <2>3 DEF DInv, LatencyExact, Passes, LaterOf
    <2> QED  BY <1>1, <2>2, <2>4 DEF DInv
  <1> QED  BY <1>2, <1>3, <1>4, <1>5, <1>6 DEF Next, Step

(* The interrupt of every request comes at the tick at which a disk of any *)
(* geometry and speed, its head moving and its platter turning as the      *)
(* comment of ComputeLatency describes, has the sector read or written.    *)
THEOREM LatencyIsExact == Spec => []LatencyExact
  <1>1. DInv => LatencyExact
    BY DEF DInv
  <1> QED  BY <1>1, InitDInv, StepDInv, PTL DEF Spec

-----------------------------------------------------------------------------
(* The ASSERTs of Disk::ReadRequest and WriteRequest never fail, however   *)
(* many threads use the disk.                                              *)
THEOREM RequestsSerialised == Spec => []OneRequestAtATime
  <1>1. IInv => OneRequestAtATime
    BY DEF IInv, Handshake, Asleep, OneRequestAtATime
  <1> QED  BY <1>1, Invariance, PTL

(* ReadSector and WriteSector return after the interrupt of their own      *)
(* request.                                                                *)
THEOREM CompletionsMatch == Spec => []OwnCompletion
  <1>1. IInv => OwnCompletion
    BY DEF IInv, Handshake, Asleep, OwnCompletion
  <1> QED  BY <1>1, Invariance, PTL

(* What ReadSector returns is what the sector holds at that moment, and    *)
(* what WriteSector wrote is still there when it returns.                  *)
THEOREM ReadsCurrent == Spec => []DataCurrent
  <1>1. IInv => DataCurrent
    BY DEF IInv
  <1> QED  BY <1>1, Invariance, PTL
=============================================================================
