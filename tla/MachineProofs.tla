--------------------------- MODULE MachineProofs ---------------------------
(***************************************************************************)
(* Proofs about Machine, for bytes of any width, any size and number of    *)
(* pages, any page tables and any programs: registers hold words, memory   *)
(* holds bytes, and the kernel sees what the program sees.                 *)
(*                                                                         *)
(* The values come first: the numbers FromDigits, Mult and JoinAt build    *)
(* are words.  Then what a translation that succeeds says of the physical  *)
(* address, and then the actions, most of which are a Complete or a        *)
(* RaiseException.                                                         *)
(***************************************************************************)
EXTENDS Machine, WellFoundedInduction, TLAPS

(* Induction up to n, for a set T of numbers. *)
LEMMA Climb ==
  ASSUME NEW n \in Nat, NEW T, 0 \in T, \A i \in 1..n : i - 1 \in T => i \in T
  PROVE  \A i \in 0..n : i \in T
  <1> SUFFICES ASSUME NEW k \in 0..n, k \notin T PROVE FALSE
    OBVIOUS
  <1>1. PICK B : B = {i \in 0..n : i \notin T}
    OBVIOUS
  <1>2. B \in SUBSET Nat /\ B # {}
    BY <1>1
  <1>3. \E x \in B : \A y \in B : ~(<< y, x >> \in OpToRel(<, Nat))
    BY <1>2, NatLessThanWellFounded, WFMin
  <1>4. PICK x \in B : \A y \in B : << y, x >> \notin OpToRel(<, Nat)
    BY <1>3
  <1>5. \A y \in B : ~(y < x)
    BY <1>2, <1>4, Zenon DEF OpToRel
  <1>6. x \in 1..n /\ x - 1 \in 0..n /\ x - 1 < x
    BY <1>1
  <1>7. x - 1 \in T
    BY <1>1, <1>5, <1>6
  <1> QED  BY <1>1, <1>6, <1>7

(* A function is defined by its first value and the step to the next. *)
Steps(step, n, S) == step \in [(1..n) \X S -> S]
Repeats(g, n, base, step) == g[0] = base /\ \A i \in 1..n : g[i] = step[<< i, g[i - 1] >>]
LEMMA Recursion ==
  ASSUME NEW n \in Nat, NEW S, NEW base \in S, NEW step, Steps(step, n, S)
  PROVE  \E g \in [0..n -> S] : Repeats(g, n, base, step)
  <1> USE DEF Steps, Repeats
  <1>1. PICK T : T = {k \in 0..n : \E g \in [0..k -> S] :
                         g[0] = base /\ \A i \in 1..k : g[i] = step[<< i, g[i - 1] >>]}
    OBVIOUS
  <1>2. 0 \in T
    <2>1. PICK g : g = [i \in 0..0 |-> base]
      OBVIOUS
    <2>2. g \in [0..0 -> S] /\ g[0] = base /\ 1..0 = {}
      BY <2>1
    <2> QED  BY <1>1, <2>2
  <1>3. ASSUME NEW k \in 1..n, k - 1 \in T PROVE k \in T
    <2>1. PICK g \in [0..(k - 1) -> S] :
             g[0] = base /\ \A i \in 1..(k - 1) : g[i] = step[<< i, g[i - 1] >>]
      BY <1>1, <1>3
    <2>2. PICK h : h = [i \in 0..k |-> IF i = k THEN step[<< k, g[k - 1] >>] ELSE g[i]]
      OBVIOUS
    <2>3. step[<< k, g[k - 1] >>] \in S
      BY <2>1
    <2>4. h \in [0..k -> S] /\ h[0] = base
      BY <2>1, <2>2, <2>3
    <2>5. ASSUME NEW i \in 1..k PROVE h[i] = step[<< i, h[i - 1] >>]
      <3>1. h[i - 1] = g[i - 1] /\ i - 1 \in 0..(k - 1)
        BY <2>2
      <3>2. CASE i = k
        <4>1. h[k] = step[<< k, g[k - 1] >>]
          BY <2>2
        <4> QED  BY <3>1, <3>2, <4>1, Zenon
      <3>3. CASE i # k
        BY <2>1, <2>2, <3>1, <3>3
      <3> QED  BY <3>2, <3>3
    <2> QED  BY <1>1, <2>4, <2>5
  <1>4. n \in T
    BY <1>2, <1>3, Climb
  <1> QED  BY <1>1, <1>4

-----------------------------------------------------------------------------
(* Powers of two, words and bytes. *)
LEMMA Bits == WordBits \in Nat /\ WordBits >= 4 /\ ByteBits \in Nat /\ ByteBits > 0
  BY ByteBitsAssumption DEF WordBits

LEMMA Powers == \A n \in 0..WordBits : 2^n \in Nat /\ 2^n > 0
  <1>1. PICK T : T = {n \in 0..WordBits : 2^n \in Nat /\ 2^n > 0}
    OBVIOUS
  <1>2. 0 \in T
    BY <1>1, Bits
  <1>3. ASSUME NEW i \in 1..WordBits, i - 1 \in T PROVE i \in T
    <2>1. PICK m : m = i - 1
      OBVIOUS
    <2>2. m \in 0..WordBits /\ 1 \in 0..WordBits /\ m + 1 = i /\ m + 1 <= WordBits
      BY <1>3, <2>1, Bits
    <2>3. 2^(m + 1) = 2^m * 2^1
      BY <2>2, PowersOfTwo, Zenon
    <2>4. 2^m \in Nat /\ 2^m > 0 /\ 2^1 = 2
      BY <1>1, <1>3, <2>1
    <2>5. 2^i \in Nat /\ 2^i > 0
      BY <2>2, <2>3, <2>4
    <2> QED  BY <1>1, <2>5
  <1> QED  BY <1>1, <1>2, <1>3, Bits, Climb

LEMMA WordFacts ==
  /\ Modulus \in Nat /\ Modulus >= 2 /\ SIGN_BIT \in Nat /\ Modulus = 2 * SIGN_BIT
  /\ \A i \in Int : ToWord(i) \in Word
  /\ \A w \in Word : w \in Nat
  /\ 0 \in Word /\ 1 \in Word
  <1>1. PICK m : m = WordBits - 1
    OBVIOUS
  <1>2. m \in 0..WordBits /\ 1 \in 0..WordBits /\ m + 1 = WordBits /\ m + 1 <= WordBits
    BY <1>1, Bits
  <1>3. SIGN_BIT \in Nat /\ SIGN_BIT > 0 /\ Modulus = SIGN_BIT * 2
    <2>1. 2^(m + 1) = 2^m * 2^1
      BY <1>2, PowersOfTwo, Zenon
    <2>2. 2^1 = 2 /\ 2^m \in Nat /\ 2^m > 0
      BY <1>2, Powers
    <2>3. SIGN_BIT = 2^m /\ Modulus = 2^(m + 1)
      BY <1>1, <1>2 DEF SIGN_BIT, Modulus
    <2> QED  BY <2>1, <2>2, <2>3
  <1>4. Modulus \in Nat /\ Modulus >= 2 /\ Modulus = 2 * SIGN_BIT
    BY <1>3
  <1> QED  BY <1>3, <1>4 DEF ToWord, Word

LEMMA ByteFacts ==
  /\ \A n \in 0..4 : Bytes(n) \in Nat /\ Bytes(n) > 0 /\ Bytes(n) * Bytes(4 - n) = Modulus
  /\ \A w \in Word, k \in 0..3 : ByteOf(w, k) \in Byte
  /\ Byte = 0..(Bytes(1) - 1) /\ Bytes(0) = 1 /\ Bytes(4) = Modulus
  <1>1. ASSUME NEW n \in 0..4
        PROVE  ByteBits * n \in 0..WordBits /\ ByteBits * (4 - n) \in 0..WordBits
               /\ ByteBits * n + ByteBits * (4 - n) = WordBits
    BY Bits DEF WordBits
  <1>2. ASSUME NEW n \in 0..4
        PROVE  Bytes(n) \in Nat /\ Bytes(n) > 0 /\ Bytes(n) * Bytes(4 - n) = Modulus
    <2>1. PICK a, b : a = ByteBits * n /\ b = ByteBits * (4 - n)
      OBVIOUS
    <2>2. a \in 0..WordBits /\ b \in 0..WordBits /\ a + b = WordBits
      BY <1>1, <2>1
    <2>3. 2^(a + b) = 2^a * 2^b /\ 2^a \in Nat /\ 2^a > 0
      BY <2>2, Bits, Powers, PowersOfTwo
    <2> QED  BY <2>1, <2>2, <2>3 DEF Bytes, Modulus
  <1>3. ByteBits * 1 = ByteBits /\ ByteBits * 0 = 0 /\ 2^0 = 1 /\ ByteBits * 4 = WordBits
    BY Bits DEF WordBits
  <1>4. Byte = 0..(Bytes(1) - 1) /\ Bytes(0) = 1 /\ Bytes(4) = Modulus
    BY <1>3 DEF Byte, Bytes, Modulus
  <1>5. ASSUME NEW w \in Word, NEW k \in 0..3 PROVE ByteOf(w, k) \in Byte
    <2>1. w \in Int /\ Bytes(k) \in Nat /\ Bytes(k) > 0 /\ Bytes(1) \in Nat /\ Bytes(1) > 0
      BY <1>2, WordFacts
    <2>2. PICK q : q = w \div Bytes(k)
      OBVIOUS
    <2>3. q \in Int
      BY <2>1, <2>2
    <2>4. q % Bytes(1) \in 0..(Bytes(1) - 1)
      BY <2>1, <2>3
    <2> QED  BY <1>4, <2>2, <2>4 DEF ByteOf
  <1> QED  BY <1>2, <1>4, <1>5

(* A digit in its place, and what the next place can hold. *)
LEMMA Place ==
  ASSUME NEW n \in Nat, NEW w \in Nat, w * n <= WordBits, NEW i \in 1..n
  PROVE  /\ w * (i - 1) \in 0..WordBits /\ w * i \in 0..WordBits /\ w \in 0..WordBits
         /\ 2^(w * (i - 1)) \in Nat /\ 2^w \in Nat /\ 2^(w * i) \in Nat
         /\ 2^(w * i) = 2^(w * (i - 1)) * 2^w
  <1>1. PICK a, b : a = w * (i - 1) /\ b = w * i
    OBVIOUS
  <1>2. a \in Nat /\ b \in Nat /\ a + w = b
    BY <1>1
  <1>3. b <= w * n
    <2>1. PICK d \in Nat : n = i + d
      <3>1. n - i \in Nat /\ n = i + (n - i)
        OBVIOUS
      <3> QED  BY <3>1
    <2>2. w * n = w * i + w * d /\ w * d \in Nat
      BY <2>1
    <2> QED  BY <1>1, <1>2, <2>2
  <1>4. a \in 0..WordBits /\ b \in 0..WordBits /\ w \in 0..WordBits /\ a + w <= WordBits
    BY <1>2, <1>3, Bits
  <1>5. 2^(a + w) = 2^a * 2^w
    BY <1>4, PowersOfTwo, Zenon
  <1>6. 2^a \in Nat /\ 2^b \in Nat /\ 2^w \in Nat
    BY <1>4, Powers
  <1> QED  BY <1>1, <1>2, <1>4, <1>5, <1>6

(* FromDigits builds a number that the digits have room for. *)
LEMMA DigitsBound ==
  ASSUME NEW n \in Nat, NEW w \in Nat, w * n <= WordBits,
         NEW f, \A i \in 0..(n - 1) : f[i] \in 0..(2^w - 1)
  PROVE  FromDigits(f, n, w) \in 0..(2^(w * n) - 1)
  <1>1. \A i \in 1..n : /\ f[i - 1] \in Nat /\ f[i - 1] <= 2^w - 1
                        /\ 2^(w * (i - 1)) \in Nat /\ f[i - 1] * 2^(w * (i - 1)) \in Int
    <2> SUFFICES ASSUME NEW i \in 1..n
                 PROVE  /\ f[i - 1] \in Nat /\ f[i - 1] <= 2^w - 1
                        /\ 2^(w * (i - 1)) \in Nat /\ f[i - 1] * 2^(w * (i - 1)) \in Int
      OBVIOUS
    <2>1. 2^(w * (i - 1)) \in Nat /\ 2^w \in Nat
      BY Place
    <2>2. f[i - 1] \in 0..(2^w - 1)
      OBVIOUS
    <2>3. f[i - 1] \in Nat /\ f[i - 1] <= 2^w - 1
      BY <2>1, <2>2
    <2> QED  BY <2>1, <2>3
  <1>2. PICK term : term = [i \in 1..n |-> f[i - 1] * 2^(w * (i - 1))]
    OBVIOUS
  <1>3. \A i \in 1..n : term[i] \in Int /\ term[i] = f[i - 1] * 2^(w * (i - 1))
    BY <1>1, <1>2, Zenon
  <1>4. PICK step : step = [p \in (1..n) \X Int |-> p[2] + term[p[1]]]
    OBVIOUS
  <1>5. step \in [(1..n) \X Int -> Int]
    <2>1. ASSUME NEW p \in (1..n) \X Int PROVE p[2] + term[p[1]] \in Int
      <3>1. p[1] \in 1..n /\ p[2] \in Int
        OBVIOUS
      <3>2. term[p[1]] \in Int
        BY <1>3, <3>1
      <3> QED  BY <3>1, <3>2
    <2> QED  BY <1>4, <2>1, Zenon
  <1>6. PICK g \in [0..n -> Int] : g[0] = 0 /\ \A i \in 1..n : g[i] = step[<< i, g[i - 1] >>]
    <2>1. Steps(step, n, Int) /\ 0 \in Int
      BY <1>5 DEF Steps
    <2>2. PICK g \in [0..n -> Int] : Repeats(g, n, 0, step)
      BY <2>1, Recursion
    <2> QED  BY <2>2 DEF Repeats
  <1>7. \A i \in 1..n : g[i] = g[i - 1] + f[i - 1] * 2^(w * (i - 1))
    <2> SUFFICES ASSUME NEW i \in 1..n PROVE g[i] = g[i - 1] + f[i - 1] * 2^(w * (i - 1))
      OBVIOUS
    <2>1. PICK x, p : x = g[i - 1] /\ p = << i, x >>
      OBVIOUS
    <2>2. x \in Int /\ p \in (1..n) \X Int /\ p[1] = i /\ p[2] = x
      BY <1>6, <2>1
    <2>3. step[p] = p[2] + term[p[1]]
      BY <1>4, <2>2, Zenon
    <2>4. g[i] = step[p]
      BY <1>6, <2>1, Zenon
    <2>5. g[i] = x + term[i]
      BY <2>2, <2>3, <2>4, Zenon
    <2> QED  BY <1>3, <2>1, <2>5, Zenon
  <1>8. g = [i \in 0..n |-> IF i = 0 THEN 0 ELSE g[i - 1] + f[i - 1] * 2^(w * (i - 1))]
    <2>1. PICK h : h = [i \in 0..n |-> IF i = 0 THEN 0
                                       ELSE g[i - 1] + f[i - 1] * 2^(w * (i - 1))]
      OBVIOUS
    <2>2. ASSUME NEW i \in 0..n PROVE g[i] = h[i]
      <3>1. CASE i = 0
        BY <1>6, <2>1, <3>1, Zenon
      <3>2. CASE i # 0
        <4>1. i \in 1..n
          BY <3>2
        <4> QED  BY <1>7, <2>1, <3>2, <4>1, Zenon
      <3> QED  BY <3>1, <3>2
    <2>3. g = h
      <3>1. g = [i \in 0..n |-> g[i]] /\ h = [i \in 0..n |-> h[i]]
        BY <1>6, <2>1, Zenon
      <3> QED  BY <2>2, <3>1, Zenon
    <2> QED  BY <2>1, <2>3, Zenon
  <1>9. PICK sum : sum = CHOOSE h : h = [i \in 0..n |-> IF i = 0 THEN 0
                                            ELSE h[i - 1] + f[i - 1] * 2^(w * (i - 1))]
    OBVIOUS
  <1>10. sum = [i \in 0..n |-> IF i = 0 THEN 0 ELSE sum[i - 1] + f[i - 1] * 2^(w * (i - 1))]
    BY <1>8, <1>9, Zenon
  <1>11. sum[0] = 0 /\ \A i \in 1..n : sum[i] = sum[i - 1] + f[i - 1] * 2^(w * (i - 1))
    <2>1. 0 \in 0..n /\ \A i \in 1..n : i \in 0..n /\ i # 0
      OBVIOUS
    <2> QED  BY <1>10, <2>1, Zenon
  <1>12. PICK T : T = {i \in 0..n : sum[i] \in 0..(2^(w * i) - 1)}
    OBVIOUS
  <1>13. 0 \in T
    <2>1. w * 0 = 0 /\ 2^0 = 1 /\ 0 \in 0..(1 - 1) /\ 0 \in 0..n
      OBVIOUS
    <2> QED  BY <1>11, <1>12, <2>1, Zenon
  <1>14. ASSUME NEW i \in 1..n, i - 1 \in T PROVE i \in T
    <2>1. PICK A, B, W, x, d : /\ A = 2^(w * (i - 1)) /\ B = 2^(w * i) /\ W = 2^w
                               /\ x = sum[i - 1] /\ d = f[i - 1]
      OBVIOUS
    <2>2. A \in Nat /\ B \in Nat /\ W \in Nat /\ B = A * W
      BY <2>1, Place
    <2>3. x \in 0..(A - 1)
      BY <1>12, <1>14, <2>1
    <2>4. d \in Nat /\ d <= W - 1
      BY <1>1, <2>1
    <2>5. d * A \in Nat /\ d * A <= (W - 1) * A
      BY <2>2, <2>4
    <2>6. x + d * A \in 0..(B - 1)
      <3>1. (W - 1) * A = B - A
        BY <2>2
      <3>2. PICK p : p = d * A
        OBVIOUS
      <3>3. p \in Nat /\ p <= B - A
        BY <2>5, <3>1, <3>2
      <3>4. x + p \in 0..(B - 1)
        BY <2>2, <2>3, <3>3
      <3> QED  BY <3>2, <3>4
    <2>7. sum[i] = x + d * A
      BY <1>11, <2>1
    <2> QED  BY <1>12, <2>1, <2>6, <2>7
  <1>15. n \in T
    <2>1. \A i \in 0..n : i \in T
      BY <1>13, <1>14, Climb, Zenon
    <2> QED  BY <2>1
  <1>16. FromDigits(f, n, w) = sum[n]
    BY <1>9, Zenon DEF FromDigits
  <1> QED  BY <1>12, <1>15, <1>16

LEMMA BitsMakeWord ==
  ASSUME NEW f, \A i \in 0..(WordBits - 1) : f[i] \in 0..1
  PROVE  FromBits(f) \in Word
  <1>1. 1 * WordBits = WordBits /\ 1 * WordBits <= WordBits /\ 2^1 = 2 /\ 0..(2 - 1) = 0..1
    BY Bits
  <1>2. FromDigits(f, WordBits, 1) \in 0..(2^(1 * WordBits) - 1)
    BY <1>1, Bits, DigitsBound
  <1> QED  BY <1>1, <1>2 DEF FromBits, Word, Modulus

(* The operations on bits. *)
LEMMA BitOperations ==
  ASSUME NEW v \in Int, NEW w \in Int
  PROVE  /\ And(v, w) \in Word /\ Or(v, w) \in Word /\ Xor(v, w) \in Word /\ Nor(v, w) \in Word
         /\ \A n \in Nat : ShiftLeft(w, n) \in Word /\ ShiftRight(w, n) \in Word
  <1>1. \A u \in Int, i \in 0..(WordBits - 1) : Bit(u, i) \in 0..1
    <2> SUFFICES ASSUME NEW u \in Int, NEW i \in 0..(WordBits - 1) PROVE Bit(u, i) \in 0..1
      OBVIOUS
    <2>1. 2^i \in Nat /\ 2^i > 0
      BY Bits, Powers
    <2>2. PICK p : p = 2^i
      OBVIOUS
    <2>3. u \div p \in Int
      BY <2>1, <2>2
    <2> QED  BY <2>2, <2>3 DEF Bit
  <1>2. \A i \in 0..(WordBits - 1) : Bit(v, i) \in {0, 1} /\ Bit(w, i) \in {0, 1}
    BY <1>1
  <1>3. And(v, w) \in Word
    <2>1. PICK f : f = [i \in 0..(WordBits - 1) |-> Bit(v, i) * Bit(w, i)]
      OBVIOUS
    <2>2. \A i \in 0..(WordBits - 1) : f[i] \in 0..1
      BY <1>2, <2>1
    <2> QED  BY <2>1, <2>2, BitsMakeWord DEF And
  <1>4. \A u, x \in Int : Or(u, x) \in Word
    <2> SUFFICES ASSUME NEW u \in Int, NEW x \in Int PROVE Or(u, x) \in Word
      OBVIOUS
    <2>1. PICK f : f = [i \in 0..(WordBits - 1) |-> IF Bit(u, i) + Bit(x, i) > 0 THEN 1 ELSE 0]
      OBVIOUS
    <2>2. \A i \in 0..(WordBits - 1) : f[i] \in 0..1
      BY <2>1
    <2> QED  BY <2>1, <2>2, BitsMakeWord DEF Or
  <1>5. Xor(v, w) \in Word
    <2>1. PICK f : f = [i \in 0..(WordBits - 1) |-> (Bit(v, i) + Bit(w, i)) % 2]
      OBVIOUS
    <2>2. \A i \in 0..(WordBits - 1) : f[i] \in 0..1
      BY <1>2, <2>1
    <2> QED  BY <2>1, <2>2, BitsMakeWord DEF Xor
  <1>6. Nor(v, w) \in Word
    <2>1. PICK u : u = Or(v, w)
      OBVIOUS
    <2>2. u \in Int
      BY <1>4, <2>1, WordFacts
    <2>3. PICK f : f = [i \in 0..(WordBits - 1) |-> 1 - Bit(u, i)]
      OBVIOUS
    <2>4. \A i \in 0..(WordBits - 1) : f[i] \in 0..1
      BY <1>1, <2>2, <2>3
    <2> QED  BY <2>1, <2>3, <2>4, BitsMakeWord DEF Nor
  <1>7. ASSUME NEW n \in Nat PROVE ShiftLeft(w, n) \in Word
    <2>1. w * 2^n \in Int
      OBVIOUS
    <2> QED  BY <2>1, WordFacts DEF ShiftLeft
  <1>8. ASSUME NEW n \in Nat PROVE ShiftRight(w, n) \in Word
    <2>1. PICK f : f = [i \in 0..(WordBits - 1) |->
                          Bit(w, IF i + n < WordBits THEN i + n ELSE WordBits - 1)]
      OBVIOUS
    <2>2. \A i \in 0..(WordBits - 1) : f[i] \in 0..1
      <3> SUFFICES ASSUME NEW i \in 0..(WordBits - 1) PROVE f[i] \in 0..1
        OBVIOUS
      <3>1. PICK j : j = IF i + n < WordBits THEN i + n ELSE WordBits - 1
        OBVIOUS
      <3>2. j \in 0..(WordBits - 1)
        BY <3>1, Bits
      <3>3. f[i] = Bit(w, j)
        BY <2>1, <3>1
      <3> QED  BY <1>1, <3>2, <3>3
    <2> QED  BY <2>1, <2>2, BitsMakeWord DEF ShiftRight
  <1> QED  BY <1>3, <1>4, <1>5, <1>6, <1>7, <1>8

-----------------------------------------------------------------------------
(* Products and joined words. *)
LEMMA JoinedWord ==
  ASSUME NEW high \in Word, NEW low \in Int, NEW n \in 0..4
  PROVE  JoinAt(high, low, n) \in Word
  <1>1. PICK B, C : B = Bytes(n) /\ C = Bytes(4 - n)
    OBVIOUS
  <1>2. B \in Nat /\ B > 0 /\ C \in Nat /\ C > 0 /\ B * C = Modulus
    <2>1. 4 - n \in 0..4
      OBVIOUS
    <2> QED  BY <1>1, <2>1, ByteFacts
  <1>3. PICK q, r : q = high \div B /\ r = low % B
    OBVIOUS
  <1>4. high \in Nat /\ high < Modulus
    BY WordFacts DEF Word
  <1>5. q \in Nat /\ r \in 0..(B - 1) /\ q * B <= high
    BY <1>2, <1>3, <1>4
  <1>6. q <= C - 1
    <2> SUFFICES ASSUME q >= C PROVE FALSE
      BY <1>2, <1>5
    <2>1. q * B >= C * B
      BY <1>2, <1>5
    <2> QED  BY <1>2, <1>4, <1>5, <2>1
  <1>7. q * B <= (C - 1) * B
    BY <1>2, <1>5, <1>6
  <1>8. q * B + r \in 0..(Modulus - 1)
    <2>1. (C - 1) * B = Modulus - B
      BY <1>2
    <2>2. q * B \in Nat
      BY <1>2, <1>5
    <2> QED  BY <1>2, <1>5, <1>7, <2>1, <2>2, WordFacts
  <1> QED  BY <1>1, <1>3, <1>8 DEF JoinAt, Word

(* The state of the loop of Mult. *)
Factors == [a : Word, bLo : Word, bHi : Word, lo : Word, hi : Word, done : BOOLEAN]

LEMMA MultStepTyped == ASSUME NEW s \in Factors PROVE MultStep(s) \in Factors
  <1>1. \A b \in BOOLEAN : BoolWord(b) \in {0, 1}
    BY DEF BoolWord
  <1>2. /\ s.a \in Int /\ s.bLo \in Int /\ s.bHi \in Int /\ s.lo \in Int /\ s.hi \in Int
        /\ s.a \in Word /\ s.bLo \in Word /\ s.bHi \in Word /\ s.lo \in Word /\ s.hi \in Word
    BY WordFacts DEF Factors
  <1>3. PICK lo : lo = ToWord(s.lo + s.bLo)
    OBVIOUS
  <1>4. lo \in Word /\ lo \in Int
    BY <1>2, <1>3, WordFacts
  <1>5. PICK c, d : c = BoolWord(lo < s.bLo) /\ d = BoolWord(Negative(s.bLo))
    OBVIOUS
  <1>6. c \in Int /\ d \in Int
    BY <1>5 DEF BoolWord
  <1>7. PICK hi, bHi, bLo, a : /\ hi = ToWord(s.hi + c + s.bHi) /\ bHi = ToWord(2 * s.bHi + d)
                               /\ bLo = ToWord(2 * s.bLo) /\ a = ShiftRight(s.a, 1)
    OBVIOUS
  <1>8. hi \in Word /\ bHi \in Word /\ bLo \in Word /\ a \in Word
    <2>1. s.hi + c + s.bHi \in Int /\ 2 * s.bHi + d \in Int /\ 2 * s.bLo \in Int
      BY <1>2, <1>6
    <2>2. ShiftRight(s.a, 1) \in Word
      BY <1>2, BitOperations
    <2> QED  BY <1>7, <2>1, <2>2, WordFacts
  <1>9. PICK add : add = IF s.a % 2 = 1 THEN [s EXCEPT !.lo = lo, !.hi = hi] ELSE s
    OBVIOUS
  <1>10. add \in Factors /\ add.bHi = s.bHi /\ add.bLo = s.bLo /\ add.a = s.a
    BY <1>4, <1>8, <1>9 DEF Factors
  <1>11. MultStep(s) = IF s.done THEN s
                       ELSE IF s.a = 1 THEN [add EXCEPT !.done = TRUE]
                       ELSE [add EXCEPT !.bHi = bHi, !.bLo = bLo, !.a = a]
    BY <1>3, <1>5, <1>7, <1>9, <1>10 DEF MultStep, Factors
  <1> QED  BY <1>8, <1>10, <1>11 DEF Factors

LEMMA Products ==
  ASSUME NEW a \in Word, NEW b \in Word, NEW signedArith \in BOOLEAN
  PROVE  Mult(a, b, signedArith)[1] \in Word /\ Mult(a, b, signedArith)[2] \in Word
  <1>1. PICK start : start =
           [a |-> IF signedArith /\ Negative(a) THEN ToWord(-a) ELSE a,
            bLo |-> IF signedArith /\ Negative(b) THEN ToWord(-b) ELSE b,
            bHi |-> 0, lo |-> 0, hi |-> 0, done |-> FALSE]
    OBVIOUS
  <1>2. start \in Factors
    <2>1. ToWord(-a) \in Word /\ ToWord(-b) \in Word /\ 0 \in Word
      BY WordFacts
    <2> QED  BY <1>1, <2>1 DEF Factors
  <1>3. PICK step : step = [p \in (1..WordBits) \X Factors |-> MultStep(p[2])]
    OBVIOUS
  <1>4. Steps(step, WordBits, Factors)
    <2>1. ASSUME NEW p \in (1..WordBits) \X Factors PROVE MultStep(p[2]) \in Factors
      BY MultStepTyped
    <2> QED  BY <1>3, <2>1, Zenon DEF Steps
  <1>5. PICK g \in [0..WordBits -> Factors] : Repeats(g, WordBits, start, step)
    BY <1>2, <1>4, Bits, Recursion
  <1>6. g = [i \in 0..WordBits |-> IF i = 0 THEN start ELSE MultStep(g[i - 1])]
    <2>1. PICK h : h = [i \in 0..WordBits |-> IF i = 0 THEN start ELSE MultStep(g[i - 1])]
      OBVIOUS
    <2>2. ASSUME NEW i \in 0..WordBits PROVE g[i] = h[i]
      <3>1. CASE i = 0
        BY <1>5, <2>1, <3>1, Zenon DEF Repeats
      <3>2. CASE i # 0
        <4>1. i \in 1..WordBits /\ i - 1 \in 0..WordBits
          BY <3>2, Bits
        <4>2. PICK x, p : x = g[i - 1] /\ p = << i, x >>
          OBVIOUS
        <4>3. p \in (1..WordBits) \X Factors /\ p[2] = x
          BY <1>5, <4>1, <4>2
        <4>4. g[i] = step[p]
          BY <1>5, <4>1, <4>2, Zenon DEF Repeats
        <4>5. step[p] = MultStep(p[2])
          BY <1>3, <4>3, Zenon
        <4> QED  BY <2>1, <3>2, <4>2, <4>3, <4>4, <4>5, Zenon
      <3> QED  BY <3>1, <3>2
    <2>3. g = [i \in 0..WordBits |-> g[i]] /\ h = [i \in 0..WordBits |-> h[i]]
      BY <1>5, <2>1, Zenon
    <2> QED  BY <2>1, <2>2, <2>3, Zenon
  <1>7. PICK loop : loop = CHOOSE h : h = [i \in 0..WordBits |->
                                             IF i = 0 THEN start ELSE MultStep(h[i - 1])]
    OBVIOUS
  <1>8. loop = [i \in 0..WordBits |-> IF i = 0 THEN start ELSE MultStep(loop[i - 1])]
    BY <1>6, <1>7, Zenon
  <1>9. PICK T : T = {i \in 0..WordBits : loop[i] \in Factors}
    OBVIOUS
  <1>10. 0 \in T
    <2>1. 0 \in 0..WordBits
      BY Bits
    <2>2. loop[0] = start
      BY <1>8, <2>1, Zenon
    <2> QED  BY <1>2, <1>9, <2>1, <2>2, Zenon
  <1>11. ASSUME NEW i \in 1..WordBits, i - 1 \in T PROVE i \in T
    <2>1. i \in 0..WordBits /\ i # 0
      BY Bits
    <2>2. loop[i] = MultStep(loop[i - 1])
      BY <1>8, <2>1, Zenon
    <2>3. loop[i - 1] \in Factors
      BY <1>9, <1>11
    <2> QED  BY <1>9, <2>1, <2>2, <2>3, MultStepTyped, Zenon
  <1>12. loop[WordBits] \in Factors
    <2>1. WordBits \in Nat /\ WordBits \in 0..WordBits
      BY Bits
    <2>2. \A i \in 0..WordBits : i \in T
      BY <1>10, <1>11, <2>1, Climb, Zenon
    <2> QED  BY <1>9, <2>1, <2>2, Zenon
  <1>13. PICK r \in Factors : r = loop[WordBits]
    BY <1>12
  <1>14. r.hi \in Word /\ r.lo \in Word /\ r.hi \in Int /\ r.lo \in Int
    <2>1. r.hi \in Word /\ r.lo \in Word
      BY DEF Factors
    <2> QED  BY <2>1, WordFacts
  <1>15. PICK m1, m2 : /\ m1 = ToWord((Modulus - 1 - r.hi) + BoolWord(r.lo = 0))
                       /\ m2 = ToWord(Modulus - r.lo)
    OBVIOUS
  <1>16. m1 \in Word /\ m2 \in Word
    <2>1. BoolWord(r.lo = 0) \in Int
      BY DEF BoolWord
    <2>2. PICK x, y, z : x = r.hi /\ y = r.lo /\ z = BoolWord(r.lo = 0)
      OBVIOUS
    <2>3. Modulus \in Int /\ x \in Int /\ y \in Int /\ z \in Int
      BY <1>14, <2>1, <2>2, WordFacts
    <2>4. (Modulus - 1 - x) + z \in Int /\ Modulus - y \in Int
      BY <2>3
    <2> QED  BY <1>15, <2>2, <2>4, WordFacts
  <1>17. Mult(a, b, signedArith) \in {<< 0, 0 >>, << r.hi, r.lo >>, << m1, m2 >>}
    BY <1>1, <1>7, <1>13, <1>15, Zenon DEF Mult
  <1>18. PICK h, l : h \in Word /\ l \in Word /\ Mult(a, b, signedArith) = << h, l >>
    BY <1>14, <1>16, <1>17, WordFacts, Zenon
  <1> QED  BY <1>18

-----------------------------------------------------------------------------
(* Page tables and memory. *)

(* A page table whose dirty entries are used and may be written. *)
TableOK(table) ==
    /\ DOMAIN table \subseteq Nat
    /\ \A p \in DOMAIN table :
          /\ table[p] \in TranslationEntry
          /\ table[p].dirty => table[p].use /\ table[p].valid /\ ~table[p].readOnly

(* A frame that differs from what was loaded is behind a dirty entry. *)
Marked(mem, table) ==
    \A a \in Address : mem[a] # InitialByte(a) =>
        \E p \in DOMAIN table :
            table[p].physicalPage = a \div PageSize /\ table[p].dirty

(* No address of va's page can be both read and written. *)
Blocks(table, va) ==
    /\ va \in Int /\ va \div PageSize \in DOMAIN table
    /\ \/ ~table[va \div PageSize].valid
       \/ table[va \div PageSize].readOnly
       \/ table[va \div PageSize].physicalPage >= NumPhysPages

LEMMA Sizes ==
  /\ PageSize \in Nat /\ PageSize > 0 /\ PageSize % 4 = 0 /\ NumPhysPages \in Nat
  /\ \A op : SizeOf(op) \in {1, 2, 4}
  BY MachineAssumption DEF SizeOf

(* What a Translate that finds no exception says. *)
LEMMA Translated ==
  ASSUME TableOK(pageTable), NEW va \in Int, NEW size, NEW writing \in BOOLEAN,
         Translate(va, size, writing) = "NoException"
  PROVE  /\ va % size = 0 /\ va \div PageSize \in DOMAIN pageTable
         /\ pageTable[va \div PageSize] \in TranslationEntry
         /\ pageTable[va \div PageSize].valid
         /\ writing => ~pageTable[va \div PageSize].readOnly
         /\ pageTable[va \div PageSize].physicalPage \in Nat
         /\ pageTable[va \div PageSize].physicalPage < NumPhysPages
  <1>1. PICK e, vpn : vpn = va \div PageSize /\ e = pageTable[vpn]
    OBVIOUS
  <1>2. /\ va % size = 0 /\ vpn \in DOMAIN pageTable
        /\ e.valid /\ (writing => ~e.readOnly) /\ ~(e.physicalPage >= NumPhysPages)
    BY <1>1 DEF Translate
  <1>3. e \in TranslationEntry
    BY <1>1, <1>2 DEF TableOK
  <1>4. e.physicalPage \in Nat
    BY <1>3 DEF TranslationEntry
  <1>5. e.physicalPage < NumPhysPages
    BY <1>2, <1>4, Sizes
  <1> QED  BY <1>1, <1>2, <1>3, <1>4, <1>5

(* A fault of the page leaves it unwritable. *)
LEMMA FaultBlocks ==
  ASSUME NEW va \in Int, NEW size, NEW writing \in BOOLEAN,
         Translate(va, size, writing) \in
            {"PageFaultException", "ReadOnlyException", "BusErrorException"}
  PROVE  Blocks(pageTable, va)
  BY DEF Translate, Blocks

LEMMA BlockedUnreachable ==
  ASSUME NEW va, Blocks(pageTable, va) PROVE va \notin Reachable(TRUE)
  <1>1. va \in Int /\ va % 1 = 0
    BY DEF Blocks
  <1>2. Translate(va, 1, TRUE) # "NoException"
    BY <1>1 DEF Blocks, Translate
  <1> QED  BY <1>2 DEF Reachable

(* An aligned access stays in its page, and so in its frame. *)
FrameByte(f, a) == a \in Address /\ a \div PageSize = f
LEMMA InFrame ==
  ASSUME NEW va \in Int, NEW size \in {1, 2, 4}, va % size = 0,
         NEW f \in Nat, f < NumPhysPages, NEW k \in 0..(size - 1)
  PROVE  /\ f * PageSize + (va % PageSize) \in Nat
         /\ FrameByte(f, f * PageSize + (va % PageSize) + k)
  <1>1. PICK P, s, d : P = PageSize /\ s = va % P /\ d = va \div P
    OBVIOUS
  <1>2. P \in Nat /\ P > 0 /\ P % 4 = 0 /\ NumPhysPages \in Nat
    BY <1>1, Sizes
  <1>3. s \in 0..(P - 1) /\ d \in Int /\ va = P * d + s
    BY <1>1, <1>2
  <1>4. PICK m \in Nat : P = 4 * m
    <2>1. P = 4 * (P \div 4) /\ P \div 4 \in Nat
      BY <1>2
    <2> QED  BY <2>1
  <1>5. PICK e \in Int : e = m * d
    BY <1>3
  <1>6. va = 4 * e + s
    BY <1>3, <1>4, <1>5
  <1>7. s + size <= P
    <2>1. CASE size = 1
      BY <1>2, <1>3, <2>1
    <2>2. CASE size = 2
      BY <1>3, <1>4, <1>6, <2>2
    <2>3. CASE size = 4
      BY <1>3, <1>4, <1>6, <2>3
    <2> QED  BY <2>1, <2>2, <2>3
  <1>8. k \in Nat /\ s + k \in 0..(P - 1)
    BY <1>2, <1>3, <1>7
  <1>9. PICK b \in Nat : b = f * P
    BY <1>2
  <1>10. b + P <= NumPhysPages * P
    <2>1. (f + 1) * P <= NumPhysPages * P
      BY <1>2
    <2>2. (f + 1) * P = f * P + P
      BY <1>2
    <2> QED  BY <1>9, <2>1, <2>2
  <1>11. PICK c : c = s + k
    OBVIOUS
  <1>12. (f * P + c) \div P = f
    BY <1>2, <1>8, <1>11
  <1>13. b + s \in Nat /\ b + s + k = b + c /\ b + c \in 0..(NumPhysPages * P - 1)
    BY <1>2, <1>3, <1>8, <1>10, <1>11
  <1> QED  BY <1>1, <1>9, <1>12, <1>13 DEF Address, FrameByte

(* Translate changes no entry but for its use bit and, at most, sets dirty. *)
Kept(old, new) ==
    /\ DOMAIN new = DOMAIN old
    /\ \A p \in DOMAIN old :
          /\ new[p].physicalPage = old[p].physicalPage
          /\ new[p].valid = old[p].valid
          /\ new[p].readOnly = old[p].readOnly
          /\ old[p].dirty => new[p].dirty

LEMMA Touched ==
  ASSUME NEW table, TableOK(table), NEW va \in Int, NEW writing \in BOOLEAN,
         va \div PageSize \in DOMAIN table,
         writing => table[va \div PageSize].valid /\ ~table[va \div PageSize].readOnly
  PROVE  /\ Kept(table, Touch(table, va, writing))
         /\ TableOK(Touch(table, va, writing))
         /\ writing => Touch(table, va, writing)[va \div PageSize].dirty
  <1>1. PICK v, new : v = va \div PageSize /\ new = Touch(table, va, writing)
    OBVIOUS
  <1>2. new = [table EXCEPT ![v] = [[table[v] EXCEPT !.use = TRUE]
                                      EXCEPT !.dirty = table[v].dirty \/ writing]]
    <2>1. [table EXCEPT ![v].use = TRUE][v].dirty = table[v].dirty
      BY <1>1 DEF TableOK, TranslationEntry
    <2> QED  BY <1>1, <2>1 DEF Touch, TableOK, TranslationEntry
  <1>3. DOMAIN new = DOMAIN table /\ \A p \in DOMAIN table : p # v => new[p] = table[p]
    BY <1>2
  <1>4. table[v] \in TranslationEntry
    BY <1>1 DEF TableOK
  <1>5. /\ new[v] \in TranslationEntry /\ new[v].use /\ new[v].dirty = (table[v].dirty \/ writing)
        /\ new[v].physicalPage = table[v].physicalPage
        /\ new[v].valid = table[v].valid /\ new[v].readOnly = table[v].readOnly
    <2>1. PICK t, d : t = table[v] /\ d = (table[v].dirty \/ writing)
      OBVIOUS
    <2>2. PICK u : u = [t EXCEPT !.use = TRUE]
      OBVIOUS
    <2>3. t \in TranslationEntry /\ d \in BOOLEAN
      BY <1>4, <2>1 DEF TranslationEntry
    <2>4. /\ u \in TranslationEntry /\ u.use /\ u.physicalPage = t.physicalPage
          /\ u.valid = t.valid /\ u.readOnly = t.readOnly
      BY <2>2, <2>3 DEF TranslationEntry
    <2>5. new[v] = [u EXCEPT !.dirty = d]
      BY <1>1, <1>2, <2>1, <2>2
    <2>6. /\ new[v] \in TranslationEntry /\ new[v].use /\ new[v].dirty = d
          /\ new[v].physicalPage = u.physicalPage
          /\ new[v].valid = u.valid /\ new[v].readOnly = u.readOnly
      BY <2>3, <2>4, <2>5 DEF TranslationEntry
    <2> QED  BY <2>1, <2>4, <2>6
  <1>6. TableOK(new)
    BY <1>1, <1>3, <1>5 DEF TableOK
  <1>7. Kept(table, new) /\ (writing => new[v].dirty)
    BY <1>3, <1>5 DEF Kept
  <1> QED  BY <1>1, <1>6, <1>7

LEMMA TouchMarks ==
  ASSUME NEW table, TableOK(table), NEW va \in Int, NEW writing \in BOOLEAN,
         va \div PageSize \in DOMAIN table,
         writing => table[va \div PageSize].valid /\ ~table[va \div PageSize].readOnly,
         NEW mem, Marked(mem, table)
  PROVE  Marked(mem, Touch(table, va, writing))
  BY Touched DEF Marked, Kept

(* What ReadMem returns has size bytes. *)
LEMMA MemRead ==
  ASSUME TableOK(pageTable), mainMemory \in [Address -> Byte],
         NEW va \in Int, NEW size \in {1, 2, 4}, Translate(va, size, FALSE) = "NoException"
  PROVE  MemValue(va, size) \in 0..(Bytes(size) - 1)
  <1>1. PICK f : f = [k \in 0..(size - 1) |-> mainMemory[PhysAddr(va) + k]]
    OBVIOUS
  <1>2. PICK e : e = pageTable[va \div PageSize].physicalPage
    OBVIOUS
  <1>3. va % size = 0 /\ e \in Nat /\ e < NumPhysPages
    BY <1>2, Translated
  <1>4. \A k \in 0..(size - 1) : f[k] \in 0..(2^ByteBits - 1)
    <2> SUFFICES ASSUME NEW k \in 0..(size - 1) PROVE f[k] \in 0..(2^ByteBits - 1)
      OBVIOUS
    <2>1. e * PageSize + (va % PageSize) + k \in Address
      <3>1. FrameByte(e, e * PageSize + (va % PageSize) + k)
        BY <1>3, InFrame
      <3> QED  BY <3>1 DEF FrameByte
    <2>2. PhysAddr(va) + k \in Address
      BY <1>2, <2>1 DEF PhysAddr
    <2>3. f[k] \in Byte
      BY <1>1, <2>2
    <2> QED  BY <2>3 DEF Byte
  <1>5. ByteBits \in Nat /\ size \in Nat /\ ByteBits * size <= WordBits
    BY Bits DEF WordBits
  <1>6. FromDigits(f, size, ByteBits) \in 0..(2^(ByteBits * size) - 1)
    BY <1>4, <1>5, DigitsBound
  <1> QED  BY <1>1, <1>6, Zenon DEF MemValue, Bytes

(* What WriteMem writes is in the frame that is marked. *)
LEMMA MemWritten ==
  ASSUME TableOK(pageTable), mainMemory \in [Address -> Byte], Marked(mainMemory, pageTable),
         NEW va \in Int, NEW size \in {1, 2, 4}, Translate(va, size, TRUE) = "NoException",
         NEW value \in Word
  PROVE  /\ MemWith(va, size, value) \in [Address -> Byte]
         /\ Marked(MemWith(va, size, value), Touch(pageTable, va, TRUE))
  <1>1. PICK v, e, pa : /\ v = va \div PageSize /\ e = pageTable[v].physicalPage
                        /\ pa = e * PageSize + (va % PageSize)
    OBVIOUS
  <1>2. /\ va % size = 0 /\ e \in Nat /\ e < NumPhysPages /\ v \in DOMAIN pageTable
        /\ pageTable[v].valid /\ ~pageTable[v].readOnly
    BY <1>1, Translated
  <1>3. PICK new, mem : new = Touch(pageTable, va, TRUE) /\ mem = MemWith(va, size, value)
    OBVIOUS
  <1>4. pa \in Nat /\ \A k \in 0..(size - 1) : pa + k \in Address /\ (pa + k) \div PageSize = e
    <2>1. \A k \in 0..(size - 1) : pa \in Nat /\ FrameByte(e, pa + k)
      <3> SUFFICES ASSUME NEW k \in 0..(size - 1) PROVE pa \in Nat /\ FrameByte(e, pa + k)
        OBVIOUS
      <3>1. /\ e * PageSize + (va % PageSize) \in Nat
            /\ FrameByte(e, e * PageSize + (va % PageSize) + k)
        BY <1>2, InFrame
      <3> QED  BY <1>1, <3>1, Zenon
    <2>2. 0 \in 0..(size - 1)
      OBVIOUS
    <2> QED  BY <2>1, <2>2, Zenon DEF FrameByte
  <1>5. PhysAddr(va) = pa
    BY <1>1 DEF PhysAddr
  <1>6. mem = [a \in Address |-> IF a \in pa..(pa + size - 1)
                                 THEN ByteOf(value, a - pa) ELSE mainMemory[a]]
    BY <1>3, <1>5, Zenon DEF MemWith
  <1>7. ASSUME NEW a \in Address, a \in pa..(pa + size - 1)
        PROVE  a - pa \in 0..3 /\ a \div PageSize = e
    <2>1. PICK k \in 0..(size - 1) : a = pa + k
      <3>1. a \in Int /\ a - pa \in 0..(size - 1) /\ a = pa + (a - pa)
        BY <1>4, <1>7
      <3> QED  BY <3>1
    <2>2. a \div PageSize = e
      BY <1>4, <2>1
    <2>3. a - pa = k /\ k \in 0..3
      BY <1>4, <2>1
    <2> QED  BY <2>2, <2>3
  <1>8. mem \in [Address -> Byte]
    <2>1. ASSUME NEW a \in Address
          PROVE  (IF a \in pa..(pa + size - 1) THEN ByteOf(value, a - pa) ELSE mainMemory[a])
                   \in Byte
      BY <1>7, ByteFacts
    <2> QED  BY <1>6, <2>1, Zenon
  <1>9. /\ DOMAIN new = DOMAIN pageTable /\ new[v].dirty
        /\ \A p \in DOMAIN pageTable :
              /\ new[p].physicalPage = pageTable[p].physicalPage
              /\ pageTable[p].dirty => new[p].dirty
    <2>1. /\ va \div PageSize \in DOMAIN pageTable
          /\ pageTable[va \div PageSize].valid /\ ~pageTable[va \div PageSize].readOnly
      BY <1>1, <1>2
    <2>2. Kept(pageTable, new) /\ new[v].dirty
      BY <1>1, <1>3, <2>1, Touched
    <2> QED  BY <2>2 DEF Kept
  <1>10. ASSUME NEW a \in Address, mem[a] # InitialByte(a)
         PROVE  \E p \in DOMAIN new :
                   new[p].physicalPage = a \div PageSize /\ new[p].dirty
    <2>1. CASE a \in pa..(pa + size - 1)
      BY <1>1, <1>2, <1>7, <1>9, <2>1
    <2>2. CASE a \notin pa..(pa + size - 1)
      <3>1. mem[a] = mainMemory[a]
        BY <1>6, <2>2, Zenon
      <3> QED  BY <1>9, <1>10, <3>1 DEF Marked
    <2> QED  BY <2>1, <2>2
  <1> QED  BY <1>3, <1>8, <1>10 DEF Marked

-----------------------------------------------------------------------------
(* The registers that hold words, and all that is known of registers. *)
WordRegister == GPR \cup {HiReg, LoReg, LoadValueReg}
RegsOK(regs) ==
    /\ regs \in [Register -> Int]
    /\ \A r \in WordRegister : regs[r] \in Word
    /\ regs[LoadReg] \in GPR

MemOK(mem, table) == mem \in [Address -> Byte] /\ TableOK(table) /\ Marked(mem, table)

InstrOK == instr = NoInstr \/ \E v \in InstructionWord : instr = Decode(v)

PageFaults == {"PageFaultException", "ReadOnlyException", "BusErrorException"}

(* In the kernel no load is in progress, and a fault names its page. *)
Trapped ==
    mode = "SystemMode" =>
        /\ registers[LoadReg] = 0
        /\ exception \in PageFaults => Blocks(pageTable, registers[BadVAddrReg])

(* The inductive invariant. *)
MInv == RegsOK(registers) /\ MemOK(mainMemory, pageTable) /\ InstrOK /\ Trapped

LEMMA RegisterNumbers ==
  /\ GPR \subseteq 0..31 /\ {0, 2, 4, 5, 31} \subseteq GPR /\ R31 = 31
  /\ HiReg = 32 /\ LoReg = 33 /\ PCReg = 34 /\ NextPCReg = 35 /\ PrevPCReg = 36
  /\ LoadReg = 37 /\ LoadValueReg = 38 /\ BadVAddrReg = 39
  /\ Register = GPR \cup 32..39
  BY MachineAssumption DEF R31, HiReg, LoReg, PCReg, NextPCReg, PrevPCReg, LoadReg,
     LoadValueReg, BadVAddrReg, Register

LEMMA SetRegister ==
  ASSUME NEW regs, RegsOK(regs), NEW r \in WordRegister, NEW v \in Word
  PROVE  RegsOK([regs EXCEPT ![r] = v])
  <1>1. r \in Register /\ r # LoadReg /\ v \in Int
    BY RegisterNumbers, WordFacts DEF WordRegister
  <1>2. WordRegister \subseteq Register /\ LoadReg \in Register
    BY RegisterNumbers DEF WordRegister
  <1> QED  BY <1>1, <1>2 DEF RegsOK

(* The registers for addresses. *)
LEMMA SetAddress ==
  ASSUME NEW regs, RegsOK(regs), NEW r \in {PCReg, NextPCReg, PrevPCReg, BadVAddrReg},
         NEW v \in Int
  PROVE  RegsOK([regs EXCEPT ![r] = v])
  <1>1. r \in Register /\ r \notin WordRegister /\ r # LoadReg
    BY RegisterNumbers DEF WordRegister
  <1>2. WordRegister \subseteq Register /\ LoadReg \in Register
    BY RegisterNumbers DEF WordRegister
  <1> QED  BY <1>1, <1>2 DEF RegsOK

LEMMA SetLoad ==
  ASSUME NEW regs, RegsOK(regs), NEW v \in GPR PROVE RegsOK([regs EXCEPT ![LoadReg] = v])
  <1>1. LoadReg \in Register /\ LoadReg \notin WordRegister /\ v \in Int
    BY RegisterNumbers DEF WordRegister
  <1>2. WordRegister \subseteq Register
    BY RegisterNumbers DEF WordRegister
  <1> QED  BY <1>1, <1>2 DEF RegsOK

LEMMA DelayedLoadOK ==
  ASSUME NEW regs, RegsOK(regs), NEW nextReg \in GPR, NEW nextValue \in Word
  PROVE  /\ RegsOK(DelayedLoad(regs, nextReg, nextValue))
         /\ DelayedLoad(regs, nextReg, nextValue)[LoadReg] = nextReg
         /\ DelayedLoad(regs, nextReg, nextValue)[BadVAddrReg] = regs[BadVAddrReg]
  <1>1. PICK a, b, c, d :
          /\ a = [regs EXCEPT ![regs[LoadReg]] = regs[LoadValueReg]]
          /\ b = [a EXCEPT ![LoadReg] = nextReg]
          /\ c = [b EXCEPT ![LoadValueReg] = nextValue]
          /\ d = [c EXCEPT ![0] = 0]
    OBVIOUS
  <1>2. /\ GPR \subseteq WordRegister /\ LoadValueReg \in WordRegister /\ 0 \in WordRegister
        /\ 0 \in Word
    BY RegisterNumbers, WordFacts DEF WordRegister
  <1>3. RegsOK(a)
    BY <1>1, <1>2, SetRegister DEF RegsOK
  <1>4. RegsOK(b)
    BY <1>1, <1>3, SetLoad
  <1>5. RegsOK(c)
    BY <1>1, <1>2, <1>4, SetRegister
  <1>6. RegsOK(d)
    BY <1>1, <1>2, <1>5, SetRegister
  <1>7. DelayedLoad(regs, nextReg, nextValue) = d
    BY <1>1, Zenon DEF DelayedLoad
  <1>8. d[LoadReg] = nextReg /\ d[BadVAddrReg] = regs[BadVAddrReg]
    <2>1. regs[LoadReg] \in GPR /\ regs \in [Register -> Int]
      BY DEF RegsOK
    <2> QED  BY <1>1, <2>1, RegisterNumbers
  <1> QED  BY <1>6, <1>7, <1>8

(* The fields of an instruction. *)
Regimm == {"BLTZ", "BGEZ", "BLTZAL", "BGEZAL"}
LEMMA Fields ==
  ASSUME InstrOK, instr # NoInstr
  PROVE  /\ instr.rs \in GPR /\ instr.rd \in GPR /\ instr.extra \in Int
         /\ instr.op \notin Regimm => instr.rt \in GPR
  <1>1. PICK v \in InstructionWord : instr = Decode(v)
    BY DEF InstrOK
  <1>2. instr.rs \in GPR /\ instr.rd \in GPR /\ (instr.rt \in GPR \/ instr.op \in Regimm)
    <2>1. /\ {Decode(v).rs, Decode(v).rd} \subseteq GPR
          /\ Decode(v).rt \in GPR \/ Decode(v).op \in {"BLTZ", "BGEZ", "BLTZAL", "BGEZAL"}
      BY ProgramAssumption, Zenon
    <2> QED  BY <1>1, <2>1, Zenon DEF Regimm
  <1>3. instr.extra \in Int
    <2>1. PICK hi, lo, format : hi = v[1] /\ lo = v[2] /\ format = Format(hi \div 1024)
      OBVIOUS
    <2>2. v \in Half \X Half
      BY ProgramAssumption, Zenon
    <2>3. hi \in Nat /\ lo \in Nat
      <3>1. hi \in Half /\ lo \in Half
        BY <2>1, <2>2
      <3> QED  BY <3>1 DEF Half
    <2>4. format \in {"IFMT", "RFMT", "JFMT"}
      BY <2>1 DEF Format
    <2>5. instr.extra = ExtraField(format, hi, lo)
      BY <1>1, <2>1 DEF Decode
    <2>6. Immediate(lo) \in Int /\ (lo \div 64) % 32 \in Int /\ (hi % 1024) * 65536 + lo \in Int
      BY <2>3 DEF Immediate
    <2>7. ExtraField(format, hi, lo) \in Int
      BY <2>4, <2>6 DEF ExtraField
    <2> QED  BY <2>5, <2>7
  <1> QED  BY <1>2, <1>3

LEMMA Operands ==
  ASSUME MInv, instr # NoInstr
  PROVE  /\ Rs \in Word /\ Rs \in Int /\ Extra \in Word /\ Extra \in Int
         /\ instr.op \notin Regimm => Rt \in Word /\ Rt \in Int
         /\ EffAddr \in Word /\ EffAddr \in Int /\ WordAddr \in Int
         /\ NextAfter \in Word /\ NextAfter \in Int /\ registers[NextPCReg] \in Int
         /\ registers[PCReg] \in Int
  <1>1. /\ instr.rs \in GPR /\ instr.extra \in Int
        /\ instr.op \notin Regimm => instr.rt \in GPR
    BY Fields DEF MInv
  <1>2. /\ \A r \in GPR : registers[r] \in Word
        /\ registers[NextPCReg] \in Int /\ registers[PCReg] \in Int
    BY RegisterNumbers DEF MInv, RegsOK, WordRegister
  <1>3. Rs \in Word /\ Rs \in Int /\ Extra \in Word /\ Extra \in Int
    BY <1>1, <1>2, WordFacts DEF Rs, Extra
  <1>4. instr.op \notin Regimm => Rt \in Word /\ Rt \in Int
    BY <1>1, <1>2, WordFacts DEF Rt
  <1>5. EffAddr \in Word /\ EffAddr \in Int
    <2>1. Rs + Extra \in Int
      BY <1>3
    <2> QED  BY <2>1, WordFacts DEF EffAddr
  <1>6. WordAddr \in Int
    BY <1>5 DEF WordAddr
  <1>7. NextAfter \in Word /\ NextAfter \in Int
    BY <1>2, WordFacts DEF NextAfter
  <1> QED  BY <1>2, <1>3, <1>4, <1>5, <1>6, <1>7

-----------------------------------------------------------------------------
(* The two ways an instruction ends: with a trap, *)
LEMMA RaiseStep ==
  ASSUME MInv, NEW which, NEW bad \in Int, NEW table, RaiseException(which, bad, table),
         MemOK(mainMemory, table), which \in PageFaults => Blocks(table, bad)
  PROVE  MInv'
  <1>1. PICK regs : regs = [registers EXCEPT ![BadVAddrReg] = bad]
    OBVIOUS
  <1>2. RegsOK(regs)
    BY <1>1, SetAddress DEF MInv
  <1>3. regs[BadVAddrReg] = bad
    BY <1>1, RegisterNumbers DEF MInv, RegsOK
  <1>4. registers' = DelayedLoad(regs, 0, 0)
    BY <1>1, Zenon DEF RaiseException
  <1>5. 0 \in GPR /\ 0 \in Word
    BY RegisterNumbers, WordFacts
  <1>6. RegsOK(registers') /\ registers'[LoadReg] = 0 /\ registers'[BadVAddrReg] = bad
    BY <1>2, <1>3, <1>4, <1>5, DelayedLoadOK
  <1>7. /\ mainMemory' = mainMemory /\ pageTable' = table /\ exception' = which
        /\ instr' = NoInstr
    BY DEF RaiseException
  <1> QED  BY <1>6, <1>7 DEF MInv, InstrOK, Trapped

(* or with the registers it wrote. *)
LEMMA CompleteStep ==
  ASSUME MInv, mode = "UserMode", NEW regs, RegsOK(regs), NEW nr \in GPR, NEW nv \in Word,
         NEW pc \in Int, CompleteLoad(regs, nr, nv, pc), MemOK(mainMemory', pageTable')
  PROVE  MInv'
  <1>1. PICK d, a, b, c : /\ d = DelayedLoad(regs, nr, nv)
                          /\ a = [d EXCEPT ![PrevPCReg] = registers[PCReg]]
                          /\ b = [a EXCEPT ![PCReg] = registers[NextPCReg]]
                          /\ c = [b EXCEPT ![NextPCReg] = pc]
    OBVIOUS
  <1>2. registers[PCReg] \in Int /\ registers[NextPCReg] \in Int
    BY RegisterNumbers DEF MInv, RegsOK
  <1>3. RegsOK(d)
    BY <1>1, DelayedLoadOK
  <1>4. RegsOK(a)
    BY <1>1, <1>2, <1>3, SetAddress
  <1>5. RegsOK(b)
    BY <1>1, <1>2, <1>4, SetAddress
  <1>6. RegsOK(c)
    BY <1>1, <1>5, SetAddress
  <1>7. registers' = c /\ mode' = mode /\ instr' = NoInstr
    BY <1>1, Zenon DEF CompleteLoad
  <1> QED  BY <1>6, <1>7 DEF MInv, InstrOK, Trapped

(* Most instructions leave memory alone and load nothing. *)
LEMMA WriteStep ==
  ASSUME MInv, mode = "UserMode", NEW regs, RegsOK(regs), NEW pc \in Int,
         CompleteLoad(regs, 0, 0, pc), UNCHANGED << mainMemory, pageTable >>
  PROVE  MInv'
  <1>1. 0 \in GPR /\ 0 \in Word
    BY RegisterNumbers, WordFacts
  <1>2. MemOK(mainMemory', pageTable')
    BY DEF MInv
  <1> QED  BY <1>1, <1>2, CompleteStep

(* An access that faults. *)
LEMMA FaultStep ==
  ASSUME MInv, NEW va \in Int, NEW size, NEW writing \in BOOLEAN,
         RaiseException(Translate(va, size, writing), va, pageTable)
  PROVE  MInv'
  <1>1. Translate(va, size, writing) \in PageFaults => Blocks(pageTable, va)
    BY FaultBlocks DEF PageFaults
  <1>2. MemOK(mainMemory, pageTable)
    BY DEF MInv
  <1> QED  BY <1>1, <1>2, RaiseStep

(* An access that reads. *)
LEMMA ReadStep ==
  ASSUME MInv, NEW va \in Int, NEW size, Translate(va, size, FALSE) = "NoException"
  PROVE  MemOK(mainMemory, Touch(pageTable, va, FALSE))
  BY Translated, Touched, TouchMarks DEF MInv, MemOK

LEMMA StoreStep ==
  ASSUME MInv, NEW va \in Int, NEW size \in {1, 2, 4}, NEW value \in Word,
         Translate(va, size, TRUE) = "NoException"
  PROVE  MemOK(MemWith(va, size, value), Touch(pageTable, va, TRUE))
  BY Translated, Touched, MemWritten DEF MInv, MemOK

LEMMA FetchStep == ASSUME MInv, Fetch PROVE MInv'
  <1>1. PICK pc : pc = registers[PCReg]
    OBVIOUS
  <1>2. pc \in Int
    BY <1>1, RegisterNumbers DEF MInv, RegsOK
  <1>3. CASE RaiseException(Translate(pc, 4, FALSE), pc, pageTable)
    BY <1>2, <1>3, FaultStep
  <1>4. CASE /\ Translate(pc, 4, FALSE) = "NoException"
             /\ \E value \in InstructionWord : instr' = Decode(value)
             /\ pageTable' = Touch(pageTable, pc, FALSE)
             /\ UNCHANGED << registers, mainMemory, mode, exception >>
    <2>1. MemOK(mainMemory', pageTable')
      BY <1>2, <1>4, ReadStep
    <2>2. mode = "UserMode"
      BY DEF Fetch
    <2> QED  BY <1>4, <2>1, <2>2 DEF MInv, InstrOK, Trapped
  <1> QED  BY <1>1, <1>3, <1>4 DEF Fetch

-----------------------------------------------------------------------------
(* The instructions that only write registers. *)
LEMMA RdValueTyped == ASSUME MInv, Executing(RdOps) PROVE RdValue \in Word
  <1>1. instr # NoInstr /\ instr.op \in RdOps /\ instr.op \notin Regimm
    BY DEF Executing, RdOps, Regimm
  <1>2. Rs \in Word /\ Rs \in Int /\ Rt \in Word /\ Rt \in Int /\ Extra \in Nat
    BY <1>1, Operands, WordFacts
  <1>3. ShiftCount \in Nat
    BY <1>2, Bits DEF ShiftCount
  <1>4. ToWord(Rs + Rt) \in Word /\ ToWord(Rs - Rt) \in Word
    <2>1. Rs + Rt \in Int /\ Rs - Rt \in Int
      BY <1>2
    <2> QED  BY <2>1, WordFacts
  <1>5. /\ And(Rs, Rt) \in Word /\ Or(Rs, Rt) \in Word /\ Xor(Rs, Rt) \in Word
        /\ Nor(Rs, Rt) \in Word
        /\ ShiftLeft(Rt, Extra) \in Word /\ ShiftLeft(Rt, ShiftCount) \in Word
        /\ ShiftRight(Rt, Extra) \in Word /\ ShiftRight(Rt, ShiftCount) \in Word
    BY <1>2, <1>3, BitOperations
  <1>6. \A b : BoolWord(b) \in Word
    BY WordFacts DEF BoolWord
  <1>7. registers[HiReg] \in Word /\ registers[LoReg] \in Word
    BY DEF MInv, RegsOK, WordRegister
  <1> QED  BY <1>1, <1>4, <1>5, <1>6, <1>7 DEF RdValue, RdOps

LEMMA RtValueTyped == ASSUME MInv, Executing(RtOps) PROVE RtValue \in Word
  <1>1. instr # NoInstr /\ instr.op \in RtOps
    BY DEF Executing
  <1>2. Rs \in Word /\ Rs \in Int /\ Extra \in Word /\ Extra \in Int
    BY <1>1, Operands
  <1>3. LowHalf \in Int /\ 2 * ByteBits \in Nat
    <2>1. Bytes(2) \in Nat /\ Bytes(2) > 0
      BY ByteFacts
    <2> QED  BY <1>2, <2>1, Bits DEF LowHalf
  <1>4. ToWord(Rs + Extra) \in Word
    <2>1. Rs + Extra \in Int
      BY <1>2
    <2> QED  BY <2>1, WordFacts
  <1>5. And(Rs, LowHalf) \in Word /\ Or(Rs, LowHalf) \in Word /\ Xor(Rs, LowHalf) \in Word
    BY <1>2, <1>3, BitOperations
  <1>6. ShiftLeft(Extra, 2 * ByteBits) \in Word
    BY <1>2, <1>3, BitOperations
  <1>7. \A b : BoolWord(b) \in Word
    BY WordFacts DEF BoolWord
  <1> QED  BY <1>1, <1>4, <1>5, <1>6, <1>7 DEF RtValue, RtOps

LEMMA ComputeStep == ASSUME MInv, ComputeRd \/ ComputeRt PROVE MInv'
  <1>1. GPR \subseteq WordRegister
    BY DEF WordRegister
  <1>2. CASE ComputeRd
    <2>1. mode = "UserMode" /\ instr # NoInstr
      BY <1>2 DEF ComputeRd, Executing
    <2>2. RegsOK([registers EXCEPT ![instr.rd] = RdValue])
      BY <1>1, <1>2, <2>1, RdValueTyped, Fields, SetRegister DEF MInv, ComputeRd
    <2> QED  BY <1>2, <2>1, <2>2, WriteStep, Operands DEF ComputeRd, Complete
  <1>3. CASE ComputeRt
    <2>1. mode = "UserMode" /\ instr # NoInstr /\ instr.op \notin Regimm
      BY <1>3 DEF ComputeRt, Executing, RtOps, Regimm
    <2>2. RegsOK([registers EXCEPT ![instr.rt] = RtValue])
      BY <1>1, <1>3, <2>1, RtValueTyped, Fields, SetRegister DEF MInv, ComputeRt
    <2> QED  BY <1>3, <2>1, <2>2, WriteStep, Operands DEF ComputeRt, Complete
  <1> QED  BY <1>2, <1>3

LEMMA CheckedStep ==
  ASSUME MInv, mode = "UserMode", instr # NoInstr, NEW sum \in Word, NEW overflow,
         NEW target \in GPR, Checked(sum, overflow, target)
  PROVE  MInv'
  <1>1. CASE RaiseException("OverflowException", 0, pageTable)
    BY <1>1, RaiseStep DEF MInv, PageFaults
  <1>2. CASE /\ Complete([registers EXCEPT ![target] = sum])
             /\ UNCHANGED << mainMemory, pageTable >>
    <2>1. RegsOK([registers EXCEPT ![target] = sum])
      BY SetRegister DEF MInv, WordRegister
    <2> QED  BY <1>2, <2>1, WriteStep, Operands DEF Complete
  <1> QED  BY <1>1, <1>2 DEF Checked

LEMMA AddSubStep == ASSUME MInv, Add \/ Addi \/ Sub PROVE MInv'
  <1>1. mode = "UserMode" /\ instr # NoInstr /\ instr.op \notin Regimm
    BY DEF Add, Addi, Sub, Executing, Regimm
  <1>2. /\ Rs \in Int /\ Rt \in Int /\ Extra \in Int
        /\ instr.rd \in GPR /\ instr.rt \in GPR
    BY <1>1, Operands, Fields DEF MInv
  <1>3. /\ ToWord(Rs + Rt) \in Word /\ ToWord(Rs + Extra) \in Word /\ ToWord(Rs - Rt) \in Word
    <2>1. Rs + Rt \in Int /\ Rs + Extra \in Int /\ Rs - Rt \in Int
      BY <1>2
    <2> QED  BY <2>1, WordFacts
  <1>4. CASE Add
    BY <1>1, <1>2, <1>3, <1>4, CheckedStep DEF Add
  <1>5. CASE Addi
    BY <1>1, <1>2, <1>3, <1>5, CheckedStep DEF Addi
  <1>6. CASE Sub
    BY <1>1, <1>2, <1>3, <1>6, CheckedStep DEF Sub
  <1> QED  BY <1>4, <1>5, <1>6

-----------------------------------------------------------------------------
(* Branches and jumps. *)
LEMMA LinkOK ==
  ASSUME MInv, instr # NoInstr, NEW link, NEW r \in GPR
  PROVE  RegsOK(IF link THEN [registers EXCEPT ![r] = NextAfter] ELSE registers)
  <1>1. r \in WordRegister /\ NextAfter \in Word /\ RegsOK(registers)
    BY Operands DEF MInv, WordRegister
  <1>2. RegsOK([registers EXCEPT ![r] = NextAfter])
    BY <1>1, SetRegister
  <1> QED  BY <1>1, <1>2

LEMMA ScaledIndex == ASSUME MInv, instr # NoInstr PROVE IndexToAddr(Extra) \in Int
  <1>1. ShiftLeft(Extra, 2) \in Word
    BY Operands, BitOperations
  <1> QED  BY <1>1, WordFacts DEF IndexToAddr

LEMMA BranchStep == ASSUME MInv, Branch PROVE MInv'
  <1>1. mode = "UserMode" /\ instr # NoInstr /\ R31 \in GPR
    BY RegisterNumbers DEF Branch, Executing
  <1>2. PICK link, regs, target, pc :
           /\ link = (instr.op \in {"BGEZAL", "BLTZAL"})
           /\ regs = IF link THEN [registers EXCEPT ![R31] = NextAfter] ELSE registers
           /\ target = ToWord(registers[NextPCReg] + IndexToAddr(Extra))
           /\ pc = IF Taken(regs[instr.rs]) THEN target ELSE NextAfter
    OBVIOUS
  <1>3. RegsOK(regs)
    BY <1>1, <1>2, LinkOK
  <1>4. pc \in Int
    <2>1. registers[NextPCReg] + IndexToAddr(Extra) \in Int
      BY <1>1, Operands, ScaledIndex
    <2>2. target \in Int /\ NextAfter \in Int
      BY <1>1, <1>2, <2>1, WordFacts, Operands
    <2> QED  BY <1>2, <2>2
  <1>5. CompleteLoad(regs, 0, 0, pc) /\ UNCHANGED << mainMemory, pageTable >>
    BY <1>2, Zenon DEF Branch
  <1> QED  BY <1>1, <1>3, <1>4, <1>5, WriteStep

LEMMA JumpStep == ASSUME MInv, Jump \/ JumpRegister PROVE MInv'
  <1>1. mode = "UserMode" /\ instr # NoInstr /\ R31 \in GPR /\ instr.rs \in GPR /\ instr.rd \in GPR
    BY RegisterNumbers, Fields DEF Jump, JumpRegister, Executing, MInv
  <1>2. CASE Jump
    <2>1. PICK link, regs, pc :
             /\ link = (instr.op = "JAL")
             /\ regs = IF link THEN [registers EXCEPT ![R31] = NextAfter] ELSE registers
             /\ pc = ((NextAfter \div Region) * Region) + IndexToAddr(Extra)
      OBVIOUS
    <2>2. RegsOK(regs)
      BY <1>1, <2>1, LinkOK
    <2>3. Region \in Nat /\ Region > 0
      <3>1. (7 * ByteBits) \div 2 \in 0..WordBits
        BY Bits DEF WordBits
      <3> QED  BY <3>1, Powers DEF Region
    <2>4. NextAfter \div Region \in Int
      BY <1>1, <2>3, Operands
    <2>5. pc \in Int
      BY <1>1, <2>1, <2>3, <2>4, ScaledIndex
    <2>6. CompleteLoad(regs, 0, 0, pc) /\ UNCHANGED << mainMemory, pageTable >>
      BY <1>2, <2>1, Zenon DEF Jump
    <2> QED  BY <1>1, <2>2, <2>5, <2>6, WriteStep
  <1>3. CASE JumpRegister
    <2>1. PICK link, regs :
             /\ link = (instr.op = "JALR")
             /\ regs = IF link THEN [registers EXCEPT ![instr.rd] = NextAfter] ELSE registers
      OBVIOUS
    <2>2. RegsOK(regs)
      BY <1>1, <2>1, LinkOK
    <2>3. regs[instr.rs] \in Int
      BY <1>1, <2>2, WordFacts DEF RegsOK, WordRegister
    <2>4. CompleteLoad(regs, 0, 0, regs[instr.rs]) /\ UNCHANGED << mainMemory, pageTable >>
      BY <1>3, <2>1, Zenon DEF JumpRegister
    <2> QED  BY <1>1, <2>2, <2>3, <2>4, WriteStep
  <1> QED  BY <1>2, <1>3

(* Products, quotients and the registers they go to. *)
LEMMA HiLoOK ==
  ASSUME MInv, NEW hi \in Word, NEW lo \in Word PROVE RegsOK(WithHiLo(hi, lo))
  <1>1. PICK a, b : a = [registers EXCEPT ![HiReg] = hi] /\ b = [a EXCEPT ![LoReg] = lo]
    OBVIOUS
  <1>2. HiReg \in WordRegister /\ LoReg \in WordRegister
    BY DEF WordRegister
  <1>3. RegsOK(a)
    BY <1>1, <1>2, SetRegister DEF MInv
  <1>4. RegsOK(b)
    BY <1>1, <1>2, <1>3, SetRegister
  <1> QED  BY <1>1, <1>4, Zenon DEF WithHiLo

LEMMA Quotients ==
  ASSUME NEW i \in Int, NEW j \in Int, j # 0
  PROVE  Quotient(i, j) \in Int /\ ToWord(Quotient(i, j)) \in Word
         /\ ToWord(i - Quotient(i, j) * j) \in Word
  <1>1. Magnitude(i) \in Nat /\ Magnitude(j) \in Nat /\ Magnitude(j) > 0
    BY DEF Magnitude
  <1>2. PICK q : q = Magnitude(i) \div Magnitude(j)
    OBVIOUS
  <1>3. q \in Int
    BY <1>1, <1>2
  <1>4. Quotient(i, j) \in Int
    BY <1>2, <1>3 DEF Quotient
  <1>5. PICK d \in Int : d = i - Quotient(i, j) * j
    BY <1>4
  <1> QED  BY <1>4, <1>5, WordFacts

LEMMA MultiplyDivideStep ==
  ASSUME MInv, Multiply \/ Divide \/ DivideTrapsHost \/ MoveToHiLo PROVE MInv'
  <1>1. mode = "UserMode" /\ instr # NoInstr /\ instr.op \notin Regimm
    BY DEF Multiply, Divide, DivideTrapsHost, MoveToHiLo, Executing, Regimm
  <1>2. /\ Rs \in Word /\ Rt \in Word /\ NextAfter \in Int /\ 0 \in Word
        /\ registers[HiReg] \in Word /\ registers[LoReg] \in Word
    BY <1>1, Operands, WordFacts DEF MInv, RegsOK, WordRegister
  <1>3. CASE Multiply
    <2>1. PICK product : product = Mult(Rs, Rt, instr.op = "MULT")
      OBVIOUS
    <2>2. product[1] \in Word /\ product[2] \in Word
      BY <1>2, <2>1, Products
    <2>3. RegsOK(WithHiLo(product[1], product[2]))
      BY <2>2, HiLoOK
    <2>4. /\ CompleteLoad(WithHiLo(product[1], product[2]), 0, 0, NextAfter)
          /\ UNCHANGED << mainMemory, pageTable >>
      BY <1>3, <2>1, Zenon DEF Multiply, Complete
    <2> QED  BY <1>1, <1>2, <2>3, <2>4, WriteStep
  <1>4. CASE Divide
    <2>1. PICK i, j, regs :
             /\ i = IF instr.op = "DIV" THEN Signed(Rs) ELSE Rs
             /\ j = IF instr.op = "DIV" THEN Signed(Rt) ELSE Rt
             /\ regs = IF Rt = 0 THEN WithHiLo(0, 0)
                       ELSE WithHiLo(ToWord(i - Quotient(i, j) * j), ToWord(Quotient(i, j)))
      OBVIOUS
    <2>2. i \in Int /\ j \in Int /\ (Rt # 0 => j # 0)
      BY <1>2, <2>1, WordFacts DEF Signed, Negative, Word
    <2>3. RegsOK(regs)
      <3>1. CASE Rt = 0
        BY <1>2, <2>1, <3>1, HiLoOK
      <3>2. CASE Rt # 0
        <4>1. /\ ToWord(i - Quotient(i, j) * j) \in Word /\ ToWord(Quotient(i, j)) \in Word
          BY <2>2, <3>2, Quotients
        <4> QED  BY <2>1, <3>2, <4>1, HiLoOK
      <3> QED  BY <3>1, <3>2
    <2>4. CompleteLoad(regs, 0, 0, NextAfter) /\ UNCHANGED << mainMemory, pageTable >>
      BY <1>4, <2>1, Zenon DEF Divide, Complete
    <2> QED  BY <1>1, <1>2, <2>3, <2>4, WriteStep
  <1>5. CASE DivideTrapsHost
    <2>1. /\ mode' = "HostSignal" /\ instr' = NoInstr
          /\ UNCHANGED << registers, mainMemory, pageTable >>
      BY <1>5 DEF DivideTrapsHost
    <2> QED  BY <2>1 DEF MInv, InstrOK, Trapped
  <1>6. CASE MoveToHiLo
    <2>1. PICK regs : regs = IF instr.op = "MTHI" THEN WithHiLo(Rs, registers[LoReg])
                             ELSE WithHiLo(registers[HiReg], Rs)
      OBVIOUS
    <2>2. RegsOK(regs)
      BY <1>2, <2>1, HiLoOK
    <2>3. CompleteLoad(regs, 0, 0, NextAfter) /\ UNCHANGED << mainMemory, pageTable >>
      BY <1>6, <2>1, Zenon DEF MoveToHiLo, Complete
    <2> QED  BY <1>1, <1>2, <2>2, <2>3, WriteStep
  <1> QED  BY <1>3, <1>4, <1>5, <1>6

-----------------------------------------------------------------------------
(* Loads and stores. *)
LEMMA ReadWord ==
  ASSUME NEW size \in {1, 2, 4}, NEW value \in 0..(Bytes(size) - 1)
  PROVE  value \in Word /\ SignExtend(value, size) \in Word
  <1>1. PICK B, C : B = Bytes(size) /\ C = Bytes(4 - size)
    OBVIOUS
  <1>2. B \in Nat /\ B > 0 /\ C \in Nat /\ C > 0 /\ B * C = Modulus
    <2>1. size \in 0..4 /\ 4 - size \in 0..4
      OBVIOUS
    <2> QED  BY <1>1, <2>1, ByteFacts
  <1>3. B <= Modulus
    BY <1>2
  <1>4. value \in Nat /\ value < B
    BY <1>1, <1>2
  <1>5. value \in Word /\ Modulus - B + value \in Word
    BY <1>2, <1>3, <1>4, WordFacts DEF Word
  <1> QED  BY <1>1, <1>5 DEF SignExtend

LEMMA LoadStep == ASSUME MInv, Load PROVE MInv'
  <1>1. /\ mode = "UserMode" /\ instr # NoInstr /\ instr.op \notin Regimm
    BY DEF Load, Executing, Regimm
  <1>2. EffAddr \in Int /\ NextAfter \in Int /\ instr.rt \in GPR /\ RegsOK(registers)
    BY <1>1, Operands, Fields DEF MInv
  <1>3. PICK size, value, loaded :
          /\ size = SizeOf(instr.op) /\ value = MemValue(EffAddr, size)
          /\ loaded = IF instr.op \in {"LB", "LH"} THEN SignExtend(value, size) ELSE value
    OBVIOUS
  <1>4. size \in {1, 2, 4}
    BY <1>3, Sizes
  <1>5. CASE RaiseException(Translate(EffAddr, size, FALSE), EffAddr, pageTable)
    BY <1>2, <1>5, FaultStep
  <1>6. CASE /\ Translate(EffAddr, size, FALSE) = "NoException"
             /\ pageTable' = Touch(pageTable, EffAddr, FALSE)
             /\ UNCHANGED mainMemory
             /\ CompleteLoad(registers, instr.rt, loaded, NextAfter)
    <2>1. value \in 0..(Bytes(size) - 1)
      BY <1>2, <1>3, <1>4, <1>6, MemRead DEF MInv, MemOK
    <2>2. loaded \in Word
      BY <1>3, <1>4, <2>1, ReadWord
    <2>3. MemOK(mainMemory', pageTable')
      BY <1>2, <1>6, ReadStep
    <2> QED  BY <1>1, <1>2, <1>6, <2>2, <2>3, CompleteStep
  <1> QED  BY <1>3, <1>5, <1>6, Zenon DEF Load

(* The words the unaligned accesses put together. *)
LEMMA Merged ==
  ASSUME MInv, instr # NoInstr, instr.op \notin Regimm, NEW value \in Word
  PROVE  /\ LwlValue(value) \in Word /\ LwrValue(value) \in Word
         /\ SwlValue(value) \in Word /\ SwrValue(value) \in Word
  <1>1. PICK s : s = Shift
    OBVIOUS
  <1>2. s \in 0..3
    BY <1>1, Operands DEF Shift
  <1>3. PICK m : m = MergeInto
    OBVIOUS
  <1>4. Rt \in Word /\ m \in Word
    BY <1>3, Operands DEF MergeInto, MInv, RegsOK, WordRegister
  <1>5. Rt \in Int /\ m \in Int /\ value \in Int
    BY <1>4, WordFacts
  <1>6. PICK b, c : b = Bytes(s) /\ c = Bytes(3 - s)
    OBVIOUS
  <1>7. b \in Nat /\ b > 0 /\ c \in Nat /\ c > 0
    <2>1. s \in 0..4 /\ 3 - s \in 0..4
      BY <1>2
    <2> QED  BY <1>6, <2>1, ByteFacts
  <1>8. ToWord(value * b) \in Word /\ ToWord(Rt * c) \in Word
    <2>1. value * b \in Int /\ Rt * c \in Int
      BY <1>5, <1>7
    <2> QED  BY <2>1, WordFacts
  <1>9. value \div c \in Int /\ Rt \div b \in Int
    BY <1>5, <1>7
  <1>10. s \in 0..4 /\ s + 1 \in 0..4 /\ 4 - s \in 0..4 /\ 3 - s \in 0..4
    BY <1>2
  <1>11. JoinAt(ToWord(value * b), m, s) \in Word /\ JoinAt(m, value \div c, s + 1) \in Word
    BY <1>4, <1>5, <1>8, <1>9, <1>10, JoinedWord
  <1>12. /\ JoinAt(value, Rt \div b, 4 - s) \in Word
         /\ JoinAt(ToWord(Rt * c), value, 3 - s) \in Word
    BY <1>4, <1>5, <1>8, <1>9, <1>10, JoinedWord
  <1> QED  BY <1>1, <1>3, <1>6, <1>11, <1>12, Zenon DEF LwlValue, LwrValue, SwlValue, SwrValue

LEMMA LoadUnalignedStep == ASSUME MInv, LoadUnaligned PROVE MInv'
  <1>1. /\ mode = "UserMode" /\ instr # NoInstr /\ instr.op \notin Regimm
    BY DEF LoadUnaligned, Executing, Regimm
  <1>2. WordAddr \in Int /\ NextAfter \in Int /\ instr.rt \in GPR /\ RegsOK(registers)
    BY <1>1, Operands, Fields DEF MInv
  <1>3. PICK value, loaded :
          /\ value = MemValue(WordAddr, 4)
          /\ loaded = IF instr.op = "LWL" THEN LwlValue(value) ELSE LwrValue(value)
    OBVIOUS
  <1>4. CASE RaiseException(Translate(WordAddr, 4, FALSE), WordAddr, pageTable)
    BY <1>2, <1>4, FaultStep
  <1>5. CASE /\ Translate(WordAddr, 4, FALSE) = "NoException"
             /\ pageTable' = Touch(pageTable, WordAddr, FALSE)
             /\ UNCHANGED mainMemory
             /\ CompleteLoad(registers, instr.rt, loaded, NextAfter)
    <2>1. value \in 0..(Bytes(4) - 1)
      BY <1>2, <1>3, <1>5, MemRead DEF MInv, MemOK
    <2>2. loaded \in Word
      BY <1>1, <1>3, <2>1, ReadWord, Merged
    <2>3. MemOK(mainMemory', pageTable')
      BY <1>2, <1>5, ReadStep
    <2> QED  BY <1>1, <1>2, <1>5, <2>2, <2>3, CompleteStep
  <1> QED  BY <1>3, <1>4, <1>5, Zenon DEF LoadUnaligned

LEMMA StoresStep == ASSUME MInv, Store PROVE MInv'
  <1>1. /\ mode = "UserMode" /\ instr # NoInstr /\ instr.op \notin Regimm
    BY DEF Store, Executing, Regimm
  <1>2. EffAddr \in Int /\ NextAfter \in Int /\ Rt \in Word /\ RegsOK(registers)
    BY <1>1, Operands DEF MInv
  <1>3. PICK size : size = SizeOf(instr.op)
    OBVIOUS
  <1>4. size \in {1, 2, 4}
    BY <1>3, Sizes
  <1>5. CASE RaiseException(Translate(EffAddr, size, TRUE), EffAddr, pageTable)
    BY <1>2, <1>5, FaultStep
  <1>6. CASE /\ Translate(EffAddr, size, TRUE) = "NoException"
             /\ pageTable' = Touch(pageTable, EffAddr, TRUE)
             /\ mainMemory' = MemWith(EffAddr, size, Rt)
             /\ Complete(registers)
    <2>1. MemOK(mainMemory', pageTable')
      BY <1>2, <1>4, <1>6, StoreStep
    <2>2. 0 \in GPR /\ 0 \in Word
      BY RegisterNumbers, WordFacts
    <2> QED  BY <1>1, <1>2, <1>6, <2>1, <2>2, CompleteStep DEF Complete
  <1> QED  BY <1>3, <1>5, <1>6, Zenon DEF Store

LEMMA StoreUnalignedStep == ASSUME MInv, StoreUnaligned PROVE MInv'
  <1>1. /\ mode = "UserMode" /\ instr # NoInstr /\ instr.op \notin Regimm
    BY DEF StoreUnaligned, Executing, Regimm
  <1>2. WordAddr \in Int /\ NextAfter \in Int /\ RegsOK(registers) /\ TableOK(pageTable)
    BY <1>1, Operands DEF MInv, MemOK
  <1>3. PICK value, stored :
          /\ value = MemValue(WordAddr, 4)
          /\ stored = IF instr.op = "SWL" THEN SwlValue(value) ELSE SwrValue(value)
    OBVIOUS
  <1>4. CASE RaiseException(Translate(WordAddr, 4, FALSE), WordAddr, pageTable)
    BY <1>2, <1>4, FaultStep
  <1>5. CASE /\ Translate(WordAddr, 4, FALSE) = "NoException"
             /\ RaiseException(Translate(WordAddr, 4, TRUE), WordAddr,
                               Touch(pageTable, WordAddr, FALSE))
    <2>1. PICK table : table = Touch(pageTable, WordAddr, FALSE)
      OBVIOUS
    <2>2. MemOK(mainMemory, table)
      BY <1>2, <1>5, <2>1, ReadStep
    <2>3. WordAddr \div PageSize \in DOMAIN pageTable
      BY <1>2, <1>5, Translated
    <2>4. Blocks(pageTable, WordAddr) => Blocks(table, WordAddr)
      <3>1. Kept(pageTable, table)
        BY <1>2, <2>1, <2>3, Touched
      <3> QED  BY <3>1 DEF Blocks, Kept
    <2>5. Translate(WordAddr, 4, TRUE) \in PageFaults => Blocks(pageTable, WordAddr)
      BY <1>2, FaultBlocks DEF PageFaults
    <2> QED  BY <1>2, <1>5, <2>1, <2>2, <2>4, <2>5, RaiseStep
  <1>6. CASE /\ Translate(WordAddr, 4, FALSE) = "NoException"
             /\ Translate(WordAddr, 4, TRUE) = "NoException"
             /\ pageTable' = Touch(pageTable, WordAddr, TRUE)
             /\ mainMemory' = MemWith(WordAddr, 4, stored)
             /\ Complete(registers)
    <2>1. value \in 0..(Bytes(4) - 1)
      BY <1>2, <1>3, <1>6, MemRead DEF MInv, MemOK
    <2>2. stored \in Word
      BY <1>1, <1>3, <2>1, ReadWord, Merged
    <2>3. MemOK(mainMemory', pageTable')
      BY <1>2, <1>6, <2>2, StoreStep
    <2>4. 0 \in GPR /\ 0 \in Word
      BY RegisterNumbers, WordFacts
    <2> QED  BY <1>1, <1>2, <1>6, <2>3, <2>4, CompleteStep DEF Complete
  <1> QED  BY <1>3, <1>4, <1>5, <1>6, Zenon DEF StoreUnaligned

-----------------------------------------------------------------------------
(* Traps, interrupts and the kernel. *)
LEMMA TrapStep == ASSUME MInv, Syscall \/ Illegal PROVE MInv'
  <1>1. MemOK(mainMemory, pageTable)
    BY DEF MInv
  <1>2. CASE RaiseException("SyscallException", 0, pageTable)
    BY <1>1, <1>2, RaiseStep DEF PageFaults
  <1>3. CASE RaiseException("IllegalInstrException", 0, pageTable)
    BY <1>1, <1>3, RaiseStep DEF PageFaults
  <1> QED  BY <1>2, <1>3 DEF Syscall, Illegal

LEMMA InterruptStep == ASSUME MInv, InterruptDue PROVE MInv'
  <1>1. 0 \in GPR /\ 0 \in Word
    BY RegisterNumbers, WordFacts
  <1>2. RegsOK(registers')
    BY <1>1, DelayedLoadOK DEF MInv, InterruptDue
  <1>3. mode' = "UserMode" /\ instr' = NoInstr /\ UNCHANGED << mainMemory, pageTable >>
    BY DEF InterruptDue
  <1> QED  BY <1>2, <1>3 DEF MInv, InstrOK, Trapped

LEMMA ReturnStep ==
  ASSUME MInv, NEW regs, RegsOK(regs), IncreasePC(regs) PROVE MInv'
  <1>1. PICK p, q, a, b, c : /\ p = ToWord(regs[PCReg] + 4) /\ q = ToWord(regs[PCReg] + 8)
                             /\ a = [regs EXCEPT ![PrevPCReg] = regs[PCReg]]
                             /\ b = [a EXCEPT ![PCReg] = p]
                             /\ c = [b EXCEPT ![NextPCReg] = q]
    OBVIOUS
  <1>2. regs[PCReg] \in Int
    BY RegisterNumbers DEF RegsOK
  <1>3. p \in Int /\ q \in Int
    <2>1. regs[PCReg] + 4 \in Int /\ regs[PCReg] + 8 \in Int
      BY <1>2
    <2> QED  BY <1>1, <2>1, WordFacts
  <1>4. RegsOK(a)
    BY <1>1, <1>2, SetAddress
  <1>5. RegsOK(b)
    BY <1>1, <1>3, <1>4, SetAddress
  <1>6. RegsOK(c)
    BY <1>1, <1>3, <1>5, SetAddress
  <1>7. registers' = c
    BY <1>1, Zenon DEF IncreasePC
  <1>8. mode' = "UserMode" /\ UNCHANGED << mainMemory, pageTable, instr >>
    BY DEF IncreasePC
  <1> QED  BY <1>6, <1>7, <1>8 DEF MInv, InstrOK, Trapped

LEMMA StopStep ==
  ASSUME MInv, NEW how, how # "SystemMode", StopIn(how) PROVE MInv'
  <1>1. mode' = how /\ UNCHANGED << registers, mainMemory, pageTable, instr >>
    BY DEF StopIn
  <1> QED  BY <1>1 DEF MInv, InstrOK, Trapped

LEMMA HandlerStep == ASSUME MInv, ExceptionHandler PROVE MInv'
  <1>1. ASSUME NEW v \in Word PROVE RegsOK(WriteRegister(2, v))
    BY <1>1, RegisterNumbers, SetRegister DEF WriteRegister, WordRegister, MInv
  <1>2. CASE HandleFault
    BY <1>2, StopStep DEF HandleFault
  <1>3. CASE HandleHalt
    BY <1>3, StopStep DEF HandleHalt, SysHalt
  <1>4. CASE HandleAdd
    <2>1. ReadRegister(4) + ReadRegister(5) \in Int
      <3>1. registers[4] \in Word /\ registers[5] \in Word
        BY RegisterNumbers DEF MInv, RegsOK, WordRegister
      <3> QED  BY <3>1, WordFacts DEF ReadRegister
    <2>2. SysAdd(ReadRegister(4), ReadRegister(5)) \in Word
      BY <2>1, WordFacts DEF SysAdd
    <2> QED  BY <1>1, <1>4, <2>2, ReturnStep DEF HandleAdd
  <1>5. CASE HandleAsk
    <2>1. PICK v \in Answer : IncreasePC(WriteRegister(2, v))
      BY <1>5 DEF HandleAsk
    <2>2. v \in Word
      BY MachineAssumption
    <2> QED  BY <1>1, <2>1, <2>2, ReturnStep
  <1>6. CASE HandleTell
    BY <1>6, ReturnStep DEF HandleTell, MInv
  <1>7. CASE HandleUnknown
    BY <1>7, StopStep DEF HandleUnknown
  <1> QED  BY <1>2, <1>3, <1>4, <1>5, <1>6, <1>7 DEF ExceptionHandler

-----------------------------------------------------------------------------
LEMMA InitMInv == Init => MInv
  <1> SUFFICES ASSUME Init PROVE MInv
    OBVIOUS
  <1>1. PICK f \in InitGPR :
          registers = [r \in Register |-> IF r \in GPR THEN f[r]
                                          ELSE IF r = NextPCReg THEN 4 ELSE 0]
    BY DEF Init
  <1>2. f \in [GPR -> Word]
    BY MachineAssumption
  <1>3. RegsOK(registers)
    BY <1>1, <1>2, RegisterNumbers, WordFacts DEF RegsOK, WordRegister
  <1>4. \A a \in Address : InitialByte(a) \in Byte
    <2> SUFFICES ASSUME NEW a \in Address PROVE InitialByte(a) \in Byte
      OBVIOUS
    <2>1. a \in Nat
      BY Sizes DEF Address
    <2>2. PICK b : b = Bytes(1)
      OBVIOUS
    <2>3. b \in Nat /\ b > 0 /\ Byte = 0..(b - 1)
      BY <2>2, ByteFacts
    <2>4. (a + a \div 4) % b \in 0..(b - 1)
      BY <2>1, <2>3
    <2> QED  BY <2>2, <2>3, <2>4 DEF InitialByte
  <1>5. mainMemory \in [Address -> Byte] /\ Marked(mainMemory, pageTable)
    BY <1>4 DEF Init, Marked
  <1>6. TableOK(pageTable)
    BY ProgramAssumption DEF Init, TableOK
  <1> QED  BY <1>3, <1>5, <1>6 DEF Init, MInv, MemOK, InstrOK, Trapped

LEMMA NextMInv == MInv /\ [Next]_vars => MInv'
  <1> SUFFICES ASSUME MInv, [Next]_vars PROVE MInv'
    OBVIOUS
  <1>1. CASE UNCHANGED vars
    BY <1>1 DEF vars, MInv, InstrOK, Trapped
  <1>2. CASE Execute
    BY <1>2, ComputeStep, AddSubStep, BranchStep, JumpStep, MultiplyDivideStep, LoadStep,
       LoadUnalignedStep, StoresStep, StoreUnalignedStep, TrapStep DEF Execute
  <1> QED  BY <1>1, <1>2, FetchStep, InterruptStep, HandlerStep DEF Next

LEMMA MInvView == MInv => KernelView
  <1> SUFFICES ASSUME MInv PROVE KernelView
    OBVIOUS
  <1>1. DirtyBits
    BY DEF MInv, MemOK, TableOK, Marked, DirtyBits
  <1>2. ASSUME mode = "SystemMode" PROVE \A r \in GPR : registers[r] = Visible[r]
    BY <1>2 DEF MInv, Trapped, Visible
  <1>3. ASSUME mode = "SystemMode", exception \in PageFaults
        PROVE  registers[BadVAddrReg] \notin Reachable(TRUE)
    BY <1>3, BlockedUnreachable DEF MInv, Trapped
  <1> QED  BY <1>1, <1>2, <1>3 DEF KernelView, PageFaults

(* Bytes, pages, page tables and programs of any size: whoever looks at    *)
(* the registers in the kernel finds no load of machine.cc in progress,    *)
(* the address of a fault is in a page that translate.cc does not let      *)
(* through, and every frame that was written is behind a dirty entry.      *)
THEOREM KernelViewHolds == Spec => []KernelView
  <1>1. Init => MInv
    BY InitMInv
  <1>2. MInv /\ [Next]_vars => MInv'
    BY NextMInv
  <1>3. MInv => KernelView
    BY MInvView
  <1> QED  BY <1>1, <1>2, <1>3, PTL DEF Spec
=============================================================================
