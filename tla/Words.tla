------------------------------- MODULE Words -------------------------------
(***************************************************************************)
(* The words of the simulated MIPS: four bytes of ByteBits bits each.  The *)
(* machine of the code has ByteBits = 8, so that a word is an int of 32    *)
(* bits, a half word is a short and a byte is a char.  Nothing below       *)
(* depends on the 8; a smaller byte gives TLC every carry and every sign   *)
(* bit with far fewer words.  A word is the number 0 .. 2^WordBits - 1     *)
(* that its bits stand for; Signed gives the int.                          *)
(***************************************************************************)
EXTENDS Integers

CONSTANT ByteBits

ASSUME ByteBitsAssumption == ByteBits \in Nat \ {0}

WordBits == 4 * ByteBits

(* The law of powers, which the provers do not know. *)
ASSUME PowersOfTwo ==
    \A m, n \in 0 .. WordBits : m + n <= WordBits => 2^(m + n) = 2^m * 2^n

Modulus  == 2^WordBits
SIGN_BIT == 2^(WordBits - 1)
Byte     == 0 .. 2^ByteBits - 1
Word     == 0 .. Modulus - 1

(* The word an int expression leaves in a register: it wraps around. *)
ToWord(i) == i % Modulus

Negative(w) == w >= SIGN_BIT
Signed(w)   == IF Negative(w) THEN w - Modulus ELSE w

Bytes(n)     == 2^(ByteBits * n)
ByteOf(w, k) == (w \div Bytes(k)) % Bytes(1)

Bit(w, i) == (w \div 2^i) % 2

(* The number with the n digits f[0], f[1], ... of w bits each. *)
FromDigits(f, n, w) ==
    LET sum[i \in 0 .. n] ==
            IF i = 0 THEN 0 ELSE sum[i - 1] + f[i - 1] * 2^(w * (i - 1))
    IN  sum[n]

(* The word whose bit i is f[i]. *)
FromBits(f) == FromDigits(f, WordBits, 1)

And(v, w) == FromBits([i \in 0 .. WordBits - 1 |-> Bit(v, i) * Bit(w, i)])
=============================================================================
