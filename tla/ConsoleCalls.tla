---------------------------- MODULE ConsoleCalls ----------------------------
(***************************************************************************)
(* The system calls that use the console (userprog/ksyscall.h and their    *)
(* cases of ExceptionHandler), each one step: what it takes from the       *)
(* input, shows, and leaves in r2 and in the memory of the program.  How   *)
(* GetChar and PutChar work, and wait, is the subject of Console; here the *)
(* input is the sequence of characters GetChar will return, and a call     *)
(* that needs more of them than there are does not return.                 *)
(*                                                                         *)
(* Characters are their ASCII codes and EOF is -1, a signed char.          *)
(***************************************************************************)
EXTENDS Integers, Sequences, SequencesExt

CONSTANTS
    IntBits, LongBits,   \* the widths of int and long long
    PrintLimit,          \* the 255 bytes PrintString reads at most
    UserMemory,          \* the addresses of the program
    Typed,               \* the inputs
    Programs,            \* the programs, sequences of calls
    Random               \* what rand may return

ASSUME ConsoleWidths ==
    /\ {IntBits, LongBits, PrintLimit} \subseteq Nat \ {0}
    /\ IntBits < LongBits
    /\ UserMemory \subseteq Nat

VARIABLES
    input,     \* the characters GetChar will return
    shown,     \* what the last call has displayed
    mem,       \* the memory of the program
    r2,        \* register 2, for results
    calls,     \* the calls the program has still to make
    outcome    \* none before the program, running, or how it has ended

consoleVars == << input, shown, mem, r2, calls, outcome >>

EOF     == -1
Blank   == {32, 10}
Newline == 10
Minus   == 45
Zero    == 48
IsDigit(c) == c \in Zero .. Zero + 9

INT_MAX == 2^(IntBits - 1) - 1
INT_MIN == -(2^(IntBits - 1))

(* Signed arithmetic wraps around. *)
Wrap(i, bits) == ((i + 2^(bits - 1)) % 2^bits) - 2^(bits - 1)

-----------------------------------------------------------------------------
(* SysReadNum: whether it returns, what, and how many characters it takes. *)
SysReadNum(in) ==
    LET first == SelectInSeq(in, LAMBDA c : c \notin Blank)
        isNegative == first # 0 /\ in[first] = Minus
        start == IF isNegative THEN first + 1 ELSE first
        BlankAfter(i) == {j \in i + 1 .. Len(in) : in[j] \in Blank}
        end == CHOOSE j \in BlankAfter(start) : \A k \in BlankAfter(start) : j <= k
        num == FoldLeft(LAMBDA n, c : Wrap(n * 10 + (c - Zero), LongBits), 0,
                        SubSeq(in, start, end - 1))
        signed == IF isNegative THEN -num ELSE num
    IN  CASE first = 0 \/ start > Len(in) ->
               [returns |-> FALSE]
          [] first # 0 /\ start <= Len(in) /\ isNegative /\ in[start] \in Blank ->
               [returns |-> TRUE, value |-> 0, taken |-> start]
          [] first # 0 /\ start <= Len(in) /\ ~(isNegative /\ in[start] \in Blank) ->
               IF BlankAfter(start) = {} THEN [returns |-> FALSE]
               ELSE [returns |-> TRUE, taken |-> end,
                     value |-> IF /\ \A i \in start .. end - 1 : IsDigit(in[i])
                                  /\ signed \in INT_MIN .. INT_MAX
                               THEN signed ELSE 0]

(* C's remainder and quotient of a division by 10 round towards zero. *)
Mod10(n) == IF n >= 0 THEN n % 10 ELSE -((-n) % 10)
Div10(n) == IF n >= 0 THEN n \div 10 ELSE -((-n) \div 10)

(* SysPrintNum: the characters it puts.  -num wraps for INT_MIN. *)
SysPrintNum(num) ==
    LET n == IF num < 0 THEN Wrap(-num, IntBits) ELSE num
        arr[k \in 0 .. IntBits] ==
            IF k = 0 THEN << n, << >> >>
            ELSE LET prev == arr[k - 1]
                 IN  IF prev[1] = 0 THEN prev
                     ELSE << Div10(prev[1]), << Zero + Mod10(prev[1]) >> \o prev[2] >>
    IN  IF num = 0 THEN << Zero >> ELSE arr[IntBits][2]

(* User2System: the bytes from address a up to the first 0 or to limit,    *)
(* and whether reading them stays inside the program's memory.             *)
Reach(a, limit) ==
    LET zeros == {k \in 0 .. limit - 1 : a + k \in UserMemory /\ mem[a + k] = 0}
    IN  IF zeros = {} THEN limit
        ELSE 1 + CHOOSE k \in zeros : \A j \in zeros : k <= j
User2SystemFaults(a, limit) == \E k \in 0 .. Reach(a, limit) - 1 : a + k \notin UserMemory
User2System(a, limit) ==
    SelectSeq([k \in 1 .. Reach(a, limit) |-> mem[a + k - 1]], LAMBDA c : c # 0)

(* SysReadString: the characters of the line it stores; EOF is skipped. *)
SysReadString(in, len) ==
    LET Stops(i) == \/ in[i] \in {1, Newline}
                    \/ Len(SelectSeq(SubSeq(in, 1, i), LAMBDA c : c # EOF)) = len
        stops == {i \in 1 .. Len(in) : Stops(i)}
        end == CHOOSE i \in stops : \A j \in stops : i <= j
    IN  CASE len <= 0 -> [returns |-> TRUE, taken |-> 0, buffer |-> << >>]
          [] len > 0 /\ stops = {} -> [returns |-> FALSE]
          [] OTHER -> [returns |-> TRUE, taken |-> end,
                       buffer |-> SelectSeq(SubSeq(in, 1, end),
                                            LAMBDA c : c \notin {EOF, 1, Newline})]

(* Mutant: the 0 that ends the line is not copied. *)
CopiedUnended(b, len) == SelectSeq(b, LAMBDA c : c # 0)

(* System2User: the bytes of a zeroed buffer of len bytes that begins with *)
(* b, up to and with the first 0.                                          *)
Copied(b, len) ==
    LET padded == [k \in 1 .. len |-> IF k <= Len(b) THEN b[k] ELSE 0]
        zero == SelectInSeq(padded, LAMBDA c : c = 0)
    IN  IF zero = 0 THEN padded ELSE SubSeq(padded, 1, zero)
System2UserFaults(a, bytes) == \E k \in 0 .. Len(bytes) - 1 : a + k \notin UserMemory
System2User(a, bytes) ==
    [m \in UserMemory |-> IF m - a + 1 \in DOMAIN bytes THEN bytes[m - a + 1] ELSE mem[m]]

-----------------------------------------------------------------------------
Calling(name) == outcome = "running" /\ calls # << >> /\ Head(calls).call = name
Return == calls' = Tail(calls) /\ UNCHANGED outcome
Take(n) == input' = SubSeq(input, n + 1, Len(input))

(* ExceptionHandler, case by case; every case ends with IncreasePC. *)
ReadNum ==
    /\ Calling("ReadNum")
    /\ LET r == SysReadNum(input)
       IN  r.returns /\ r2' = r.value /\ Take(r.taken)
    /\ shown' = << >> /\ UNCHANGED mem /\ Return

(* The number to print: an argument, or the result of the call before. *)
Number(c) == IF c.result THEN r2 ELSE c.arg

PrintNum ==
    /\ Calling("PrintNum")
    /\ shown' = SysPrintNum(Number(Head(calls)))
    /\ UNCHANGED << input, mem, r2 >> /\ Return

RandomNum ==
    /\ Calling("RandomNum")
    /\ r2' \in Random
    /\ shown' = << >> /\ UNCHANGED << input, mem >> /\ Return

ReadChar ==
    /\ Calling("ReadChar")
    /\ input # << >> /\ r2' = Head(input) /\ Take(1)
    /\ shown' = << >> /\ UNCHANGED mem /\ Return

(* The low byte of the register. *)
PrintChar ==
    /\ Calling("PrintChar")
    /\ shown' = << Wrap(r2, 8) >>
    /\ UNCHANGED << input, mem, r2 >> /\ Return

(* A fault of User2System or System2User halts the machine. *)
ReadString ==
    /\ Calling("ReadString") /\ Head(calls).len >= -1
    /\ LET a     == Head(calls).addr
           len   == Head(calls).len
           r     == SysReadString(input, len)
           bytes == Copied(r.buffer, len)
       IN  \/ /\ User2SystemFaults(a, len)
              /\ outcome' = "halted" /\ UNCHANGED << calls, input, mem >>
           \/ /\ ~User2SystemFaults(a, len) /\ r.returns /\ Take(r.taken)
              /\ IF System2UserFaults(a, bytes)
                 THEN outcome' = "halted" /\ UNCHANGED << calls, mem >>
                 ELSE mem' = System2User(a, bytes) /\ Return
    /\ shown' = << >> /\ UNCHANGED r2

(* new char[len + 1] throws what nobody catches. *)
ReadStringAborts ==
    /\ Calling("ReadString") /\ Head(calls).len < -1
    /\ outcome' = "aborted"
    /\ UNCHANGED << input, shown, mem, r2, calls >>

PrintString ==
    /\ Calling("PrintString")
    /\ LET a == Head(calls).addr
       IN  IF User2SystemFaults(a, PrintLimit)
           THEN outcome' = "halted" /\ shown' = << >> /\ UNCHANGED calls
           ELSE shown' = User2System(a, PrintLimit) /\ Return
    /\ UNCHANGED << input, mem, r2 >>

ConsoleCall ==
    ReadNum \/ PrintNum \/ RandomNum \/ ReadChar \/ PrintChar
        \/ ReadString \/ ReadStringAborts \/ PrintString

(* Kernel::ConsoleTest: every character up to EOF is shown. *)
ConsoleTest(in) ==
    LET eof == SelectInSeq(in, LAMBDA c : c = EOF)
    IN  [returns |-> eof # 0, shown |-> IF eof = 0 THEN in ELSE SubSeq(in, 1, eof - 1)]

NoConsoleCalls ==
    /\ input = << >> /\ shown = << >> /\ calls = << >> /\ r2 = 0
    /\ mem = [a \in UserMemory |-> 120] /\ outcome = "none"

(* A program starts, with some input typed ahead. *)
StartCalls ==
    /\ outcome = "none" /\ outcome' = "running"
    /\ input' \in Typed /\ calls' \in Programs
    /\ UNCHANGED << shown, mem, r2 >>

-----------------------------------------------------------------------------
(* What the calls promise, said without the loops. *)
IsNumber(t) ==
    LET digits == IF t # << >> /\ Head(t) = Minus THEN Tail(t) ELSE t
    IN  digits # << >> /\ \A i \in DOMAIN digits : IsDigit(digits[i])

RECURSIVE Value(_)
Value(digits) ==
    IF digits = << >> THEN 0 ELSE (10 * Value(Front(digits))) + (Last(digits) - Zero)
NumberOf(t) == IF Head(t) = Minus THEN -Value(Tail(t)) ELSE Value(t)

(* The input is blanks, a word t, a blank and the rest, and t is a number  *)
(* that int has or else the result is 0.  Numbers beyond long long are     *)
(* left out: they wrap around and may come back as anything.               *)
ReadsNumber(in, rest, result) ==
    \E i, j \in DOMAIN in :
        LET t == SubSeq(in, i, j - 1)
        IN  /\ i < j /\ in[j] \in Blank
            /\ \A k \in 1 .. i - 1 : in[k] \in Blank
            /\ \A k \in i .. j - 1 : in[k] \notin Blank
            /\ rest = SubSeq(in, j + 1, Len(in))
            /\ \/ IsNumber(t) /\ NumberOf(t) \in INT_MIN .. INT_MAX /\ result = NumberOf(t)
               \/ IsNumber(t) /\ NumberOf(t) \notin INT_MIN .. INT_MAX /\ result = 0
               \/ ~IsNumber(t) /\ result = 0
               \/ IsNumber(t) /\ NumberOf(t) \notin -(2^(LongBits - 1)) .. 2^(LongBits - 1) - 1

(* The digits of a number, without leading zeros; before those of a        *)
(* negative one there may be its sign, which SysPrintNum leaves out, and   *)
(* before those of another nothing.                                        *)
ShowsNumber(n, text) ==
    LET digits == IF n < 0 /\ text # << >> /\ Head(text) = Minus THEN Tail(text) ELSE text
    IN  /\ IsNumber(digits) /\ Head(digits) # Minus
        /\ Value(digits) = IF n < 0 THEN -n ELSE n
        /\ Head(digits) = Zero => digits = << Zero >>

(* At most len characters of the line, ended by a 0 if there is room; the  *)
(* memory around it is not touched and what was not stored is still in     *)
(* the input.                                                              *)
ReadsLine(in, rest, a, len, before, after) ==
    \E n \in 0 .. len :
        LET line == SubSeq(in, 1, n)
            cut  == SelectInSeq(line, LAMBDA c : c = 0)
            kept == IF cut = 0 THEN n ELSE cut - 1
        IN  /\ \A i \in DOMAIN line : line[i] \notin {EOF, 1, Newline}
            /\ \/ n = len /\ rest = SubSeq(in, n + 1, Len(in))
               \/ n < len /\ in[n + 1] \in {1, Newline} /\ rest = SubSeq(in, n + 2, Len(in))
            /\ \A k \in 1 .. kept : after[a + k - 1] = line[k]
            /\ kept < len => after[a + kept] = 0
            /\ \A m \in UserMemory \ (a .. a + kept - (IF kept < len THEN 0 ELSE 1)) :
                  after[m] = before[m]

(* ReadNum gives the next word as a number, if it is one of an int, and 0  *)
(* otherwise; PrintNum shows the digits of every number but INT_MIN;       *)
(* ReadChar takes the next character and PrintChar shows the one it is     *)
(* given; ReadString stores one line inside the buffer it was given,       *)
(* PrintString shows what is stored there; and nothing typed is lost or    *)
(* read twice when one call follows another.  The sign of a negative       *)
(* number is not asked for, nor a result for numbers that long long does   *)
(* not have.                                                               *)
CallDone ==
    calls # << >> /\ calls' # calls =>
        LET c == Head(calls)
        IN  CASE c.call = "ReadNum" -> ReadsNumber(input, input', r2')
              [] c.call = "PrintNum" ->
                   Number(c) = INT_MIN \/ ShowsNumber(Number(c), shown')
              [] c.call = "ReadString" ->
                   IF c.len > 0 THEN ReadsLine(input, input', c.addr, c.len, mem, mem')
                   ELSE input' = input /\ mem' = mem
              [] c.call = "PrintString" ->
                   /\ \A k \in DOMAIN shown' : shown'[k] = mem[c.addr + k - 1]
                   /\ Len(shown') = PrintLimit \/ mem[c.addr + Len(shown')] = 0
              [] c.call = "ReadChar" -> input = << r2' >> \o input' /\ shown' = << >>
              [] c.call = "PrintChar" ->
                   input' = input /\ (r2 \in -128 .. 127 => shown' = << r2 >>)
              [] OTHER -> input' = input

ConsoleCallsExact == [][CallDone]_consoleVars
=============================================================================
