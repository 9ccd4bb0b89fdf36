----------------------------- MODULE MCStartup -----------------------------
(* A small instance of Startup for TLC. *)
EXTENDS Startup

(* Options with their values, without them, and stray words. *)
Bare    == {"-z", "-K", "-C", "-N", "-l", "-D", "-s", "-f", "-u", "-x", "-ci", "-cp", "b"}
OneWord == {"-x", "-d", "-p", "-r", "-rs", "-ci", "-co", "-n", "-m"}
Group ==
    {<< w >> : w \in Bare} \cup {<< w, v >> : w \in OneWord, v \in {"a"}}
      \cup {<< "-p", "b" >>, << "-r", "b" >>, << "-cp", "a" >>}
      \cup {<< "-cp", u, v >> : u \in {"a", "b", "c", "d"}, v \in {"b", "n"}}
(* Up to two groups, and three around a copy. *)
MCArgvs ==
    {<< >>} \cup Group \cup {g \o h : g, h \in Group}
      \cup {g \o << "-cp", "a", "b" >> \o h : g, h \in Group}

(* TransferSize is 2: a file of two reads, one read short, an empty one    *)
(* and one that is too long; c does not exist.                             *)
MCUnixFiles == "a" :> << 1, 2, 3, 4, 5 >> @@ "b" :> << >> @@ "d" :> << 1, 2, 3, 4, 5, 6 >>
MCOnDisk == {<< >>, "b" :> << 9, 8, 7 >>}

MCKeyOf(x) == x \div 2

(* Blanks, a minus sign, digits, another character, the two that end a     *)
(* line and 0; the end of a file.                                          *)
Chars == {32, 10, 45, 49, 50, 56, 120, 1, 0}
MCTyped ==
    UNION {{s, Append(s, EOF)} : s \in SeqOf(Chars, 3)} \cup SeqOf({32, 45, 49, 50, 56}, 4)

Call(name) == [call |-> name]
CallPrintNum(n) == [call |-> "PrintNum", result |-> FALSE, arg |-> n]
PrintResult == [call |-> "PrintNum", result |-> TRUE, arg |-> 0]
CallReadString(a, len) == [call |-> "ReadString", addr |-> a, len |-> len]
CallPrintString(a) == [call |-> "PrintString", addr |-> a]

(* The programs num_io, char_io and str_io of test/ and others with        *)
(* buffers that overlap, leave the memory or have no length.               *)
MCPrograms ==
    { << Call("ReadNum"), PrintResult, Call("ReadNum") >>,
      << Call("ReadChar"), Call("PrintChar"), CallReadString(0, 2), CallPrintString(0) >>,
      << CallReadString(1, 3), CallPrintString(1) >>,
      << CallReadString(0, 2), CallReadString(0, 3), CallPrintString(0) >>,
      << CallReadString(0, 1), CallReadString(2, 2), CallPrintString(2), CallPrintString(1) >>,
      << Call("RandomNum"), PrintResult >>,
      << CallReadString(3, 2) >>,
      << CallReadString(0, 0), CallReadString(0, -1), CallReadString(0, -2) >>,
      [i \in 1 .. 2^IntBits |-> CallPrintNum(INT_MIN + i - 1)] }
=============================================================================
