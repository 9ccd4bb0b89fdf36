------------------------------ MODULE Console ------------------------------
(***************************************************************************)
(* The simulated keyboard and display (machine/console.cc) and the         *)
(* synchronous interface on top of them (userprog/synchconsole.cc).        *)
(*                                                                         *)
(* The keyboard polls a UNIX file by scheduling an interrupt again and     *)
(* again; it takes one character, tells SynchConsoleInput, and goes on     *)
(* polling when that character has been fetched.  "No character" is the    *)
(* value EOF of the type char, so the byte 255 looks like EOF as well.     *)
(*                                                                         *)
(* Lock and Semaphore are used by their contract (module Synch).           *)
(***************************************************************************)
EXTENDS Naturals, Sequences, FiniteSets

CONSTANTS
    Reader, Writer,  \* the threads calling GetChar, PutChar
    Byte,            \* the bytes of the input file; 255 is EOF
    EOF,             \* (char) -1
    MaxInput,        \* bound: length of the input file
    MaxGet, MaxPut,  \* bounds: calls each reader and each writer makes
    NULL

Char == Byte \cup {EOF}

ASSUME ConsoleAssumption ==
    /\ {MaxInput, MaxPut, MaxGet} \subseteq Nat
    /\ NULL \notin Reader \cup Writer \cup Char

VARIABLES
    input,           \* the input file
    next,            \* how much of it has been read
    incoming,        \* ConsoleInput
    readPending,     \* a ConsoleReadInt is scheduled
    inHolder, inWait,    \* SynchConsoleInput: lock, waitFor
    rpc,             \* readers: "idle", "acquire", "wait", "release"
    ch,              \* the local variable of GetChar
    gets,            \* how many calls each reader has made
    got,             \* history: what GetChar returned, in the order of return
    putBusy,         \* ConsoleOutput
    writePending,    \* a ConsoleWriteInt is scheduled
    outHolder, outWait,  \* SynchConsoleOutput: lock, waitFor
    wpc,             \* writers: "idle", "acquire", "put", "wait", "release"
    puts,            \* how many characters each writer has put
    display          \* the output file: who wrote each character

inVars == << input, next, incoming, readPending, inHolder, inWait, rpc, ch, gets, got >>
outVars == << putBusy, writePending, outHolder, outWait, wpc, puts, display >>
vars == << inVars, outVars >>

TypeOK ==
    /\ input \in Seq(Byte)
    /\ next \in 0..Len(input)
    /\ incoming \in Char
    /\ readPending \in BOOLEAN
    /\ inHolder \in Reader \cup {NULL}
    /\ inWait \in {0, 1}
    /\ rpc \in [Reader -> {"idle", "acquire", "wait", "release"}]
    /\ ch \in [Reader -> Char \cup {NULL}]
    /\ gets \in [Reader -> 0..MaxGet]
    /\ got \in Seq(Char)
    /\ putBusy \in BOOLEAN
    /\ writePending \in BOOLEAN
    /\ outHolder \in Writer \cup {NULL}
    /\ outWait \in {0, 1}
    /\ wpc \in [Writer -> {"idle", "acquire", "put", "wait", "release"}]
    /\ puts \in [Writer -> 0..MaxPut]
    /\ display \in Seq(Writer)

(* The constructors; ConsoleInput schedules its first poll. *)
ConsoleInputInit ==
    /\ input \in UNION {[1..n -> Byte] : n \in 0..MaxInput}
    /\ next = 0
    /\ incoming = EOF
    /\ readPending = TRUE
SynchConsoleInputInit ==
    /\ inHolder = NULL
    /\ inWait = 0
ConsoleOutputInit ==
    /\ putBusy = FALSE
    /\ writePending = FALSE
    /\ display = << >>
SynchConsoleOutputInit ==
    /\ outHolder = NULL
    /\ outWait = 0

Init ==
    /\ ConsoleInputInit /\ SynchConsoleInputInit
    /\ ConsoleOutputInit /\ SynchConsoleOutputInit
    /\ rpc = [r \in Reader |-> "idle"]
    /\ ch = [r \in Reader |-> NULL]
    /\ gets = [r \in Reader |-> 0]
    /\ got = << >>
    /\ wpc = [w \in Writer |-> "idle"]
    /\ puts = [w \in Writer |-> 0]

(* SynchConsoleInput::CallBack and SynchConsoleOutput::CallBack: V. *)
CallBackIn == inWait' = inWait + 1
CallBackOut == outWait' = outWait + 1

-----------------------------------------------------------------------------
(* ConsoleInput::CallBack.  PollFile may find nothing in the time it waits *)
(* for, and then the poll is scheduled again.  At the end of the file      *)
(* nothing is scheduled, but the OS is told all the same.                  *)

PollNothing ==
    /\ readPending
    /\ UNCHANGED vars

(* Mutant: the keyboard goes on polling with a character in its buffer. *)
CharArrivesPolling ==
    /\ readPending
    /\ next < Len(input)
    /\ next' = next + 1
    /\ incoming' = input[next']
    /\ inWait' = inWait + 1
    /\ UNCHANGED << input, readPending, inHolder, rpc, ch, gets, got, outVars >>

CharArrives ==
    /\ readPending
    /\ next < Len(input)
    /\ next' = next + 1
    /\ incoming' = input[next']
    /\ readPending' = FALSE
    /\ CallBackIn
    /\ UNCHANGED << input, inHolder, rpc, ch, gets, got, outVars >>

EndOfFile ==
    /\ readPending
    /\ next = Len(input)
    /\ readPending' = FALSE
    /\ CallBackIn
    /\ UNCHANGED << input, next, incoming, inHolder, rpc, ch, gets, got, outVars >>

-----------------------------------------------------------------------------
(* SynchConsoleInput::GetChar.                                             *)

StartGetChar(r) ==
    /\ rpc[r] = "idle"
    /\ gets[r] < MaxGet
    /\ gets' = [gets EXCEPT ![r] = @ + 1]
    /\ rpc' = [rpc EXCEPT ![r] = "acquire"]
    /\ UNCHANGED << input, next, incoming, readPending, inHolder, inWait, ch, got, outVars >>

AcquireIn(r) ==
    /\ rpc[r] = "acquire"
    /\ inHolder = NULL
    /\ inHolder' = r
    /\ rpc' = [rpc EXCEPT ![r] = "wait"]
    /\ UNCHANGED << input, next, incoming, readPending, inWait, ch, gets, got, outVars >>

(* Mutant: the buffer is emptied without asking for the next character. *)
FetchCharLast(r) ==
    /\ rpc[r] = "wait"
    /\ inWait > 0
    /\ inWait' = inWait - 1
    /\ ch' = [ch EXCEPT ![r] = incoming]
    /\ incoming' = EOF
    /\ rpc' = [rpc EXCEPT ![r] = "release"]
    /\ UNCHANGED << input, next, inHolder, gets, got, outVars, readPending >>

(* waitFor->P(), then ConsoleInput::GetChar, which schedules the next poll *)
(* if there was a character.                                               *)
FetchChar(r) ==
    /\ rpc[r] = "wait"
    /\ inWait > 0
    /\ inWait' = inWait - 1
    /\ ch' = [ch EXCEPT ![r] = incoming]
    /\ readPending' = (readPending \/ incoming # EOF)
    /\ incoming' = EOF
    /\ rpc' = [rpc EXCEPT ![r] = "release"]
    /\ UNCHANGED << input, next, inHolder, gets, got, outVars >>

ReleaseIn(r) ==
    /\ rpc[r] = "release"
    /\ inHolder' = NULL
    /\ rpc' = [rpc EXCEPT ![r] = "idle"]
    /\ got' = Append(got, ch[r])
    /\ ch' = [ch EXCEPT ![r] = NULL]
    /\ UNCHANGED << input, next, incoming, readPending, inWait, gets, outVars >>

-----------------------------------------------------------------------------
(* SynchConsoleOutput::PutChar and ConsoleOutput.                          *)

StartPutChar(w) ==
    /\ wpc[w] = "idle"
    /\ puts[w] < MaxPut
    /\ puts' = [puts EXCEPT ![w] = @ + 1]
    /\ wpc' = [wpc EXCEPT ![w] = "acquire"]
    /\ UNCHANGED << inVars, putBusy, writePending, outHolder, outWait, display >>

(* Mutant: writers do not exclude each other. *)
AcquireOutAlways(w) ==
    /\ wpc[w] = "acquire"
    /\ outHolder' = w
    /\ wpc' = [wpc EXCEPT ![w] = "put"]
    /\ UNCHANGED << inVars, putBusy, writePending, outWait, puts, display >>

AcquireOut(w) ==
    /\ wpc[w] = "acquire"
    /\ outHolder = NULL
    /\ outHolder' = w
    /\ wpc' = [wpc EXCEPT ![w] = "put"]
    /\ UNCHANGED << inVars, putBusy, writePending, outWait, puts, display >>

(* ConsoleOutput::PutChar; that putBusy is FALSE, which it ASSERTs, is     *)
(* part of the invariant DisplayAcknowledged.                              *)
Put(w) ==
    /\ wpc[w] = "put"
    /\ display' = Append(display, w)
    /\ putBusy' = TRUE
    /\ writePending' = TRUE
    /\ wpc' = [wpc EXCEPT ![w] = "wait"]
    /\ UNCHANGED << inVars, outHolder, outWait, puts >>

WaitOut(w) ==
    /\ wpc[w] = "wait"
    /\ outWait > 0
    /\ outWait' = outWait - 1
    /\ wpc' = [wpc EXCEPT ![w] = "release"]
    /\ UNCHANGED << inVars, putBusy, writePending, outHolder, puts, display >>

ReleaseOut(w) ==
    /\ wpc[w] = "release"
    /\ outHolder' = NULL
    /\ wpc' = [wpc EXCEPT ![w] = "idle"]
    /\ UNCHANGED << inVars, putBusy, writePending, outWait, puts, display >>

(* ConsoleOutput::CallBack, then SynchConsoleOutput::CallBack. *)
WriteDone ==
    /\ writePending
    /\ writePending' = FALSE
    /\ putBusy' = FALSE
    /\ CallBackOut
    /\ UNCHANGED << inVars, outHolder, wpc, puts, display >>

-----------------------------------------------------------------------------
GetCharStep(r) == AcquireIn(r) \/ FetchChar(r) \/ ReleaseIn(r)
PutCharStep(w) == AcquireOut(w) \/ Put(w) \/ WaitOut(w) \/ ReleaseOut(w)
Arrival == CharArrives \/ EndOfFile

Next ==
    \/ PollNothing \/ Arrival \/ WriteDone
    \/ \E r \in Reader : StartGetChar(r) \/ GetCharStep(r)
    \/ \E w \in Writer : StartPutChar(w) \/ PutCharStep(w)

Spec == Init /\ [][Next]_vars

(* Interrupts that are scheduled come, what is typed arrives after some    *)
(* polls, and threads that can go on do.                                   *)
Fairness ==
    /\ WF_vars(Arrival) /\ WF_vars(WriteDone)
    /\ \A r \in Reader : WF_vars(GetCharStep(r))
    /\ \A w \in Writer : WF_vars(PutCharStep(w))

FairSpec == Spec /\ Fairness

-----------------------------------------------------------------------------
(* The keyboard's buffer is empty when it polls (console.cc:70). *)
BufferFree == readPending => incoming = EOF

(* What left the file, in the order in which it does or will reach the     *)
(* callers of GetChar: returned, fetched by the holder of the lock, and in *)
(* the keyboard's buffer.                                                  *)
Fetched == IF inHolder = NULL THEN << >>
           ELSE IF ch[inHolder] = NULL THEN << >> ELSE << ch[inHolder] >>
InBuffer == IF inWait = 0 THEN << >> ELSE << incoming >>
Delivered == got \o Fetched \o InBuffer

(* GetChar delivers the input, the whole input and nothing but the input,  *)
(* whichever threads call it: no character is lost, repeated or overtaken, *)
(* an EOF is a byte 255 of the file or its end, which is reported once,    *)
(* and the keyboard never finds its buffer full.                           *)
InputExact ==
    /\ \/ Delivered = SubSeq(input, 1, next)
       \/ next = Len(input) /\ Delivered = Append(input, EOF)
    /\ BufferFree

(* A writer goes on only when its own character is out: nothing is on its  *)
(* way and no wake-up is left for someone else, and the display has every  *)
(* character put so far, from each writer as many as it put; nor does a    *)
(* writer meet the ASSERT of PutChar (console.cc:169).                     *)
Shown(w) == {i \in 1..Len(display) : display[i] = w}
Unacknowledged == {w \in Writer : wpc[w] = "wait"}
DisplayAcknowledged ==
    /\ \A w \in Writer : wpc[w] = "put" => ~putBusy /\ outWait = 0
    /\ outWait + (IF writePending THEN 1 ELSE 0) = Cardinality(Unacknowledged)
    /\ \A w \in Writer :
          Cardinality(Shown(w)) + (IF wpc[w] \in {"acquire", "put"} THEN 1 ELSE 0)
            = puts[w]

(* As long as there are characters for every call, none of them 255, every *)
(* GetChar returns.                                                        *)
InputSuffices ==
    /\ \A i \in 1..Len(input) : input[i] # EOF
    /\ Len(input) + 1 >= MaxGet * Cardinality(Reader)
GetCharReturns ==
    \A r \in Reader : InputSuffices /\ rpc[r] = "acquire" ~> rpc[r] = "idle"

(* Every PutChar returns, and every GetChar the input suffices for. *)
PutCharReturns == \A w \in Writer : wpc[w] = "acquire" ~> wpc[w] = "idle"
CallsReturn == GetCharReturns /\ PutCharReturns
=============================================================================
