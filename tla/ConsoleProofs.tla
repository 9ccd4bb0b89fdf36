--------------------------- MODULE ConsoleProofs ---------------------------
(***************************************************************************)
(* Proofs about Console, for any number of readers and writers, any input  *)
(* file and any number of calls.                                           *)
(***************************************************************************)
EXTENDS Console, SequenceTheorems, FiniteSetTheorems, TLAPS

(* The keyboard's side: the reader between Acquire and Release holds the   *)
(* lock, only it has a character in hand, a poll is scheduled only while   *)
(* nothing waits to be fetched, and once the end of the file has been      *)
(* reported none ever is.                                                  *)
InputInv ==
    /\ \A r \in Reader : rpc[r] \in {"wait", "release"} <=> inHolder = r
    /\ \A r \in Reader : ch[r] # NULL <=> rpc[r] = "release"
    /\ readPending => inWait = 0
    /\ inWait = 0 => incoming = EOF
    /\ \/ Delivered = SubSeq(input, 1, next)
       \/ /\ next = Len(input) /\ Delivered = Append(input, EOF)
          /\ ~readPending /\ incoming = EOF

(* The display's side: one writer is between Acquire and Release; while it *)
(* waits, either the interrupt of its character is pending or its wake-up  *)
(* has been given, and when nobody waits neither is.                       *)
OutputInv ==
    /\ \A w \in Writer : wpc[w] \in {"put", "wait", "release"} <=> outHolder = w
    /\ putBusy <=> writePending
    /\ \A w \in Writer : wpc[w] = "wait" =>
         (writePending /\ outWait = 0) \/ (~writePending /\ outWait = 1)
    /\ (\A w \in Writer : wpc[w] # "wait") => ~writePending /\ outWait = 0
    /\ \A w \in Writer :
         Cardinality(Shown(w)) + (IF wpc[w] \in {"acquire", "put"} THEN 1 ELSE 0)
           = puts[w]

CInv == TypeOK /\ InputInv /\ OutputInv

USE ConsoleAssumption

-----------------------------------------------------------------------------
(* The character between the buffer and the caller.                        *)

LEMMA DeliveredTypes ==
    ASSUME TypeOK
    PROVE  /\ Fetched \in Seq(Char) /\ InBuffer \in Seq(Char)
           /\ Delivered \in Seq(Char) /\ input \in Seq(Char)
           /\ got \o Fetched \in Seq(Char)
  <1>1. Fetched \in Seq(Char)
    BY DEF TypeOK, Fetched
  <1>2. InBuffer \in Seq(Char)
    BY DEF TypeOK, InBuffer
  <1>3. got \o Fetched \in Seq(Char)
    BY <1>1, ConcatProperties DEF TypeOK
  <1>4. Delivered \in Seq(Char)
    BY <1>2, <1>3, ConcatProperties DEF Delivered
  <1>5. input \in Seq(Char)
    BY SeqMonotonic DEF TypeOK, Char
  <1> QED  BY <1>1, <1>2, <1>3, <1>4, <1>5

LEMMA InitCInv == Init => CInv
  <1> SUFFICES ASSUME Init PROVE CInv
    OBVIOUS
  <1> USE DEF Init, ConsoleInputInit, SynchConsoleInputInit, ConsoleOutputInit,
              SynchConsoleOutputInit
  <1>1. input \in Seq(Byte)
    <2>1. PICK n \in 0..MaxInput : input \in [1..n -> Byte]
      OBVIOUS
    <2> QED  BY <2>1
  <1>2. TypeOK
    <2>1. 0 \in 0..MaxGet /\ 0 \in 0..MaxPut /\ 0 \in 0..Len(input)
      BY <1>1
    <2>2. /\ rpc \in [Reader -> {"idle", "acquire", "wait", "release"}]
          /\ wpc \in [Writer -> {"idle", "acquire", "put", "wait", "release"}]
      OBVIOUS
    <2>3. readPending \in BOOLEAN /\ putBusy \in BOOLEAN /\ writePending \in BOOLEAN
      OBVIOUS
    <2> QED  BY <1>1, <2>1, <2>2, <2>3 DEF TypeOK, Char
  <1>3. InputInv
    <2>1. Delivered = << >> /\ SubSeq(input, 1, next) = << >>
      BY SubSeqEmpty DEF Delivered, Fetched, InBuffer
    <2> QED  BY <2>1 DEF InputInv
  <1>4. OutputInv
    <2>1. \A w \in Writer : Shown(w) = {}
      BY DEF Shown
    <2>2. \A w \in Writer : Cardinality(Shown(w)) = 0
      BY <2>1, FS_EmptySet
    <2> QED  BY <2>2 DEF OutputInv
  <1> QED  BY <1>2, <1>3, <1>4 DEF CInv

-----------------------------------------------------------------------------
(* The keyboard and GetChar.                                               *)

(* A poll that finds something: it goes behind all that was read before.   *)
LEMMA ArrivalStep ==
    ASSUME CInv, Arrival
    PROVE  InputInv'
  <1> USE DEF CInv
  <1>1. /\ readPending /\ inWait = 0 /\ incoming = EOF
        /\ Delivered = SubSeq(input, 1, next)
        /\ inWait' = 1 /\ ~readPending'
        /\ UNCHANGED << input, inHolder, rpc, ch, got >>
    BY DEF Arrival, CharArrives, EndOfFile, CallBackIn, InputInv
  <1>2. Delivered = got \o Fetched /\ Delivered' = Delivered \o << incoming' >>
    <2>1. InBuffer = << >> /\ InBuffer' = << incoming' >> /\ Fetched' = Fetched
      BY <1>1 DEF InBuffer, Fetched
    <2>2. Delivered = got \o Fetched
      BY <2>1, DeliveredTypes, ConcatEmptySeq DEF Delivered
    <2> QED  BY <1>1, <2>1, <2>2 DEF Delivered
  <1>3. CASE CharArrives
    <2>1. next + 1 \in 1..Len(input) /\ next' = next + 1 /\ incoming' = input[next + 1]
      BY <1>3 DEF CharArrives, TypeOK
    <2>2. SubSeq(input, 1, next + 1) = SubSeq(input, 1, (next + 1) - 1) \o << input[next + 1] >>
      BY <2>1, SubSeqRecursiveSecond DEF TypeOK
    <2>3. (next + 1) - 1 = next
      BY DEF TypeOK
    <2>4. Delivered' = SubSeq(input', 1, next')
      BY <1>1, <1>2, <2>1, <2>2, <2>3
    <2> QED  BY <1>1, <2>4 DEF InputInv
  <1>4. CASE EndOfFile
    <2>1. next = Len(input) /\ next' = next /\ incoming' = EOF
      BY <1>1, <1>4 DEF EndOfFile
    <2>2. SubSeq(input, 1, next) = input
      BY <2>1, SubSeqFull DEF TypeOK
    <2>3. EOF \in Char /\ input \in Seq(Char)
      BY DeliveredTypes DEF Char
    <2>4. Append(input, EOF) = input \o << EOF >>
      BY <2>3, AppendIsConcat
    <2>5. Delivered' = Append(input', EOF)
      BY <1>1, <1>2, <2>1, <2>2, <2>4
    <2> QED  BY <1>1, <2>1, <2>5 DEF InputInv
  <1> QED  BY <1>3, <1>4 DEF Arrival

(* The steps of GetChar around the lock; r is a reader that gets on. *)
LEMMA StartGetCharStep ==
    ASSUME CInv, NEW r \in Reader, StartGetChar(r)
    PROVE  InputInv'
  <1> USE DEF CInv
  <1>1. /\ rpc[r] = "idle" /\ rpc'[r] = "acquire"
        /\ \A q \in Reader \ {r} : rpc'[q] = rpc[q]
        /\ UNCHANGED << input, next, incoming, readPending, inHolder, inWait, ch, got >>
    BY DEF StartGetChar, TypeOK
  <1>2. Delivered' = Delivered
    BY <1>1 DEF Delivered, Fetched, InBuffer
  <1> QED  BY <1>1, <1>2 DEF InputInv

LEMMA AcquireInStep ==
    ASSUME CInv, NEW r \in Reader, AcquireIn(r)
    PROVE  InputInv'
  <1> USE DEF CInv
  <1>1. /\ rpc[r] = "acquire" /\ rpc'[r] = "wait" /\ inHolder = NULL /\ inHolder' = r
        /\ \A q \in Reader \ {r} : rpc'[q] = rpc[q]
        /\ UNCHANGED << input, next, incoming, readPending, inWait, ch, got >>
    BY DEF AcquireIn, TypeOK
  <1>2. \A q \in Reader : rpc[q] \notin {"wait", "release"}
    BY <1>1 DEF InputInv
  <1>3. ch[r] = NULL
    BY <1>1 DEF InputInv
  <1>4. Delivered' = Delivered
    BY <1>1, <1>3 DEF Delivered, Fetched, InBuffer
  <1> QED  BY <1>1, <1>2, <1>4 DEF InputInv

(* The character moves from the buffer to the reader, and only if it was   *)
(* not EOF is the next poll scheduled.                                     *)
LEMMA FetchCharStep ==
    ASSUME CInv, NEW r \in Reader, FetchChar(r)
    PROVE  InputInv'
  <1> USE DEF CInv
  <1>1. /\ rpc[r] = "wait" /\ rpc'[r] = "release" /\ inWait = 1 /\ inWait' = 0
        /\ ch'[r] = incoming /\ incoming' = EOF
        /\ readPending' = (readPending \/ incoming # EOF)
        /\ \A q \in Reader \ {r} : rpc'[q] = rpc[q] /\ ch'[q] = ch[q]
        /\ UNCHANGED << input, next, inHolder, got >>
    BY DEF FetchChar, TypeOK
  <1>2. inHolder = r /\ ch[r] = NULL /\ ~readPending /\ incoming \in Char
    BY <1>1 DEF InputInv, TypeOK
  <1>3. Delivered' = Delivered
    <2>1. Fetched = << >> /\ InBuffer = << incoming >>
      BY <1>1, <1>2 DEF Fetched, InBuffer
    <2>2. Fetched' = << incoming >> /\ InBuffer' = << >>
      BY <1>1, <1>2 DEF Fetched, InBuffer, Char
    <2>3. got \in Seq(Char) /\ << incoming >> \in Seq(Char)
      BY <1>2 DEF TypeOK
    <2>4. got \o << incoming >> \in Seq(Char) /\ got \o << >> = got
      BY <2>3, ConcatProperties, ConcatEmptySeq
    <2>5. (got \o << incoming >>) \o << >> = got \o << incoming >>
      BY <2>4, ConcatEmptySeq
    <2> QED  BY <1>1, <2>1, <2>2, <2>4, <2>5 DEF Delivered
  <1>4. CASE incoming = EOF
    BY <1>1, <1>2, <1>3, <1>4 DEF InputInv, Char
  <1>5. CASE incoming # EOF
    BY <1>1, <1>2, <1>3, <1>5 DEF InputInv
  <1> QED  BY <1>4, <1>5

LEMMA ReleaseInStep ==
    ASSUME CInv, NEW r \in Reader, ReleaseIn(r)
    PROVE  InputInv'
  <1> USE DEF CInv
  <1>1. /\ rpc[r] = "release" /\ rpc'[r] = "idle" /\ inHolder' = NULL
        /\ got' = Append(got, ch[r]) /\ ch'[r] = NULL
        /\ \A q \in Reader \ {r} : rpc'[q] = rpc[q] /\ ch'[q] = ch[q]
        /\ UNCHANGED << input, next, incoming, readPending, inWait >>
    BY DEF ReleaseIn, TypeOK
  <1>2. inHolder = r /\ ch[r] # NULL /\ ch[r] \in Char
    BY <1>1 DEF InputInv, TypeOK
  <1>3. Delivered' = Delivered
    <2>1. Fetched = << ch[r] >> /\ Fetched' = << >> /\ InBuffer' = InBuffer
      BY <1>1, <1>2 DEF Fetched, InBuffer
    <2>2. got' = got \o << ch[r] >>
      BY <1>1, <1>2, AppendIsConcat DEF TypeOK
    <2>3. got' \in Seq(Char)
      BY <1>1, <1>2 DEF TypeOK
    <2>4. got' \o << >> = got'
      BY <2>3, ConcatEmptySeq
    <2> QED  BY <2>1, <2>2, <2>4 DEF Delivered
  <1>4. \A q \in Reader \ {r} : rpc[q] \notin {"wait", "release"}
    BY <1>2 DEF InputInv
  <1> QED  BY <1>1, <1>2, <1>3, <1>4 DEF InputInv

(* Nothing the display does touches the keyboard. *)
LEMMA InputKept ==
    ASSUME CInv, UNCHANGED inVars
    PROVE  InputInv'
  BY DEF CInv, InputInv, inVars, Delivered, Fetched, InBuffer

-----------------------------------------------------------------------------
(* PutChar and the display.                                                *)

LEMMA ShownFinite ==
    ASSUME TypeOK, NEW w \in Writer
    PROVE  IsFiniteSet(Shown(w)) /\ Cardinality(Shown(w)) \in Nat
  <1>1. IsFiniteSet(1..Len(display))
    BY FS_Interval DEF TypeOK
  <1>2. Shown(w) \in SUBSET (1..Len(display))
    BY DEF Shown
  <1> QED  BY <1>1, <1>2, FS_Subset, FS_CardinalityType

(* The steps of PutChar that leave the display alone. *)
LEMMA LockOutSteps ==
    ASSUME CInv, NEW w \in Writer,
           StartPutChar(w) \/ AcquireOut(w) \/ WaitOut(w) \/ ReleaseOut(w)
    PROVE  OutputInv'
  <1> USE DEF CInv
  <1>1. /\ \A v \in Writer \ {w} : wpc'[v] = wpc[v] /\ puts'[v] = puts[v]
        /\ UNCHANGED << putBusy, writePending, display >>
        /\ wpc[w] \in {"idle", "acquire", "wait", "release"}
    BY DEF StartPutChar, AcquireOut, WaitOut, ReleaseOut, TypeOK
  <1>2. \A v \in Writer : Shown(v)' = Shown(v)
    BY <1>1 DEF Shown
  <1>3. \A v \in Writer : Cardinality(Shown(v)) \in Nat /\ puts[v] \in Nat
    BY ShownFinite DEF TypeOK
  <1>4. CASE StartPutChar(w)
    <2>1. /\ wpc[w] = "idle" /\ wpc'[w] = "acquire" /\ puts'[w] = puts[w] + 1
          /\ UNCHANGED << outHolder, outWait >>
      BY <1>4 DEF StartPutChar, TypeOK
    <2> QED  BY <1>1, <1>2, <1>3, <2>1 DEF OutputInv
  <1>5. CASE AcquireOut(w)
    <2>1. /\ wpc[w] = "acquire" /\ wpc'[w] = "put" /\ puts' = puts
          /\ outHolder = NULL /\ outHolder' = w /\ outWait' = outWait
      BY <1>5 DEF AcquireOut, TypeOK
    <2>2. \A v \in Writer : wpc[v] \notin {"put", "wait", "release"}
      BY <2>1 DEF OutputInv
    <2> QED  BY <1>1, <1>2, <1>3, <2>1, <2>2 DEF OutputInv
  <1>6. CASE WaitOut(w)
    <2>1. /\ wpc[w] = "wait" /\ wpc'[w] = "release" /\ puts' = puts
          /\ outHolder' = outHolder /\ outWait > 0 /\ outWait' = outWait - 1
      BY <1>6 DEF WaitOut, TypeOK
    <2>2. outHolder = w /\ outWait = 1 /\ ~writePending
      BY <2>1 DEF OutputInv, TypeOK
    <2>3. \A v \in Writer \ {w} : wpc[v] \notin {"put", "wait", "release"}
      BY <2>2 DEF OutputInv
    <2> QED  BY <1>1, <1>2, <1>3, <2>1, <2>2, <2>3 DEF OutputInv
  <1>7. CASE ReleaseOut(w)
    <2>1. /\ wpc[w] = "release" /\ wpc'[w] = "idle" /\ puts' = puts
          /\ outHolder' = NULL /\ outWait' = outWait
      BY <1>7 DEF ReleaseOut, TypeOK
    <2>2. outHolder = w
      BY <2>1 DEF OutputInv
    <2>3. \A v \in Writer \ {w} : wpc[v] \notin {"put", "wait", "release"}
      BY <2>2 DEF OutputInv
    <2> QED  BY <1>1, <1>2, <1>3, <2>1, <2>2, <2>3 DEF OutputInv
  <1> QED  BY <1>4, <1>5, <1>6, <1>7

(* The character goes on the display and its interrupt is scheduled. *)
LEMMA PutStep ==
    ASSUME CInv, NEW w \in Writer, Put(w)
    PROVE  OutputInv'
  <1> USE DEF CInv
  <1>1. /\ wpc[w] = "put" /\ wpc'[w] = "wait"
        /\ \A v \in Writer \ {w} : wpc'[v] = wpc[v]
        /\ display' = Append(display, w) /\ putBusy' = TRUE /\ writePending' = TRUE
        /\ UNCHANGED << outHolder, outWait, puts >>
    BY DEF Put, TypeOK
  <1>2. outHolder = w
    BY <1>1 DEF OutputInv
  <1>3. \A v \in Writer \ {w} : wpc[v] \notin {"put", "wait", "release"}
    BY <1>2 DEF OutputInv
  <1>4. outWait = 0
    BY <1>1, <1>3 DEF OutputInv
  <1>5. /\ Len(display) \in Nat /\ Len(display') = Len(display) + 1
        /\ \A i \in 1..Len(display) : display'[i] = display[i]
        /\ display'[Len(display) + 1] = w
    BY <1>1 DEF TypeOK
  <1>6. Shown(w)' = Shown(w) \cup {Len(display) + 1}
    BY <1>5 DEF Shown
  <1>7. \A v \in Writer \ {w} : Shown(v)' = Shown(v)
    BY <1>5 DEF Shown
  <1>8. Len(display) + 1 \notin Shown(w)
    BY <1>5 DEF Shown
  <1>9. Cardinality(Shown(w)') = Cardinality(Shown(w)) + 1
    BY <1>6, <1>8, ShownFinite, FS_AddElement
  <1>10. \A v \in Writer : Cardinality(Shown(v)) \in Nat /\ puts[v] \in Nat
    BY ShownFinite DEF TypeOK
  <1>11. \A v \in Writer :
           Cardinality(Shown(v)') + (IF wpc'[v] \in {"acquire", "put"} THEN 1 ELSE 0)
             = puts'[v]
    <2>1. ASSUME NEW v \in Writer \ {w}
          PROVE  Cardinality(Shown(v)') + (IF wpc'[v] \in {"acquire", "put"} THEN 1 ELSE 0)
                   = puts'[v]
      BY <1>1, <1>7 DEF OutputInv
    <2>2. Cardinality(Shown(w)') + (IF wpc'[w] \in {"acquire", "put"} THEN 1 ELSE 0)
             = puts'[w]
      BY <1>1, <1>9, <1>10 DEF OutputInv
    <2> QED  BY <2>1, <2>2
  <1> QED  BY <1>1, <1>2, <1>3, <1>4, <1>11 DEF OutputInv

(* The interrupt of the character wakes the writer that waits for it. *)
LEMMA WriteDoneStep ==
    ASSUME CInv, WriteDone
    PROVE  OutputInv'
  <1> USE DEF CInv
  <1>1. /\ writePending /\ ~writePending' /\ ~putBusy' /\ outWait' = outWait + 1
        /\ UNCHANGED << outHolder, wpc, puts, display >>
    BY DEF WriteDone, CallBackOut
  <1>2. PICK w \in Writer : wpc[w] = "wait"
    BY <1>1 DEF OutputInv
  <1>3. outWait = 0
    BY <1>1, <1>2 DEF OutputInv
  <1>4. \A v \in Writer : Shown(v)' = Shown(v)
    BY <1>1 DEF Shown
  <1> QED  BY <1>1, <1>2, <1>3, <1>4 DEF OutputInv

LEMMA OutputKept ==
    ASSUME CInv, UNCHANGED outVars
    PROVE  OutputInv'
  <1>1. \A v \in Writer : Shown(v)' = Shown(v)
    BY DEF Shown, outVars
  <1> QED  BY <1>1 DEF CInv, OutputInv, outVars

-----------------------------------------------------------------------------
LEMMA TypeStep ==
    ASSUME CInv, [Next]_vars
    PROVE  TypeOK'
  <1> USE DEF CInv, TypeOK
  <1>1. CASE UNCHANGED vars
    BY <1>1 DEF vars, inVars, outVars
  <1>2. CASE Arrival
    <2>1. inWait = 0 /\ next \in Nat /\ Len(input) \in Nat
      BY <1>2 DEF Arrival, CharArrives, EndOfFile, InputInv
    <2>2. CASE CharArrives
      <3>1. next + 1 \in 0..Len(input) /\ input[next + 1] \in Char
        BY <2>1, <2>2 DEF CharArrives, Char
      <3>2. readPending' \in BOOLEAN /\ UNCHANGED << putBusy, writePending >>
        BY <2>2 DEF CharArrives, outVars
      <3>3. inWait' = 1
        BY <2>1, <2>2 DEF CharArrives, CallBackIn
      <3> QED  BY <2>2, <3>1, <3>2, <3>3 DEF CharArrives, outVars
    <2>3. CASE EndOfFile
      <3>1. readPending' \in BOOLEAN /\ UNCHANGED << putBusy, writePending >>
        BY <2>3 DEF EndOfFile, outVars
      <3>2. inWait' = 1
        BY <2>1, <2>3 DEF EndOfFile, CallBackIn
      <3> QED  BY <2>3, <3>1, <3>2 DEF EndOfFile, outVars
    <2> QED  BY <1>2, <2>2, <2>3 DEF Arrival
  <1>3. CASE WriteDone
    <2>1. outWait = 0
      <3>1. PICK w \in Writer : wpc[w] = "wait"
        BY <1>3 DEF WriteDone, OutputInv
      <3> QED  BY <1>3, <3>1 DEF WriteDone, OutputInv
    <2>2. /\ putBusy' \in BOOLEAN /\ writePending' \in BOOLEAN
          /\ UNCHANGED readPending
      BY <1>3 DEF WriteDone, inVars
    <2>3. outWait' = 1
      BY <1>3, <2>1 DEF WriteDone, CallBackOut
    <2> QED  BY <1>3, <2>2, <2>3 DEF WriteDone, inVars
  <1>4. ASSUME NEW r \in Reader, StartGetChar(r) \/ AcquireIn(r) PROVE TypeOK'
    <2>1. gets' \in [Reader -> 0..MaxGet]
      <3>1. MaxGet \in Nat
        OBVIOUS
      <3>2. gets[r] < MaxGet => gets[r] + 1 \in 0..MaxGet
        BY <3>1
      <3> QED  BY <1>4, <3>2 DEF StartGetChar, AcquireIn
    <2>2. rpc' \in [Reader -> {"idle", "acquire", "wait", "release"}]
      BY <1>4 DEF StartGetChar, AcquireIn
    <2>3. UNCHANGED << readPending, putBusy, writePending >>
      BY <1>4 DEF StartGetChar, AcquireIn, outVars
    <2> QED  BY <1>4, <2>1, <2>2, <2>3 DEF StartGetChar, AcquireIn, outVars
  <1>5. ASSUME NEW r \in Reader, FetchChar(r) PROVE TypeOK'
    BY <1>5 DEF FetchChar, outVars, Char
  <1>6. ASSUME NEW r \in Reader, ReleaseIn(r) PROVE TypeOK'
    <2>1. ch[r] \in Char
      BY <1>6 DEF ReleaseIn, InputInv
    <2>2. got' \in Seq(Char)
      BY <1>6, <2>1 DEF ReleaseIn
    <2> QED  BY <1>6, <2>2 DEF ReleaseIn, outVars
  <1>7. ASSUME NEW w \in Writer, StartPutChar(w) \/ AcquireOut(w) \/ ReleaseOut(w)
        PROVE  TypeOK'
    <2>1. puts' \in [Writer -> 0..MaxPut]
      <3>1. MaxPut \in Nat
        OBVIOUS
      <3>2. puts[w] < MaxPut => puts[w] + 1 \in 0..MaxPut
        BY <3>1
      <3> QED  BY <1>7, <3>2 DEF StartPutChar, AcquireOut, ReleaseOut
    <2>2. wpc' \in [Writer -> {"idle", "acquire", "put", "wait", "release"}]
      BY <1>7 DEF StartPutChar, AcquireOut, ReleaseOut
    <2>3. UNCHANGED << readPending, putBusy, writePending >>
      BY <1>7 DEF StartPutChar, AcquireOut, ReleaseOut, inVars
    <2> QED  BY <1>7, <2>1, <2>2, <2>3 DEF StartPutChar, AcquireOut, ReleaseOut, inVars
  <1>8. ASSUME NEW w \in Writer, Put(w) PROVE TypeOK'
    <2>1. display' \in Seq(Writer)
      BY <1>8 DEF Put
    <2> QED  BY <1>8, <2>1 DEF Put, inVars
  <1>9. ASSUME NEW w \in Writer, WaitOut(w) PROVE TypeOK'
    BY <1>9 DEF WaitOut, inVars
  <1> QED
    BY <1>1, <1>2, <1>3, <1>4, <1>5, <1>6, <1>7, <1>8, <1>9
       DEF Next, PollNothing, GetCharStep, PutCharStep

LEMMA NextCInv == CInv /\ [Next]_vars => CInv'
  <1> SUFFICES ASSUME CInv, [Next]_vars PROVE CInv'
    OBVIOUS
  <1>1. TypeOK'
    BY TypeStep
  <1>2. InputInv'
    <2>1. CASE UNCHANGED inVars
      BY <2>1, InputKept
    <2>2. CASE Arrival
      BY <2>2, ArrivalStep
    <2>3. ASSUME NEW r \in Reader, StartGetChar(r) \/ GetCharStep(r) PROVE InputInv'
      BY <2>3, StartGetCharStep, AcquireInStep, FetchCharStep, ReleaseInStep
         DEF GetCharStep
    <2>4. CASE WriteDone \/ \E w \in Writer : StartPutChar(w) \/ PutCharStep(w)
      BY <2>4, InputKept
         DEF WriteDone, StartPutChar, PutCharStep, AcquireOut, Put, WaitOut, ReleaseOut
    <2> QED  BY <2>1, <2>2, <2>3, <2>4 DEF Next, PollNothing, vars
  <1>3. OutputInv'
    <2>1. CASE UNCHANGED outVars
      BY <2>1, OutputKept
    <2>2. CASE WriteDone
      BY <2>2, WriteDoneStep
    <2>3. ASSUME NEW w \in Writer, StartPutChar(w) \/ PutCharStep(w) PROVE OutputInv'
      BY <2>3, LockOutSteps, PutStep DEF PutCharStep
    <2>4. CASE Arrival \/ \E r \in Reader : StartGetChar(r) \/ GetCharStep(r)
      BY <2>4, OutputKept
         DEF Arrival, CharArrives, EndOfFile, StartGetChar, GetCharStep, AcquireIn,
             FetchChar, ReleaseIn
    <2> QED  BY <2>1, <2>2, <2>3, <2>4 DEF Next, PollNothing, vars
  <1> QED  BY <1>1, <1>2, <1>3 DEF CInv

LEMMA ConsoleInvariance == Spec => []CInv
  BY InitCInv, NextCInv, PTL DEF Spec

-----------------------------------------------------------------------------
(* GetChar returns the bytes of the file in their order, to any number of  *)
(* readers, and EOF once at its end; the keyboard polls with an empty      *)
(* buffer.                                                                 *)
THEOREM InputDelivered == Spec => []InputExact
  <1>1. CInv => InputExact
    BY DEF CInv, InputInv, InputExact, BufferFree
  <1> QED  BY <1>1, ConsoleInvariance, PTL

(* Every PutChar is acknowledged by the interrupt of its own character,    *)
(* and finds the display idle as it asserts.                               *)
THEOREM OutputAcknowledged == Spec => []DisplayAcknowledged
  <1>1. CInv => DisplayAcknowledged
    <2> SUFFICES ASSUME CInv PROVE DisplayAcknowledged
      OBVIOUS
    <2> USE DEF CInv
    <2>1. ASSUME NEW w \in Writer, wpc[w] = "put" PROVE ~putBusy /\ outWait = 0
      <3>1. \A v \in Writer : wpc[v] # "wait"
        BY <2>1 DEF OutputInv
      <3> QED  BY <3>1 DEF OutputInv
    <2>2. outWait + (IF writePending THEN 1 ELSE 0) = Cardinality(Unacknowledged)
      <3>1. CASE \A v \in Writer : wpc[v] # "wait"
        <4>1. Unacknowledged = {}
          BY <3>1 DEF Unacknowledged
        <4>2. Cardinality(Unacknowledged) = 0
          BY <4>1, FS_EmptySet
        <4> QED  BY <3>1, <4>2 DEF OutputInv
      <3>2. ASSUME NEW w \in Writer, wpc[w] = "wait"
            PROVE  outWait + (IF writePending THEN 1 ELSE 0) = Cardinality(Unacknowledged)
        <4>1. Unacknowledged = {w}
          BY <3>2 DEF Unacknowledged, OutputInv
        <4>2. Cardinality(Unacknowledged) = 1
          BY <4>1, FS_Singleton
        <4> QED  BY <3>2, <4>2 DEF OutputInv
      <3> QED  BY <3>1, <3>2
    <2> QED  BY <2>1, <2>2 DEF DisplayAcknowledged, OutputInv
  <1> QED  BY <1>1, ConsoleInvariance, PTL
=============================================================================
