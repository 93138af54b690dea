--------------------------- MODULE WasmPageProofs ---------------------------
(* What the page stores is the object of one program, for any number of      *)
(* clicks, any texts and any sizes of the buffers.                           *)
EXTENDS WasmPage, SequenceTheorems, TLAPS

Steps == {"idle", "args", "read", "preprocess", "compile", "write", "return"}
Pieces == [text : Texts, header : Texts \cup {None}, k : Nat]

Types ==
    /\ boxes \in [code : Texts, files : FileCounts]
    /\ clicks \in Nat
    /\ fetching \subseteq 1..clicks
    /\ clicks <= MaxClicks
    /\ frames \in Seq(Clicks)
    /\ instance \in 0..clicks
    /\ memory \in [Clicks -> [read_buf : Texts, write_buf : Seq(Pieces)]]
    /\ running \in [step : Steps, click : Nat, inst : 0..MaxClicks, code : Texts, files : Nat,
                    left : Nat, text : Texts, header : Texts \cup {None}, written : Nat]
    /\ running.step = "idle" => running = Idle

\* main runs on the present instance, with what the boxes show; who waits meanwhile came
\* together with it.
MainInv == running # Idle =>
    /\ running.inst = instance /\ instance # 0
    /\ running.code = boxes.code /\ running.files = boxes.files
    /\ \A k \in 1..Len(frames) : frames[k] \in crowded

\* Nothing was written in an instance that no main has used, and a main that waits alone has
\* such an instance.
FreshInv ==
    /\ instance \notin fetching
    /\ \A c \in Clicks : c \in fetching \/ c > clicks => memory[c].write_buf = <<>>
    /\ frames # <<>> => instance # 0
    /\ Len(frames) > 1 => \A k \in 1..Len(frames) : frames[k] \in crowded
    /\ \A k \in 1..Len(frames) :
           frames[k] \in crowded \/ memory[instance].write_buf = <<>>

\* The first k pieces of the object file of t.
Written(buf, t, k) == Len(buf) = k /\ \A i \in 1..k : buf[i] = Piece(t, None, i)

\* How far a main has come that has one file, includes none and came alone.
Alone == running # Idle /\ running.files = 1 /\ running.code \notin Including
         /\ running.click \notin crowded
Buf == memory[instance].write_buf
OutputInv == Alone =>
    /\ running.step # "return" => running.left = 1
    /\ running.step \in {"args", "read"} => memory[instance].read_buf = running.code
    /\ running.step \in {"preprocess", "compile", "write"} => running.text = running.code
    /\ running.step \in {"compile", "write"} => running.header = None
    /\ running.step \in {"args", "read", "preprocess", "compile"} => Buf = <<>>
    /\ running.step = "write" =>
           /\ Fate[running.code] = "object"
           /\ running.written < Writes[running.code]
           /\ Written(Buf, running.code, running.written)
    /\ running.step = "return" /\ Buf # <<>> =>
           /\ Fate[running.code] = "object"
           /\ Written(Buf, running.code, Writes[running.code])

PageInv == Types /\ MainInv /\ FreshInv /\ OutputInv /\ StoredIsOutput

-----------------------------------------------------------------------------
(* Buffers *)

\* One more fwrite or fputc: the buffer has the first k pieces, then the first k + 1.
LEMMA WriteNext ==
    ASSUME NEW buf \in Seq(Pieces), NEW t \in Texts, NEW k \in Nat, Written(buf, t, k)
    PROVE  Written(Append(buf, Piece(t, None, k + 1)), t, k + 1)
BY DEF Written, Piece, Pieces

\* A buffer with all the pieces of a text is its object file.
LEMMA WrittenObject ==
    ASSUME NEW buf \in Seq(Pieces), NEW t \in Texts, Written(buf, t, Writes[t])
    PROVE  buf = Object(t)
<1>1. buf \in [1..Len(buf) -> Pieces]
  BY LenProperties
<1>2. QED BY <1>1 DEF Written, Object

-----------------------------------------------------------------------------
(* The page *)

LEMMA InitPage == Init => PageInv
<1> SUFFICES ASSUME Init PROVE PageInv
  OBVIOUS
<1> USE TextAssumption, BoundAssumption
<1>1. Types
  BY DEF Init, Types, Idle, Steps, Clicks, Pieces, None
<1>2. MainInv /\ FreshInv /\ OutputInv
  BY DEF Init, MainInv, FreshInv, OutputInv, Alone
<1>3. StoredIsOutput
  BY DEF Init, StoredIsOutput, None
<1>4. QED BY <1>1, <1>2, <1>3 DEF PageInv

\* Clicks, edits and failing fetches leave the mains that wait as they are.
LEMMA EditPage == ASSUME PageInv, Edit PROVE PageInv'
<1> USE DEF PageInv, Edit, Waiting
<1>1. Types'
  BY DEF Types
<1>2. MainInv' /\ FreshInv' /\ OutputInv'
  BY DEF MainInv, FreshInv, OutputInv, Alone, Buf
<1>3. StoredIsOutput'
  BY DEF StoredIsOutput
<1>4. QED BY <1>1, <1>2, <1>3

LEMMA ClickPage == ASSUME PageInv, Click PROVE PageInv'
<1> USE DEF PageInv, Click, Waiting
<1>1. Types'
  BY BoundAssumption DEF Types
<1>2. FreshInv'
  BY <1>1 DEF FreshInv, Types, Clicks
<1>3. MainInv' /\ OutputInv'
  BY DEF MainInv, OutputInv, Alone, Buf
<1>4. StoredIsOutput'
  BY DEF StoredIsOutput
<1>5. QED BY <1>1, <1>2, <1>3, <1>4

LEMMA FailsPage == ASSUME PageInv, NEW c \in Clicks, FetchFails(c) PROVE PageInv'
<1> USE DEF PageInv, FetchFails, Waiting
<1>1. Types'
  BY DEF Types
<1>2. FreshInv'
  BY DEF FreshInv
<1>3. MainInv' /\ OutputInv'
  BY DEF MainInv, OutputInv, Alone, Buf
<1>4. StoredIsOutput'
  BY DEF StoredIsOutput
<1>5. QED BY <1>1, <1>2, <1>3, <1>4

\* The instance that comes is new; if others wait already, all of them are crowded.
LEMMA InstantiatedPage == ASSUME PageInv, NEW c \in Clicks, Instantiated(c) PROVE PageInv'
<1> USE DEF PageInv, Instantiated, RestOfBootstrap, Waiting
<1>1. Types'
  BY DEF Types
<1>2. /\ Len(frames) \in Nat
      /\ Len(frames') = Len(frames) + 1
      /\ frames'[Len(frames) + 1] = c
      /\ \A k \in 1..Len(frames) : frames'[k] = frames[k]
  BY DEF Types
<1>3. c \in 1..clicks /\ memory[c].write_buf = <<>>
  BY DEF Types, FreshInv
<1>4. frames # <<>> => \A k \in 1..Len(frames') : frames'[k] \in crowded'
  <2> SUFFICES ASSUME frames # <<>>, NEW k \in 1..Len(frames') PROVE frames'[k] \in crowded'
    OBVIOUS
  <2>1. crowded' = crowded \cup {c} \cup {frames[j] : j \in 1..Len(frames)}
    BY LenProperties DEF Types
  <2>2. CASE k = Len(frames) + 1
    BY <1>2, <2>1, <2>2
  <2>3. CASE k \in 1..Len(frames)
    BY <1>2, <2>1, <2>3
  <2>4. QED BY <1>2, <2>2, <2>3
<1>5. FreshInv'
  <2>1. instance' \notin fetching' /\ instance' # 0 /\ memory[instance'].write_buf = <<>>
    BY <1>3
  <2>2. \A d \in Clicks : d \in fetching' \/ d > clicks' => memory'[d].write_buf = <<>>
    BY DEF FreshInv
  <2>3. Len(frames') > 1 => frames # <<>>
    BY <1>2
  <2>4. QED BY <2>1, <2>2, <2>3, <1>4 DEF FreshInv
<1>6. MainInv' /\ OutputInv'
  BY DEF MainInv, OutputInv, Alone, Buf
<1>7. StoredIsOutput'
  <2>1. crowded \subseteq crowded' /\ frames' # <<>>
    BY <1>2
  <2>2. QED BY <2>1 DEF StoredIsOutput
<1>8. QED BY <1>1, <1>5, <1>6, <1>7

\* A main begins, in an instance that is new if it came alone.
LEMMA FramePage == ASSUME PageInv, Frame PROVE PageInv'
<1> USE DEF PageInv, Frame
<1>1. /\ Len(frames) \in Nat \ {0} /\ Len(frames') = Len(frames) - 1
      /\ Head(frames) = frames[1] /\ Head(frames) \in Clicks
      /\ \A k \in 1..Len(frames') : frames'[k] = frames[k + 1]
      /\ frames' \in Seq(Clicks)
  BY HeadTailProperties DEF Types
<1>2. instance \in Clicks
  BY BoundAssumption DEF Types, FreshInv, Clicks
<1>3. /\ running'.step = "args" /\ running'.click = Head(frames) /\ running'.inst = instance
      /\ running'.code = boxes.code /\ running'.files = boxes.files
      /\ running'.left = boxes.files /\ running'.text = Empty /\ running'.header = None
      /\ running'.written = 0 /\ running' # Idle
      /\ running' \in [step : {"args"}, click : {Head(frames)}, inst : {instance},
                       code : {boxes.code}, files : {boxes.files}, left : {boxes.files},
                       text : {Empty}, header : {None}, written : {0}]
  BY DEF Idle
<1>4. /\ memory'[instance].read_buf = boxes.code
      /\ \A c \in Clicks : memory'[c].write_buf = memory[c].write_buf
      /\ memory' \in [Clicks -> [read_buf : Texts, write_buf : Seq(Pieces)]]
  BY <1>2 DEF Types
<1>5. Types'
  <2>1. running' \in [step : Steps, click : Nat, inst : 0..MaxClicks, code : Texts, files : Nat,
                    left : Nat, text : Texts, header : Texts \cup {None}, written : Nat]
    BY <1>1, <1>2, <1>3, TextAssumption, BoundAssumption DEF Types, Steps, Clicks
  <2>2. QED BY <1>1, <1>3, <1>4, <2>1 DEF Types
<1>6. MainInv'
  BY <1>1, <1>2, <1>3 DEF MainInv, FreshInv, Clicks
<1>7. FreshInv'
  <2>1. Len(frames') > 0 => \A k \in 1..Len(frames') : frames'[k] \in crowded
    BY <1>1 DEF FreshInv
  <2>2. QED BY <1>1, <1>2, <1>4, <2>1 DEF FreshInv, Clicks
<1>8. OutputInv'
  <2> SUFFICES ASSUME Alone'
               PROVE  running'.left = 1 /\ memory'[instance].read_buf = running'.code
                      /\ memory'[instance].write_buf = <<>>
    BY <1>3 DEF OutputInv, Buf
  <2>1. running'.left = 1 /\ frames[1] \notin crowded
    BY <1>1, <1>3 DEF Alone
  <2>2. memory[instance].write_buf = <<>>
    BY <1>1, <2>1 DEF FreshInv
  <2>3. QED BY <1>2, <1>3, <1>4, <2>1, <2>2
<1>9. StoredIsOutput'
  BY <1>3 DEF StoredIsOutput
<1>10. QED BY <1>5, <1>6, <1>7, <1>8, <1>9
-----------------------------------------------------------------------------
(* main *)

\* What every step of main leaves alone.
Rest == UNCHANGED <<boxes, clicks, fetching, frames, due, instance, crowded, edited>>

\* While main goes on in the present instance, the page stays what it is.
LEMMA RunningPage ==
    ASSUME PageInv, Rest, running # Idle, running'.step # "idle", Types',
           running'.inst = running.inst, running'.code = running.code,
           running'.files = running.files, running'.click = running.click,
           \A c \in Clicks : c # instance => memory'[c].write_buf = memory[c].write_buf,
           UNCHANGED <<elf_data, stored>>
    PROVE  running' # Idle /\ MainInv' /\ FreshInv' /\ StoredIsOutput'
<1> USE DEF PageInv, Rest
<1>1. running' # Idle
  BY DEF Idle
<1>2. MainInv'
  BY DEF MainInv
<1>3. \A c \in Clicks : c \in fetching \/ c > clicks => c # instance
  BY DEF FreshInv, Types
<1>4. FreshInv'
  BY <1>3 DEF FreshInv, MainInv
<1>5. StoredIsOutput'
  BY <1>1 DEF StoredIsOutput
<1>6. QED BY <1>1, <1>2, <1>4, <1>5

LEMMA TrapPage == ASSUME PageInv, Rest, Trap PROVE PageInv'
<1> USE DEF PageInv, Rest, Trap
<1>1. Types'
  BY TextAssumption, BoundAssumption DEF Types, Idle, Steps
<1>2. MainInv' /\ OutputInv'
  BY DEF MainInv, OutputInv, Alone
<1>3. FreshInv'
  BY DEF FreshInv
<1>4. StoredIsOutput'
  BY DEF StoredIsOutput
<1>5. QED BY <1>1, <1>2, <1>3, <1>4

\* What main has before each of its steps.
LEMMA MainFacts ==
    ASSUME PageInv, running.step # "idle"
    PROVE  /\ running # Idle /\ running.inst = instance /\ instance \in Clicks
           /\ running \in [step : Steps, click : Nat, inst : 0..MaxClicks, code : Texts,
                           files : Nat, left : Nat, text : Texts, header : Texts \cup {None},
                           written : Nat]
           /\ memory \in [Clicks -> [read_buf : Texts, write_buf : Seq(Pieces)]]
<1>1. running # Idle
  BY DEF Idle
<1>2. QED BY <1>1, BoundAssumption DEF PageInv, Types, MainInv, Clicks

LEMMA ArgsPage == ASSUME PageInv, Rest, ParseArgs PROVE PageInv'
<1>1. CASE running.files = 0
  BY <1>1, TrapPage DEF ParseArgs
<1>2. CASE running.files # 0
  <2>1. /\ running.step = "args" /\ running' = [running EXCEPT !.step = "read"]
        /\ UNCHANGED <<memory, elf_data, stored>>
    BY <1>2 DEF ParseArgs, Goes
  <2>2. Types'
    BY <2>1, MainFacts DEF Types, PageInv, Rest, Steps
  <2>3. /\ running'.step = "read" /\ running'.inst = running.inst
        /\ running'.code = running.code /\ running'.files = running.files
        /\ running'.click = running.click /\ running'.left = running.left
    BY <2>1, MainFacts
  <2>4. running' # Idle /\ MainInv' /\ FreshInv' /\ StoredIsOutput'
    BY <2>1, <2>2, <2>3, MainFacts, RunningPage
  <2>5. OutputInv'
    BY <2>1, <2>3, MainFacts DEF PageInv, OutputInv, Alone, Buf, Rest
  <2>6. QED BY <2>2, <2>4, <2>5 DEF PageInv
<1>3. QED BY <1>1, <1>2

LEMMA ReadPage == ASSUME PageInv, Rest, ReadSource PROVE PageInv'
<1>1. CASE TooLong(Buffers.read_buf)
  BY <1>1, TrapPage DEF ReadSource
<1>2. CASE ~TooLong(Buffers.read_buf)
  <2>1. /\ running.step = "read"
        /\ running' = [running EXCEPT !.step = "preprocess",
                                      !.text = memory[running.inst].read_buf]
        /\ memory' = [memory EXCEPT ![running.inst].read_buf = Empty]
        /\ UNCHANGED <<elf_data, stored>>
    BY <1>2 DEF ReadSource, Buffers
  <2>2. /\ \A c \in Clicks : memory'[c].write_buf = memory[c].write_buf
        /\ memory' \in [Clicks -> [read_buf : Texts, write_buf : Seq(Pieces)]]
    BY <2>1, MainFacts, TextAssumption
  <2>3. /\ running'.step = "preprocess" /\ running'.inst = running.inst
        /\ running'.code = running.code /\ running'.files = running.files
        /\ running'.click = running.click /\ running'.left = running.left
        /\ running'.text = memory[instance].read_buf
        /\ running' \in [step : Steps, click : Nat, inst : 0..MaxClicks, code : Texts,
                           files : Nat, left : Nat, text : Texts, header : Texts \cup {None},
                           written : Nat]
    BY <2>1, MainFacts DEF Steps
  <2>4. Types'
    BY <2>2, <2>3 DEF Types, PageInv, Rest
  <2>5. running' # Idle /\ MainInv' /\ FreshInv' /\ StoredIsOutput'
    BY <2>1, <2>2, <2>3, <2>4, MainFacts, RunningPage
  <2>6. OutputInv'
    BY <2>1, <2>2, <2>3, MainFacts DEF PageInv, OutputInv, Alone, Buf, Rest
  <2>7. QED BY <2>4, <2>5, <2>6 DEF PageInv
<1>3. QED BY <1>1, <1>2

LEMMA HeaderPage == ASSUME PageInv, Rest, ReadHeader PROVE PageInv'
<1> DEFINE h == IF running.text \in Including THEN memory[running.inst].read_buf ELSE None
<1>1. /\ running.step = "preprocess"
      /\ running' = [running EXCEPT !.step = "compile", !.header = h]
      /\ UNCHANGED <<memory, elf_data, stored>>
  BY DEF ReadHeader, Buffers
<1>2. h \in Texts \cup {None} /\ (running.text \notin Including => h = None)
  BY <1>1, MainFacts
<1> HIDE DEF h
<1>3. /\ running'.step = "compile" /\ running'.inst = running.inst
      /\ running'.code = running.code /\ running'.files = running.files
      /\ running'.click = running.click /\ running'.left = running.left
      /\ running'.text = running.text /\ running'.header = h
      /\ running' \in [step : Steps, click : Nat, inst : 0..MaxClicks, code : Texts,
                       files : Nat, left : Nat, text : Texts, header : Texts \cup {None},
                       written : Nat]
  BY <1>1, <1>2, MainFacts DEF Steps
<1>4. Types'
  BY <1>1, <1>3 DEF Types, PageInv, Rest
<1>5. running' # Idle /\ MainInv' /\ FreshInv' /\ StoredIsOutput'
  BY <1>1, <1>3, <1>4, MainFacts, RunningPage
<1>6. OutputInv'
  BY <1>1, <1>2, <1>3, MainFacts DEF PageInv, OutputInv, Alone, Buf, Rest
<1>7. QED BY <1>4, <1>5, <1>6 DEF PageInv

LEMMA CompilePage == ASSUME PageInv, Rest, Compile PROVE PageInv'
<1>1. running.step = "compile" /\ Fate[running.text] \in {"object", "errors", "exit"}
  BY MainFacts, TextAssumption DEF Compile
<1>2. CASE Fate[running.text] = "exit"
  BY <1>2, TrapPage DEF Compile
<1>3. CASE Fate[running.text] = "errors"
  <2>1. running' = [running EXCEPT !.step = "return"] /\ UNCHANGED <<memory, elf_data, stored>>
    BY <1>3 DEF Compile, Goes
  <2>2. /\ running'.step = "return" /\ running'.inst = running.inst
        /\ running'.code = running.code /\ running'.files = running.files
        /\ running'.click = running.click
        /\ running' \in [step : Steps, click : Nat, inst : 0..MaxClicks, code : Texts,
                         files : Nat, left : Nat, text : Texts, header : Texts \cup {None},
                         written : Nat]
    BY <1>1, <2>1, MainFacts DEF Steps
  <2>3. Types'
    BY <2>1, <2>2 DEF Types, PageInv, Rest
  <2>4. running' # Idle /\ MainInv' /\ FreshInv' /\ StoredIsOutput'
    BY <1>1, <2>1, <2>2, <2>3, MainFacts, RunningPage
  <2>5. OutputInv'
    BY <1>1, <2>1, <2>2, MainFacts DEF PageInv, OutputInv, Alone, Buf, Rest
  <2>6. QED BY <2>3, <2>4, <2>5 DEF PageInv
<1>4. CASE Fate[running.text] = "object"
  <2>1. /\ running' = [running EXCEPT !.step = "write", !.written = 0]
        /\ UNCHANGED <<memory, elf_data, stored>>
    BY <1>4 DEF Compile
  <2>2. /\ running'.step = "write" /\ running'.inst = running.inst
        /\ running'.code = running.code /\ running'.files = running.files
        /\ running'.click = running.click /\ running'.left = running.left
        /\ running'.text = running.text /\ running'.header = running.header
        /\ running'.written = 0
        /\ running' \in [step : Steps, click : Nat, inst : 0..MaxClicks, code : Texts,
                         files : Nat, left : Nat, text : Texts, header : Texts \cup {None},
                         written : Nat]
    BY <1>1, <2>1, MainFacts DEF Steps
  <2>3. Types'
    BY <2>1, <2>2 DEF Types, PageInv, Rest
  <2>4. running' # Idle /\ MainInv' /\ FreshInv' /\ StoredIsOutput'
    BY <1>1, <2>1, <2>2, <2>3, MainFacts, RunningPage
  <2>5. OutputInv'
    <3> SUFFICES ASSUME Alone'
                 PROVE  /\ running'.left = 1 /\ running'.text = running'.code
                        /\ running'.header = None /\ Fate[running'.code] = "object"
                        /\ 0 < Writes[running'.code] /\ Written(Buf', running'.code, 0)
      BY <2>2 DEF OutputInv
    <3>1. Alone /\ Buf' = Buf
      BY <1>1, <2>1, <2>2, MainFacts DEF Alone, Buf, Rest
    <3>2. /\ running.left = 1 /\ running.text = running.code /\ running.header = None
          /\ Buf = <<>>
      BY <1>1, <3>1 DEF PageInv, OutputInv
    <3>3. 0 < Writes[running.code]
      BY <1>1, MainFacts, TextAssumption
    <3>4. Written(<<>>, running.code, 0)
      BY DEF Written
    <3>5. QED BY <1>4, <2>2, <3>1, <3>2, <3>3, <3>4
  <2>6. QED BY <2>3, <2>4, <2>5 DEF PageInv
<1>5. QED BY <1>1, <1>2, <1>3, <1>4

LEMMA WritePage == ASSUME PageInv, Rest, Write PROVE PageInv'
<1>1. CASE Len(Buffers.write_buf) >= WriteSize
  BY <1>1, TrapPage DEF Write
<1>2. CASE ~(Len(Buffers.write_buf) >= WriteSize)
  <2> DEFINE k == running.written + 1
             next == IF k < Writes[running.text] THEN "write"
                     ELSE IF running.left > 1 THEN "read" ELSE "return"
             left == IF next = "read" THEN running.left - 1 ELSE running.left
             piece == Piece(running.text, running.header, k)
  <2>1. /\ running.step = "write"
        /\ memory' = [memory EXCEPT ![running.inst].write_buf = Append(@, piece)]
        /\ running' = [running EXCEPT !.step = next, !.written = k, !.left = left]
        /\ UNCHANGED <<elf_data, stored>>
    BY <1>2 DEF Write, Buffers
  <2>2. /\ k \in Nat /\ next \in {"write", "read", "return"} /\ left \in Nat
        /\ piece \in Pieces
    BY <2>1, MainFacts DEF Piece, Pieces
  <2>3. /\ running.left = 1 => left = 1 /\ next # "read"
        /\ next = "write" => k < Writes[running.text]
        /\ running.left = 1 /\ next = "return" => ~(k < Writes[running.text])
    BY <2>1, MainFacts
  <2> HIDE DEF next, left, piece, k
  <2>4. /\ memory[instance].write_buf \in Seq(Pieces)
        /\ memory'[instance].write_buf = Append(memory[instance].write_buf, piece)
        /\ \A c \in Clicks : c # instance => memory'[c].write_buf = memory[c].write_buf
        /\ memory' \in [Clicks -> [read_buf : Texts, write_buf : Seq(Pieces)]]
    <3>1. memory[instance].write_buf \in Seq(Pieces)
      BY <2>1, MainFacts
    <3>2. Append(memory[instance].write_buf, piece) \in Seq(Pieces)
      BY <2>2, <3>1
    <3>3. QED BY <2>1, <3>1, <3>2, MainFacts
  <2>5. /\ running'.step = next /\ running'.inst = running.inst
        /\ running'.code = running.code /\ running'.files = running.files
        /\ running'.click = running.click /\ running'.left = left
        /\ running'.text = running.text /\ running'.header = running.header
        /\ running'.written = k
        /\ running' \in [step : Steps, click : Nat, inst : 0..MaxClicks, code : Texts,
                         files : Nat, left : Nat, text : Texts, header : Texts \cup {None},
                         written : Nat]
    BY <2>1, <2>2, MainFacts DEF Steps
  <2>6. Types'
    BY <2>2, <2>4, <2>5 DEF Types, PageInv, Rest
  <2>7. running' # Idle /\ MainInv' /\ FreshInv' /\ StoredIsOutput'
    BY <2>1, <2>2, <2>4, <2>5, <2>6, MainFacts, RunningPage
  <2>8. OutputInv'
    <3> SUFFICES ASSUME Alone' PROVE OutputInv'
      BY DEF OutputInv
    <3>1. Alone
      BY <2>1, <2>5, MainFacts DEF Alone, Rest
    <3>2. /\ running.left = 1 /\ running.text = running.code /\ running.header = None
          /\ Fate[running.code] = "object" /\ running.written < Writes[running.code]
          /\ Written(memory[instance].write_buf, running.code, running.written)
      BY <2>1, <3>1 DEF PageInv, OutputInv, Buf
    <3>3. Written(memory'[instance].write_buf, running.code, k)
      BY <2>1, <2>4, <3>2, MainFacts, WriteNext DEF k, piece
    <3>4. Buf' = memory'[instance].write_buf
      BY DEF Buf, Rest
    <3>5. CASE next = "write"
      BY <2>3, <2>5, <3>2, <3>3, <3>4, <3>5 DEF OutputInv
    <3>6. CASE next = "return"
      <4>1. k = Writes[running.code]
        BY <2>1, <2>3, <3>2, <3>6, MainFacts, TextAssumption DEF k
      <4>2. QED BY <2>5, <3>2, <3>3, <3>4, <3>6, <4>1 DEF OutputInv
    <3>7. QED BY <2>2, <2>3, <3>2, <3>5, <3>6
  <2>9. QED BY <2>6, <2>7, <2>8 DEF PageInv
<1>3. QED BY <1>1, <1>2

\* main ends and stores what its instance has.
LEMMA ReturnPage == ASSUME PageInv, Rest, Return PROVE PageInv'
<1>1. running.step = "return" /\ running' = Idle /\ memory' = memory
  BY DEF Return
<1>2. Types'
  BY <1>1, TextAssumption, BoundAssumption DEF PageInv, Rest, Types, Idle, Steps
<1>3. MainInv' /\ OutputInv'
  BY <1>1 DEF MainInv, OutputInv, Alone
<1>4. FreshInv'
  BY <1>1 DEF PageInv, Rest, FreshInv
<1>5. StoredIsOutput'
  <2>1. CASE memory[instance].write_buf = <<>>
    <3>1. last' = "stopped" /\ UNCHANGED <<elf_data, stored>>
      BY <1>1, <2>1, MainFacts DEF Return, Buffers
    <3>2. QED BY <3>1 DEF PageInv, Rest, StoredIsOutput
  <2>2. CASE memory[instance].write_buf # <<>>
    <3>1. /\ elf_data' = memory[instance].write_buf
          /\ stored'.click = running.click /\ stored'.code = running.code
          /\ stored'.files = running.files
      BY <1>1, <2>2, MainFacts DEF Return, Buffers
    <3>2. running.code = boxes'.code /\ running.files = boxes'.files
      BY <1>1, MainFacts DEF PageInv, MainInv, Rest
    <3>3. ASSUME running.files = 1, running.code \notin Including, running.click \notin crowded
          PROVE  elf_data' = Object(running.code) /\ Fate[running.code] = "object"
      <4>1. Alone
        BY <1>1, <3>3, MainFacts DEF Alone
      <4>2. /\ Fate[running.code] = "object"
            /\ Written(memory[instance].write_buf, running.code, Writes[running.code])
        BY <1>1, <2>2, <4>1 DEF PageInv, OutputInv, Buf
      <4>3. memory[instance].write_buf = Object(running.code)
        BY <1>1, <4>2, MainFacts, WrittenObject
      <4>4. QED BY <3>1, <4>2, <4>3
    <3>4. stored'.files = 1 /\ stored'.code \notin Including /\ stored'.click \notin crowded'
            => elf_data' = Object(stored'.code) /\ Fate[stored'.code] = "object"
      BY <3>1, <3>3 DEF Rest
    <3>5. stored'.code = boxes'.code /\ stored'.files = boxes'.files
      BY <3>1, <3>2
    <3>6. QED BY <3>4, <3>5 DEF StoredIsOutput, Object
  <2>3. QED BY <2>1, <2>2
<1>6. QED BY <1>2, <1>3, <1>4, <1>5 DEF PageInv

-----------------------------------------------------------------------------
(* The whole page *)

LEMMA NextPage == PageInv /\ [Next]_vars => PageInv'
<1> SUFFICES ASSUME PageInv, [Next]_vars PROVE PageInv'
  OBVIOUS
<1>1. CASE Edit
  BY <1>1, EditPage
<1>2. CASE Click
  BY <1>2, ClickPage
<1>3. CASE Frame
  BY <1>3, FramePage
<1>4. CASE Step
  <2>1. Rest
    BY <1>4 DEF Step, Rest
  <2>2. QED BY <1>4, <2>1, ArgsPage, ReadPage, HeaderPage, CompilePage, WritePage, ReturnPage
            DEF Step
<1>5. ASSUME NEW c \in Clicks, Instantiated(c) \/ FetchFails(c) PROVE PageInv'
  BY <1>5, InstantiatedPage, FailsPage
<1>6. CASE UNCHANGED vars
  BY <1>6 DEF vars, PageInv, Types, MainInv, FreshInv, OutputInv, Alone, Buf, StoredIsOutput
<1>7. QED BY <1>1, <1>2, <1>3, <1>4, <1>5, <1>6 DEF Next

\* The page, its instances and main are in one of the states described above, whatever clicks,
\* fetches, edits and frames do.
THEOREM PageCorrect == Spec => []PageInv
BY InitPage, NextPage, PTL DEF Spec

\* What bootstrap and main store is the whole object of one program that the page showed,
\* for any number of clicks, any texts and any sizes of the buffers.
THEOREM StoredCorrect == Spec => []StoredIsOutput
<1>1. PageInv => StoredIsOutput
  BY DEF PageInv
<1>2. QED BY <1>1, PageCorrect, PTL
=============================================================================
