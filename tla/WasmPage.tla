------------------------------ MODULE WasmPage ------------------------------
(***************************************************************************)
(* The compiler in a web page: docs/tcc.js, which gives every click on     *)
(* "Compile" an instance of its own and runs main in a frame of its own,   *)
(* and the C library of zig/tcc-wasm.zig, whose buffers belong to an       *)
(* instance: one file that can be read, one that can be written.           *)
(*                                                                         *)
(* The script has one thread: while main runs nothing else happens, nor    *)
(* between the mains of one frame, but between the steps of bootstrap      *)
(* other clicks, edits and frames do.                                      *)
(* A text is a model value; an object file is the sequence of what the     *)
(* compiler writes of it.                                                  *)
(***************************************************************************)
EXTENDS Integers, Sequences

CONSTANTS
    Texts,       \* what the code box may hold
    Empty,       \* the empty one
    Size,        \* the length of each text
    Fate,        \* what tcc makes of each: an "object", "errors", or "exit" (tcc_error, and
                 \* the functions of the C library that are not there)
    Including,   \* the texts that include a file
    Writes,      \* the number of writes of the object file of each text
    FileCounts,  \* how many source files the option boxes may name
    ReadSize,    \* IO_BUF_SIZE
    WriteSize,   \* the capacity of write_buf, in writes
    MaxClicks    \* bound: clicks

ASSUME TextAssumption ==
    /\ Empty \in Texts /\ Including \subseteq Texts
    /\ \A t \in Texts : Size[t] \in Nat /\ Writes[t] \in Nat \ {0}
    /\ \A t \in Texts : Fate[t] \in {"object", "errors", "exit"}
ASSUME BoundAssumption ==
    FileCounts \subseteq Nat /\ ReadSize \in Nat /\ WriteSize \in Nat /\ MaxClicks \in Nat

VARIABLES
    boxes,       \* [code, files]: what the page shows
    clicks,      \* how many there were
    fetching,    \* the clicks that wait for their instance
    frames,      \* those that wait for a frame, in order
    due,         \* how many of them belong to the frame that is being shown
    instance,    \* wasm.instance, named by the click it was fetched for; 0 for none
    memory,      \* of each instance: [read_buf, write_buf]
    running,     \* main, see Idle
    elf_data,    \* what the page has downloaded and stored last
    stored,      \* history: the click, code and files of the main that stored elf_data
    last,        \* history: the last click "stored", "stopped", "trapped" or "failed"
    answered,    \* history: the clicks whose fetch failed or whose main ended
    crowded,     \* history: the clicks that waited for a frame together with others
    edited       \* history: the boxes changed since the last click

vars == <<boxes, clicks, fetching, frames, due, instance, memory, running, elf_data,
          stored, last, answered, crowded, edited>>

Clicks == 1..MaxClicks
None == "none"
Idle == [step |-> "idle", click |-> 0, inst |-> 0, code |-> Empty, files |-> 0, left |-> 0,
         text |-> Empty, header |-> None, written |-> 0]

\* No script runs and no frame is being shown.
Waiting == running = Idle /\ due = 0

-----------------------------------------------------------------------------
(* The page *)

Edit ==
    /\ Waiting
    /\ \E c \in Texts, n \in FileCounts :
          /\ boxes' = [code |-> c, files |-> n]
          /\ boxes' # boxes
    /\ edited' = TRUE
    /\ UNCHANGED <<clicks, fetching, frames, due, instance, memory, running, elf_data, stored, last,
                   answered, crowded>>

\* The button: bootstrap up to its await.
Click ==
    /\ Waiting /\ clicks < MaxClicks
    /\ clicks' = clicks + 1
    /\ fetching' = fetching \cup {clicks'}
    /\ edited' = FALSE
    /\ UNCHANGED <<boxes, frames, due, instance, memory, running, elf_data, stored, last,
                   answered, crowded>>

\* Mutants: the module is instantiated once; main runs only if no other waits to run.
RestOfBootstrapReuse(c) ==
    instance' = (IF instance = 0 THEN c ELSE instance) /\ frames' = Append(frames, c)
RestOfBootstrapOnce(c) ==
    instance' = c /\ frames' = IF frames = <<>> THEN <<c>> ELSE frames

\* wasm.init and requestAnimationFrame.
RestOfBootstrap(c) == instance' = c /\ frames' = Append(frames, c)

\* bootstrap continues; the answers come in any order.
Instantiated(c) ==
    /\ Waiting /\ c \in fetching
    /\ fetching' = fetching \ {c}
    /\ RestOfBootstrap(c)
    /\ crowded' = IF frames = <<>> THEN crowded
                  ELSE crowded \cup {c} \cup {frames[k] : k \in DOMAIN frames}
    /\ UNCHANGED <<boxes, clicks, due, memory, running, elf_data, stored, last, answered,
                   edited>>

\* The promise is rejected, which nothing handles.
FetchFails(c) ==
    /\ Waiting /\ c \in fetching
    /\ fetching' = fetching \ {c} /\ answered' = answered \cup {c}
    /\ last' = "failed"
    /\ UNCHANGED <<boxes, clicks, frames, due, instance, memory, running, elf_data, stored,
                   crowded, edited>>

\* A frame calls every main that waits for it.  This is main up to compile_program's call
\* of tcc's main, whose one file is the whole text.
Frame ==
    /\ running = Idle /\ frames # <<>>
    /\ frames' = Tail(frames)
    /\ due' = (IF due = 0 THEN Len(frames) ELSE due) - 1
    /\ running' = [step |-> "args", click |-> Head(frames), inst |-> instance,
                   code |-> boxes.code, files |-> boxes.files, left |-> boxes.files,
                   text |-> Empty, header |-> None, written |-> 0]
    /\ memory' = [memory EXCEPT ![instance].read_buf = boxes.code]
    /\ UNCHANGED <<boxes, clicks, fetching, instance, elf_data, stored, last, answered,
                   crowded, edited>>

-----------------------------------------------------------------------------
(* main: the steps of tcc and the C library *)

Buffers == memory[running.inst]

\* @panic, a failed assertion, an index beyond a buffer: an exception ends main.
Trap ==
    /\ running' = Idle /\ last' = "trapped"
    /\ UNCHANGED <<memory, elf_data, stored>>

Goes(step) == running' = [running EXCEPT !.step = step]

\* tcc.c: "no input files" is a tcc_error, which calls exit.
ParseArgs ==
    /\ running.step = "args"
    /\ IF running.files = 0 THEN Trap
       ELSE Goes("read") /\ UNCHANGED <<memory, elf_data, stored, last>>

TooLong(text) == Size[text] >= ReadSize

\* open, which finds every file, and read: whatever the file, the rest of the read buffer.
ReadSource ==
    /\ running.step = "read"
    /\ IF TooLong(Buffers.read_buf) THEN Trap
       ELSE /\ running' = [running EXCEPT !.step = "preprocess", !.text = Buffers.read_buf]
            /\ memory' = [memory EXCEPT ![running.inst].read_buf = Empty]
            /\ UNCHANGED <<elf_data, stored, last>>

\* The same of a file that the text includes.
ReadHeader ==
    /\ running.step = "preprocess"
    /\ running' = [running EXCEPT !.step = "compile",
          !.header = IF running.text \in Including THEN Buffers.read_buf ELSE None]
    /\ UNCHANGED <<memory, elf_data, stored, last>>

\* tcc_compile, and main's reaction: longjmp calls exit, errors that do not abort end main.
Compile ==
    /\ running.step = "compile"
    /\ CASE Fate[running.text] = "exit"   -> Trap
         [] Fate[running.text] = "errors" ->
              Goes("return") /\ UNCHANGED <<memory, elf_data, stored, last>>
         [] Fate[running.text] = "object" ->
              /\ running' = [running EXCEPT !.step = "write", !.written = 0]
              /\ UNCHANGED <<memory, elf_data, stored, last>>

Piece(text, header, k) == [text |-> text, header |-> header, k |-> k]

\* tcc_write_elf_file: fwrite and fputc, whatever the stream.  Then the next source file, for
\* which tcc's main starts again.
Write ==
    /\ running.step = "write"
    /\ IF Len(Buffers.write_buf) >= WriteSize THEN Trap
       ELSE LET k == running.written + 1
                next == IF k < Writes[running.text] THEN "write"
                        ELSE IF running.left > 1 THEN "read" ELSE "return"
            IN  /\ memory' = [memory EXCEPT ![running.inst].write_buf =
                                  Append(@, Piece(running.text, running.header, k))]
                /\ running' = [running EXCEPT !.step = next, !.written = k,
                                   !.left = IF next = "read" THEN @ - 1 ELSE @]
                /\ UNCHANGED <<elf_data, stored, last>>

\* compile_program returns what was written; an output of no bytes is not stored.
Return ==
    /\ running.step = "return"
    /\ running' = Idle
    /\ IF Buffers.write_buf = <<>>
       THEN last' = "stopped" /\ UNCHANGED <<elf_data, stored>>
       ELSE /\ elf_data' = Buffers.write_buf
            /\ stored' = [click |-> running.click, code |-> running.code,
                          files |-> running.files]
            /\ last' = "stored"
    /\ UNCHANGED memory

Step ==
    /\ ParseArgs \/ ReadSource \/ ReadHeader \/ Compile \/ Write \/ Return
    /\ answered' = IF running' = Idle THEN answered \cup {running.click} ELSE answered
    /\ UNCHANGED <<boxes, clicks, fetching, frames, due, instance, crowded, edited>>

-----------------------------------------------------------------------------
Init ==
    /\ boxes \in [code : Texts, files : FileCounts]
    /\ clicks = 0 /\ fetching = {} /\ frames = <<>> /\ due = 0 /\ instance = 0
    /\ memory = [c \in Clicks |-> [read_buf |-> Empty, write_buf |-> <<>>]]
    /\ running = Idle
    /\ elf_data = <<>>
    /\ stored = [click |-> 0, code |-> Empty, files |-> 0]
    /\ last = None /\ answered = {} /\ crowded = {} /\ edited = FALSE

Next ==
    \/ Edit \/ Click \/ Frame \/ Step
    \/ \E c \in Clicks : Instantiated(c) \/ FetchFails(c)

\* The browser answers each fetch, shows the page, and runs main to its end; nobody has to
\* click or edit.
Fairness ==
    /\ WF_vars(Frame) /\ WF_vars(Step)
    /\ \A c \in Clicks : WF_vars(Instantiated(c) \/ FetchFails(c))

Spec == Init /\ [][Next]_vars /\ Fairness

-----------------------------------------------------------------------------
(* Properties *)

Object(t) == [k \in 1..Writes[t] |-> Piece(t, None, k)]

\* What the page has for download and in localStorage is the object file of a program of one
\* file that its boxes showed, whole and nothing else, unless two clicks waited for a frame
\* together; and when all clicks are answered and nothing was edited since the last one, it
\* is of the program that the page shows now.  About the order in which bootstrap and main
\* use wasm.instance, the boxes and the buffers, with clicks, fetches and edits that overlap.
StoredIsOutput ==
    /\ stored.files = 1 /\ stored.code \notin Including /\ stored.click \notin crowded =>
           elf_data = Object(stored.code) /\ Fate[stored.code] = "object"
    /\ running = Idle /\ fetching = {} /\ frames = <<>> /\ ~edited /\ last = "stored" =>
           stored.code = boxes.code /\ stored.files = boxes.files

\* Every click is answered: its fetch fails, or main runs for it and ends.  About bootstrap,
\* which may not lose a click to another one.
EveryClickAnswered == \A c \in Clicks : c \in fetching ~> c \in answered
=============================================================================
