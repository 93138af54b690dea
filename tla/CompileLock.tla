---------------------------- MODULE CompileLock ----------------------------
(***************************************************************************)
(* The lock that serialises compilations: libtcc.c keeps its parser and    *)
(* code generator in global variables, and every thread that compiles or   *)
(* reports an error takes tcc_compile_sem around their use.                *)
(*                                                                         *)
(* Each thread t owns one TCCState, also called t.  A call runs in small   *)
(* steps, named by pc[t]; the steps of different threads interleave.       *)
(*                                                                         *)
(*   idle   between two calls of the library                               *)
(*   test init mark wait      wait_sem, with its lazy initialisation       *)
(*   set    the assignment tcc_state = s1 of tcc_enter_state               *)
(*   start body finish clear leave post          tcc_compile               *)
(*   err exit1 post1 filter report                error1                   *)
(*   split  tcc_split_path, holding the pointer it took from file          *)
(*                                                                         *)
(* In this program setjmp returns 0 and longjmp is exit(1).                *)
(***************************************************************************)
EXTENDS Integers, Sequences

CONSTANTS Threads,      \* the threads, each with the TCCState it owns
          NULL,         \* the null pointer
          Opts,         \* settings of the warning options, [error, none, wopt]
          MaxCalls,     \* bound: library calls per thread
          MaxBody,      \* bound: includes and diagnostics per compilation
          MallocFails   \* TRUE where an allocation may fail

ASSUME NullAssumption == NULL \notin Threads
ASSUME OptsAssumption ==
    Opts \subseteq [error : BOOLEAN, none : BOOLEAN, wopt : SUBSET {"ON", "ERR", "NOE"}]
ASSUME BoundAssumption == MaxCalls \in Nat /\ MaxBody \in Nat
ASSUME MallocAssumption == MallocFails \in BOOLEAN

VARIABLES
    seminit,     \* tcc_compile_sem.init
    sem,         \* the value of tcc_compile_sem.sem (0 in static storage)
    tcc_state,   \* the global pointer to the state that compiles
    file,        \* the global stack of open input files, as their owners
    exitedBy,    \* the thread that ended the process with exit(1)
    pc,
    mode,        \* what the call does: a compilation, or the error1 mode
    s1,          \* error1's local s1
    jmp,         \* s1->error_set_jmp_enabled
    warn_num,    \* s1->warn_num # 0
    nb_errors,   \* s1->nb_errors
    inc,         \* s1->include_stack_ptr - s1->include_stack
    ptr,         \* tcc_split_path: depth in file of its pointer; 0 no, -1 freed
    ret,         \* the result of the last tcc_compile
    errors,      \* history: errors delivered while the last compilation ran
    calls,       \* bound: calls made
    fuel         \* bound: includes and diagnostics left

lockVars == <<seminit, sem, tcc_state>>
stateVars == <<jmp, warn_num, nb_errors, inc>>
bounds == <<calls, fuel>>
vars == <<lockVars, file, exitedBy, pc, mode, s1, stateVars, ptr, ret, errors, bounds>>

Modes == {"COMPILE", "WARN", "NOABORT", "ERROR", "OOM"}
ErrPc == {"err", "exit1", "post1", "filter", "report"}
PCs == {"idle", "test", "init", "mark", "wait", "set", "start", "body", "finish",
        "clear", "leave", "post", "split", "err", "exit1", "post1", "filter", "report"}
Freed == -1

Goto(t, from, to) == exitedBy = NULL /\ pc[t] = from /\ pc' = [pc EXCEPT ![t] = to]

-----------------------------------------------------------------------------
(* wait_sem and tcc_enter_state.  The test, sem_init and the assignment to  *)
(* init are three steps: nothing orders them among threads.                 *)

TestInit(t) ==
    /\ Goto(t, "test", IF seminit THEN "wait" ELSE "init")
    /\ UNCHANGED <<lockVars, file, exitedBy, mode, s1, stateVars, ptr, ret, errors, bounds>>

SemInit(t) ==
    /\ Goto(t, "init", "mark")
    /\ sem' = 1
    /\ UNCHANGED <<seminit, tcc_state, file, exitedBy, mode, s1, stateVars, ptr, ret, errors, bounds>>

MarkInit(t) ==
    /\ Goto(t, "mark", "wait")
    /\ seminit' = TRUE
    /\ UNCHANGED <<sem, tcc_state, file, exitedBy, mode, s1, stateVars, ptr, ret, errors, bounds>>

SemWait(t) ==
    /\ Goto(t, "wait", "set")
    /\ sem > 0
    /\ sem' = sem - 1
    /\ UNCHANGED <<seminit, tcc_state, file, exitedBy, mode, s1, stateVars, ptr, ret, errors, bounds>>

\* tcc_warning_c names, in the current state s, the option its warning depends on;
\* tcc_warning does not.
NameOption(s, m) ==
    \E named \in IF m = "WARN" THEN BOOLEAN ELSE {FALSE} :
        warn_num' = IF named THEN [warn_num EXCEPT ![s] = TRUE] ELSE warn_num

SetState(t) ==
    /\ Goto(t, "set", IF mode[t] = "COMPILE" THEN "start" ELSE "err")
    /\ tcc_state' = t
    /\ NameOption(t, mode[t])
    /\ UNCHANGED <<seminit, sem, file, exitedBy, mode, s1, jmp, nb_errors, inc, ptr, ret, errors, bounds>>

-----------------------------------------------------------------------------
(* Calls of the library by a thread that is between two calls.              *)

CanCall(t) == calls[t] < MaxCalls /\ calls' = [calls EXCEPT ![t] = @ + 1]

\* tcc_compile_string, tcc_add_file: tcc_compile begins with tcc_enter_state.
CallCompile(t) ==
    /\ Goto(t, "idle", "test")
    /\ CanCall(t)
    /\ mode' = [mode EXCEPT ![t] = "COMPILE"]
    /\ ret' = [ret EXCEPT ![t] = "none"]
    /\ errors' = [errors EXCEPT ![t] = 0]
    /\ fuel' = [fuel EXCEPT ![t] = MaxBody]
    /\ UNCHANGED <<lockVars, file, exitedBy, s1, stateVars, ptr>>

\* tcc_error, tcc_error_noabort, tcc_warning outside a compilation: the macros
\* of tcc.h put a tcc_enter_state before the reporting function.
CallReport(t) ==
    /\ Goto(t, "idle", "test")
    /\ CanCall(t)
    /\ \E m \in {"WARN", "NOABORT", "ERROR"} : mode' = [mode EXCEPT ![t] = m]
    /\ UNCHANGED <<lockVars, file, exitedBy, s1, stateVars, ptr, ret, errors, fuel>>

\* tcc_add_include_path and its kind, with a path that holds "{f}": tcc_split_path
\* reads the global file and then the name of the file it points to.
CallSplitPath(t) ==
    /\ Goto(t, "idle", "split")
    /\ CanCall(t)
    /\ ptr' = [ptr EXCEPT ![t] = Len(file)]
    /\ UNCHANGED <<lockVars, file, exitedBy, mode, s1, stateVars, ret, errors, fuel>>

SplitPathDone(t) ==
    /\ Goto(t, "split", "idle")
    /\ ptr' = [ptr EXCEPT ![t] = 0]
    /\ UNCHANGED <<lockVars, file, exitedBy, mode, s1, stateVars, ret, errors, bounds>>

\* tcc_malloc fails, in a compilation or outside one: _tcc_error is called with
\* whatever tcc_state holds.
MallocFailure(t) ==
    /\ MallocFails
    /\ \/ Goto(t, "idle", "err") /\ CanCall(t)
       \/ Goto(t, "body", "err") /\ UNCHANGED calls
    /\ mode' = [mode EXCEPT ![t] = "OOM"]
    /\ UNCHANGED <<lockVars, file, exitedBy, s1, stateVars, ptr, ret, errors, fuel>>

-----------------------------------------------------------------------------
(* tcc_compile *)

\* tcc_open_bf puts a new file on top of file.
Open(t) == file' = Append(file, t)

\* tcc_close takes the top file off and frees it: a pointer to it dangles.
Close ==
    /\ file' = SubSeq(file, 1, Len(file) - 1)
    /\ ptr' = [u \in Threads |-> IF ptr[u] = Len(file) /\ file # <<>> THEN Freed ELSE ptr[u]]

\* tcc_compile opens the input; preprocess_start opens "<command line>" on top of
\* it, as an include, unless the input is assembly that is not preprocessed.
OpenFirst(t) ==
    \E predefs \in {0, 1} :
        /\ inc' = [inc EXCEPT ![t] = predefs]
        /\ file' = file \o [i \in 1..1 + predefs |-> t]

\* Mutant: the error count of the previous call is kept.
StartCompileNoReset(t) ==
    /\ Goto(t, "start", "body")
    /\ jmp' = [jmp EXCEPT ![t] = TRUE]
    /\ OpenFirst(t)
    /\ UNCHANGED <<lockVars, exitedBy, mode, s1, warn_num, nb_errors, ptr, ret, errors, bounds>>

StartCompile(t) ==
    /\ Goto(t, "start", "body")
    /\ jmp' = [jmp EXCEPT ![t] = TRUE]
    /\ nb_errors' = [nb_errors EXCEPT ![t] = 0]
    /\ OpenFirst(t)
    /\ UNCHANGED <<lockVars, exitedBy, mode, s1, warn_num, ptr, ret, errors, bounds>>

BurnFuel(t) == fuel[t] > 0 /\ fuel' = [fuel EXCEPT ![t] = @ - 1]

OpenInclude(t) ==
    /\ Goto(t, "body", "body")
    /\ BurnFuel(t)
    /\ inc' = [inc EXCEPT ![t] = @ + 1]
    /\ Open(t)
    /\ UNCHANGED <<lockVars, exitedBy, mode, s1, jmp, warn_num, nb_errors, ptr, ret, errors, calls>>

CloseInclude(t) ==
    /\ Goto(t, "body", "body")
    /\ inc[t] > 0
    /\ inc' = [inc EXCEPT ![t] = @ - 1]
    /\ Close
    /\ UNCHANGED <<lockVars, exitedBy, mode, s1, jmp, warn_num, nb_errors, ret, errors, bounds>>

\* A diagnostic of the parser: tcc_enter_state, where it is called, returns at once.
ReportInBody(t) ==
    /\ Goto(t, "body", "err")
    /\ BurnFuel(t)
    /\ \E m \in {"WARN", "NOABORT", "ERROR"} :
          /\ mode' = [mode EXCEPT ![t] = m]
          /\ NameOption(tcc_state, m)
    /\ UNCHANGED <<lockVars, file, exitedBy, s1, jmp, nb_errors, inc, ptr, ret, errors, calls>>

EndBody(t) ==
    /\ Goto(t, "body", "finish")
    /\ inc[t] = 0
    /\ UNCHANGED <<lockVars, file, exitedBy, mode, s1, stateVars, ptr, ret, errors, bounds>>

\* Mutant: preprocess_end leaves the input open.
CloseNothing(t) ==
    /\ Goto(t, "finish", "clear")
    /\ UNCHANGED <<lockVars, file, ptr, exitedBy, mode, s1, stateVars, ret, errors, bounds>>

\* tccgen_finish, preprocess_end: every open file is closed, one after the other.
CloseAll(t) ==
    /\ \/ /\ file # <<>>
          /\ Goto(t, "finish", "finish")
          /\ Close
       \/ /\ file = <<>>
          /\ Goto(t, "finish", "clear")
          /\ UNCHANGED <<file, ptr>>
    /\ UNCHANGED <<lockVars, exitedBy, mode, s1, stateVars, ret, errors, bounds>>

ClearJmp(t) ==
    /\ Goto(t, "clear", "leave")
    /\ jmp' = [jmp EXCEPT ![t] = FALSE]
    /\ UNCHANGED <<lockVars, file, exitedBy, mode, s1, warn_num, nb_errors, inc, ptr, ret, errors, bounds>>

\* Mutant: tcc_state is left as it is.
LeaveStateStale(t) ==
    /\ Goto(t, "leave", "post")
    /\ UNCHANGED <<lockVars, file, exitedBy, mode, s1, stateVars, ptr, ret, errors, bounds>>

\* tcc_exit_state, its two assignments as two steps.
LeaveState(t) ==
    /\ Goto(t, "leave", "post")
    /\ tcc_state' = NULL
    /\ UNCHANGED <<seminit, sem, file, exitedBy, mode, s1, stateVars, ptr, ret, errors, bounds>>

ReturnCompile(t) ==
    /\ Goto(t, "post", "idle")
    /\ sem' = sem + 1
    /\ ret' = [ret EXCEPT ![t] = IF nb_errors[t] # 0 THEN "-1" ELSE "0"]
    /\ UNCHANGED <<seminit, tcc_state, file, exitedBy, mode, s1, stateVars, ptr, errors, bounds>>

-----------------------------------------------------------------------------
(* error1 *)

\* Mutant: tcc_exit_state does not look at error_set_jmp_enabled.
EnterErrorAlwaysExits(t) ==
    /\ s1' = [s1 EXCEPT ![t] = tcc_state]
    /\ Goto(t, "err", IF tcc_state = NULL THEN "report" ELSE "exit1")
    /\ UNCHANGED <<lockVars, file, exitedBy, mode, stateVars, ptr, ret, errors, bounds>>

\* s1 = tcc_state, and the test of tcc_exit_state(s1).
EnterError(t) ==
    /\ s1' = [s1 EXCEPT ![t] = tcc_state]
    /\ Goto(t, "err", IF tcc_state = NULL THEN "report"
                      ELSE IF jmp[tcc_state] THEN "filter" ELSE "exit1")
    /\ UNCHANGED <<lockVars, file, exitedBy, mode, stateVars, ptr, ret, errors, bounds>>

ErrorLeaveState(t) ==
    /\ Goto(t, "exit1", "post1")
    /\ tcc_state' = NULL
    /\ UNCHANGED <<seminit, sem, file, exitedBy, mode, s1, stateVars, ptr, ret, errors, bounds>>

\* Mutant: error1 gives up tcc_state and not the semaphore.
ErrorPostMissing(t) ==
    /\ Goto(t, "post1", "filter")
    /\ UNCHANGED <<lockVars, file, exitedBy, mode, s1, stateVars, ptr, ret, errors, bounds>>

ErrorPost(t) ==
    /\ Goto(t, "post1", "filter")
    /\ sem' = sem + 1
    /\ UNCHANGED <<seminit, tcc_state, file, exitedBy, mode, s1, stateVars, ptr, ret, errors, bounds>>

\* Where error1 returns to: the parser, or the caller of the library.
Resume(t) == IF jmp[t] THEN "body" ELSE "idle"

\* What a warning becomes under the options o: an error, a warning, or nothing.
WarningMode(o, option) ==
    LET promoted == o.error \/ (option /\ "ERR" \in o.wopt)
        kept == option /\ "NOE" \in o.wopt
    IN  IF (option /\ "ON" \notin o.wopt) \/ o.none THEN "DROP"
        ELSE IF promoted /\ ~kept THEN "ERROR" ELSE "WARN"

\* Mutant: warn_num is reset after the early return of a disabled option.
FilterWarningLateReset(t) ==
    /\ mode[t] = "WARN"
    /\ \E o \in Opts :
          LET m == WarningMode(o, warn_num[s1[t]]) IN
          /\ Goto(t, "filter", IF m = "DROP" THEN Resume(t) ELSE "report")
          /\ mode' = [mode EXCEPT ![t] = IF m = "DROP" THEN "COMPILE" ELSE m]
          /\ warn_num' = IF m = "DROP" THEN warn_num ELSE [warn_num EXCEPT ![s1[t]] = FALSE]
    /\ UNCHANGED <<lockVars, file, exitedBy, s1, jmp, nb_errors, inc, ptr, ret, errors, bounds>>

FilterWarning(t) ==
    /\ mode[t] = "WARN"
    /\ \E o \in Opts :
          LET m == WarningMode(o, warn_num[s1[t]]) IN
          /\ Goto(t, "filter", IF m = "DROP" THEN Resume(t) ELSE "report")
          /\ mode' = [mode EXCEPT ![t] = IF m = "DROP" THEN "COMPILE" ELSE m]
    /\ warn_num' = [warn_num EXCEPT ![s1[t]] = FALSE]
    /\ UNCHANGED <<lockVars, file, exitedBy, s1, jmp, nb_errors, inc, ptr, ret, errors, bounds>>

NotAWarning(t) ==
    /\ mode[t] # "WARN"
    /\ Goto(t, "filter", "report")
    /\ UNCHANGED <<lockVars, file, exitedBy, mode, s1, stateVars, ptr, ret, errors, bounds>>

\* The message is delivered; nb_errors++; return, or longjmp or exit, which are exit(1).
Report(t) ==
    /\ pc[t] = "report" /\ exitedBy = NULL
    /\ IF mode[t] # "WARN" /\ s1[t] # NULL
       THEN /\ nb_errors' = [nb_errors EXCEPT ![s1[t]] = @ + 1]
            /\ errors' = IF jmp[s1[t]] THEN [errors EXCEPT ![s1[t]] = @ + 1] ELSE errors
       ELSE UNCHANGED <<nb_errors, errors>>
    /\ IF mode[t] \in {"ERROR", "OOM"} \/ s1[t] = NULL
       THEN exitedBy' = t /\ UNCHANGED <<pc, mode>>
       ELSE /\ pc' = [pc EXCEPT ![t] = Resume(t)]
            /\ mode' = [mode EXCEPT ![t] = "COMPILE"]
            /\ UNCHANGED exitedBy
    /\ UNCHANGED <<lockVars, file, s1, jmp, warn_num, inc, ptr, ret, bounds>>

-----------------------------------------------------------------------------
Call(t) == CallCompile(t) \/ CallReport(t) \/ CallSplitPath(t)

Step(t) ==
    \/ TestInit(t) \/ SemInit(t) \/ MarkInit(t) \/ SemWait(t) \/ SetState(t)
    \/ SplitPathDone(t)
    \/ StartCompile(t) \/ OpenInclude(t) \/ CloseInclude(t) \/ ReportInBody(t)
    \/ EndBody(t) \/ CloseAll(t) \/ ClearJmp(t) \/ LeaveState(t) \/ ReturnCompile(t)
    \/ EnterError(t) \/ ErrorLeaveState(t) \/ ErrorPost(t)
    \/ FilterWarning(t) \/ NotAWarning(t) \/ Report(t)

\* The process has ended, or nobody wants to call again.
Ended == exitedBy # NULL \/ \A t \in Threads : pc[t] = "idle"

Next ==
    \/ \E t \in Threads : Call(t) \/ MallocFailure(t) \/ Step(t)
    \/ Ended /\ UNCHANGED vars

InitThreads ==
    /\ tcc_state = NULL /\ file = <<>> /\ exitedBy = NULL
    /\ pc = [t \in Threads |-> "idle"]
    /\ mode = [t \in Threads |-> "COMPILE"]
    /\ s1 = [t \in Threads |-> NULL]
    /\ jmp = [t \in Threads |-> FALSE]
    /\ warn_num = [t \in Threads |-> FALSE]
    /\ nb_errors = [t \in Threads |-> 0]
    /\ inc = [t \in Threads |-> 0]
    /\ ptr = [t \in Threads |-> 0]
    /\ ret = [t \in Threads |-> "none"]
    /\ errors = [t \in Threads |-> 0]
    /\ calls = [t \in Threads |-> 0]
    /\ fuel = [t \in Threads |-> 0]

\* A process in which no call has been made yet.
Init == InitThreads /\ seminit = FALSE /\ sem = 0

\* A process whose first call was over before it started its threads.
WarmInit == InitThreads /\ seminit = TRUE /\ sem = 1

Fairness == \A t \in Threads : WF_vars(Step(t))

Spec == Init /\ [][Next]_vars
WarmSpec == WarmInit /\ [][Next]_vars
FairSpec == WarmSpec /\ Fairness

-----------------------------------------------------------------------------
(* Properties *)

\* Thread t is between its sem_wait and its sem_post.
Inside(t) ==
    \/ pc[t] \in {"set", "start", "body", "finish", "clear", "leave", "post"}
    \/ pc[t] \in ErrPc /\ jmp[t]
    \/ pc[t] \in {"err", "exit1", "post1"} /\ mode[t] # "OOM"

\* Every variable keeps its type.
TypeOK ==
    /\ seminit \in BOOLEAN /\ sem \in Nat
    /\ tcc_state \in Threads \cup {NULL}
    /\ file \in Seq(Threads)
    /\ exitedBy \in Threads \cup {NULL}
    /\ pc \in [Threads -> PCs]
    /\ mode \in [Threads -> Modes]
    /\ s1 \in [Threads -> Threads \cup {NULL}]
    /\ jmp \in [Threads -> BOOLEAN]
    /\ warn_num \in [Threads -> BOOLEAN]
    /\ nb_errors \in [Threads -> Nat]
    /\ inc \in [Threads -> Nat]
    /\ ptr \in [Threads -> Nat \cup {Freed}]
    /\ ret \in [Threads -> {"none", "0", "-1"}]
    /\ errors \in [Threads -> Nat]
    /\ calls \in [Threads -> Nat]
    /\ fuel \in [Threads -> Nat]

\* "Other threads need to wait until we're done" (tcc_compile): two threads are
\* never both between the sem_wait of tcc_enter_state and the matching sem_post.
MutualExclusion == \A t, u \in Threads : Inside(t) /\ Inside(u) => t = u

\* The globals belong to one compilation: the parser of t finds its own state in
\* tcc_state, and every file on the stack was opened by t.
GlobalsOwned ==
    \A t \in Threads : pc[t] \in {"body", "finish", "clear", "leave"} =>
        /\ tcc_state = t
        /\ \A i \in 1..Len(file) : file[i] = t

\* A compilation leaves no global behind: when nobody is inside, tcc_state is
\* null, no file is open and the semaphore is free.
CleanWhenFree ==
    (seminit /\ \A t \in Threads : ~Inside(t)) => tcc_state = NULL /\ file = <<>> /\ sem = 1

\* tcc_compile returns -1 exactly when an error was delivered while it ran: errors
\* of earlier calls and of other threads' compilations do not count.
ResultMatchesErrors ==
    \A t \in Threads : ret[t] # "none" => (ret[t] = "-1") = (errors[t] > 0)

\* The option of a conditional warning (tcc_warning_c) never outlives it: it
\* would filter the next unconditional warning.
WarnOptionConsumed ==
    \A t \in Threads : warn_num[t] => pc[t] \in {"err", "exit1", "post1", "filter"}

\* tcc_split_path reads the name of a file that is still open.
NoFreedFile == \A t \in Threads : ptr[t] # Freed

\* A thread that waits for the semaphore gets it, or the process ends.
WaiterGetsIn ==
    \A t \in Threads : (pc[t] = "wait") ~> (pc[t] # "wait" \/ exitedBy # NULL)

-----------------------------------------------------------------------------
(* The inductive invariant of WarmSpec, where no allocation fails. *)

\* The parser's error recovery is on exactly while the parser may run; error1
\* then keeps the lock, and otherwise gives it up before it filters and reports.
JmpInv ==
    \A t \in Threads :
        /\ pc[t] \in {"body", "finish", "clear"} => jmp[t]
        /\ jmp[t] => pc[t] \in {"body", "finish", "clear", "err", "filter", "report"}

\* tcc_state names the thread inside, from its assignment to its reset, and
\* error1 has taken the state of its own caller from it.
StateInv ==
    \A t \in Threads :
        /\ Inside(t) /\ pc[t] \notin {"set", "post", "post1"} => tcc_state = t
        /\ pc[t] \in {"exit1", "post1", "filter", "report"} => s1[t] = t
        /\ tcc_state = t => Inside(t) /\ pc[t] \notin {"set", "post", "post1"}

\* The semaphore is free exactly when nobody is inside.
SemInv ==
    /\ seminit /\ sem \in {0, 1}
    /\ sem = 1 <=> \A t \in Threads : ~Inside(t)

NoOom == \A t \in Threads : mode[t] # "OOM" /\ pc[t] \notin {"init", "mark"}

LockInv == NoOom /\ JmpInv /\ StateInv /\ SemInv /\ MutualExclusion

\* t has files open: it parses, or reports an error of the parser.
Parsing(t) == pc[t] \in {"body", "finish"} \/ (pc[t] \in ErrPc /\ jmp[t])

\* The open files are those of the one thread that parses.
FileInv ==
    /\ \A t \in Threads : Parsing(t) => \A i \in 1..Len(file) : file[i] = t
    /\ (\A t \in Threads : ~Parsing(t)) => file = <<>>

\* The option of a conditional warning is named for a warning that is on its way.
WarnInv ==
    \A t \in Threads :
        warn_num[t] => mode[t] = "WARN" /\ pc[t] \in {"err", "exit1", "post1", "filter"}

\* t is in a call of tcc_compile, at the steps before it resets nb_errors.
Entering(t) ==
    pc[t] = "start" \/ (mode[t] = "COMPILE" /\ pc[t] \in {"test", "wait", "set"})

\* nb_errors counts, while t compiles, the errors delivered since the compilation
\* began; until it returns there is no result.
CountInv ==
    \A t \in Threads :
        /\ (jmp[t] \/ pc[t] \in {"leave", "post"}) => nb_errors[t] = errors[t]
        /\ Entering(t) => errors[t] = 0
        /\ (Entering(t) \/ jmp[t] \/ pc[t] \in {"leave", "post"}) => ret[t] = "none"
=============================================================================
