--------------------------- MODULE MCCompileLock ---------------------------
(* CompileLock on small instances. *)
EXTENDS CompileLock

\* -Werror alone, -w alone, and the settings of one warning option that error1
\* tells apart: off, on, on as an error, on and never an error.
MCOpts ==
    { [error |-> e, none |-> n, wopt |-> w] :
        e \in BOOLEAN, n \in BOOLEAN,
        w \in {{}, {"ON"}, {"ON", "ERR"}, {"ON", "NOE"}} }

\* No other thread has made a call so far.
Alone(t) == \A u \in Threads \ {t} : calls[u] = 0

\* Memory has run out, and the process is about to end.
OutOfMemory == \E t \in Threads : mode[t] = "OOM"

\* A process that starts its other threads once the semaphore is initialised, and whose
\* allocations may fail until then.
StartedNext ==
    \/ \E t \in Threads :
          \/ (seminit \/ Alone(t)) /\ ~OutOfMemory /\ Call(t)
          \/ Alone(t) /\ MallocFailure(t)
          \/ Step(t)
    \/ Ended /\ UNCHANGED vars

StartedSpec == Init /\ [][StartedNext]_vars /\ Fairness
=============================================================================
