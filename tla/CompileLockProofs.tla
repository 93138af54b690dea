------------------------- MODULE CompileLockProofs -------------------------
(* Proofs about CompileLock, for any set of threads and any bounds. *)
EXTENDS CompileLock, SequenceTheorems, TLAPS

\* tcc_close leaves a stack of files and typed pointers.
LEMMA CloseType ==
    ASSUME file \in Seq(Threads), ptr \in [Threads -> Nat \cup {Freed}], Close
    PROVE  file' \in Seq(Threads) /\ ptr' \in [Threads -> Nat \cup {Freed}]
<1>1. ptr' \in [Threads -> Nat \cup {Freed}]
  BY DEF Close
<1>2. CASE file = <<>>
  BY <1>1, <1>2 DEF Close
<1>3. CASE file # <<>>
  <2>1. Len(file) \in Nat \ {0} /\ 1 \in 1..Len(file)+1 /\ Len(file)-1 \in 0..Len(file)
    BY <1>3
  <2>2. SubSeq(file, 1, Len(file) - 1) \in Seq(Threads)
    BY <2>1, SubSeqProperties
  <2>3. QED BY <1>1, <2>2 DEF Close
<1>4. QED BY <1>2, <1>3

\* tcc_close leaves the files below the top one as they are.
LEMMA CloseKeeps ==
    ASSUME file \in Seq(Threads), file # <<>>, Close
    PROVE  /\ Len(file') = Len(file) - 1
           /\ \A i \in 1..Len(file') : i \in 1..Len(file) /\ file'[i] = file[i]
<1> DEFINE n == Len(file) - 1
           front == SubSeq(file, 1, n)
<1>1. n \in Nat /\ Len(file) = n + 1 /\ \A i \in 1..n : i \in 1..Len(file) /\ file[i] \in Threads
  OBVIOUS
<1> HIDE DEF n
<1>2. Len(front) = IF 1 <= n THEN n - 1 + 1 ELSE 0
  BY <1>1, SubSeqProperties
<1>3. \A i \in 1..n - 1 + 1 : front[i] = file[1 + i - 1]
  BY <1>1, SubSeqProperties
<1>4. Len(front) = n /\ \A i \in 1..n : front[i] = file[i]
  BY <1>1, <1>2, <1>3
<1>5. file' = front
  BY DEF Close, n
<1>6. QED BY <1>1, <1>4, <1>5 DEF n

\* The bound on calls is counted in natural numbers.
LEMMA CanCallType ==
    ASSUME NEW t \in Threads, calls \in [Threads -> Nat], CanCall(t)
    PROVE  calls' \in [Threads -> Nat]
BY DEF CanCall

\* Every action keeps the types of the variables.
LEMMA TypeStep ==
    ASSUME NEW t \in Threads, TypeOK, Call(t) \/ MallocFailure(t) \/ Step(t)
    PROVE  TypeOK'
<1> USE BoundAssumption, NullAssumption
<1>1. CASE CallCompile(t)
  <2>1. calls' \in [Threads -> Nat]
    BY <1>1, CanCallType DEF CallCompile, TypeOK
  <2>2. QED BY <1>1, <2>1 DEF CallCompile, Goto, TypeOK, PCs, Modes, Freed, lockVars, stateVars, bounds
<1>2. CASE CallReport(t)
  <2>1. calls' \in [Threads -> Nat]
    BY <1>2, CanCallType DEF CallReport, TypeOK
  <2>2. QED BY <1>2, <2>1 DEF CallReport, Goto, TypeOK, PCs, Modes, Freed, lockVars, stateVars, bounds
<1>3. CASE CallSplitPath(t)
  <2>1. calls' \in [Threads -> Nat]
    BY <1>3, CanCallType DEF CallSplitPath, TypeOK
  <2>2. Len(file) \in Nat
    BY DEF TypeOK
  <2>3. QED BY <1>3, <2>1, <2>2 DEF CallSplitPath, Goto, TypeOK, PCs, Modes, Freed, lockVars, stateVars, bounds
<1>4. CASE MallocFailure(t)
  <2>1. pc' \in [Threads -> PCs]
    BY <1>4 DEF MallocFailure, Goto, TypeOK, PCs
  <2>2. calls' \in [Threads -> Nat]
    BY <1>4, CanCallType DEF MallocFailure, TypeOK
  <2>3. QED BY <1>4, <2>1, <2>2 DEF MallocFailure, TypeOK, PCs, Modes, Freed, lockVars, stateVars, bounds
<1>5. CASE TestInit(t)
  BY <1>5 DEF TestInit, Goto, TypeOK, PCs, Modes, Freed, lockVars, stateVars, bounds
<1>6. CASE SemInit(t)
  BY <1>6 DEF SemInit, Goto, TypeOK, PCs, Modes, Freed, lockVars, stateVars, bounds
<1>7. CASE MarkInit(t)
  BY <1>7 DEF MarkInit, Goto, TypeOK, PCs, Modes, Freed, lockVars, stateVars, bounds
<1>8. CASE SemWait(t)
  BY <1>8 DEF SemWait, Goto, TypeOK, PCs, Modes, Freed, lockVars, stateVars, bounds
<1>9. CASE SetState(t)
  BY <1>9 DEF SetState, Goto, NameOption, TypeOK, PCs, Modes, Freed, lockVars, stateVars, bounds
<1>10. CASE SplitPathDone(t)
  BY <1>10 DEF SplitPathDone, Goto, TypeOK, PCs, Modes, Freed, lockVars, stateVars, bounds
<1>11. CASE StartCompile(t)
  <2>1. file' \in Seq(Threads) /\ inc' \in [Threads -> Nat]
    BY <1>11 DEF StartCompile, OpenFirst, TypeOK
  <2>2. jmp' \in [Threads -> BOOLEAN] /\ nb_errors' \in [Threads -> Nat]
    BY <1>11 DEF StartCompile, TypeOK
  <2>3. pc' \in [Threads -> PCs] /\ UNCHANGED exitedBy
    BY <1>11 DEF StartCompile, Goto, TypeOK, PCs
  <2>4. QED BY <1>11, <2>1, <2>2, <2>3 DEF StartCompile, TypeOK, lockVars, bounds
<1>12. CASE OpenInclude(t)
  <2>1. file' \in Seq(Threads)
    BY <1>12 DEF OpenInclude, Open, TypeOK
  <2>2. inc' \in [Threads -> Nat] /\ fuel' \in [Threads -> Nat]
    BY <1>12 DEF OpenInclude, BurnFuel, TypeOK
  <2>3. pc' \in [Threads -> PCs] /\ UNCHANGED exitedBy
    BY <1>12 DEF OpenInclude, Goto, TypeOK, PCs
  <2>4. QED BY <1>12, <2>1, <2>2, <2>3 DEF OpenInclude, TypeOK, lockVars
<1>13. CASE CloseInclude(t)
  <2>1. file' \in Seq(Threads) /\ ptr' \in [Threads -> Nat \cup {Freed}]
    BY <1>13, CloseType DEF CloseInclude, TypeOK
  <2>2. inc' \in [Threads -> Nat]
    BY <1>13 DEF CloseInclude, TypeOK
  <2>3. QED BY <1>13, <2>1, <2>2 DEF CloseInclude, Goto, TypeOK, PCs, Modes, Freed, lockVars, stateVars, bounds
<1>14. CASE ReportInBody(t)
  <2>1. warn_num' \in [Threads -> BOOLEAN]
    BY <1>14 DEF ReportInBody, NameOption, TypeOK
  <2>2. pc' \in [Threads -> PCs] /\ fuel' \in [Threads -> Nat] /\ UNCHANGED exitedBy
    BY <1>14 DEF ReportInBody, Goto, BurnFuel, TypeOK, PCs
  <2>3. mode' \in [Threads -> Modes]
    BY <1>14 DEF ReportInBody, TypeOK, Modes
  <2>4. QED BY <1>14, <2>1, <2>2, <2>3 DEF ReportInBody, TypeOK, PCs, Modes, Freed, lockVars, stateVars, bounds
<1>15. CASE EndBody(t)
  BY <1>15 DEF EndBody, Goto, TypeOK, PCs, Modes, Freed, lockVars, stateVars, bounds
<1>16. CASE CloseAll(t)
  <2>1. file' \in Seq(Threads) /\ ptr' \in [Threads -> Nat \cup {Freed}]
    BY <1>16, CloseType DEF CloseAll, TypeOK
  <2>2. pc' \in [Threads -> PCs]
    BY <1>16 DEF CloseAll, Goto, TypeOK, PCs
  <2>3. QED BY <1>16, <2>1, <2>2 DEF CloseAll, TypeOK, PCs, Modes, Freed, lockVars, stateVars, bounds
<1>17. CASE ClearJmp(t)
  BY <1>17 DEF ClearJmp, Goto, TypeOK, PCs, Modes, Freed, lockVars, stateVars, bounds
<1>18. CASE LeaveState(t)
  BY <1>18 DEF LeaveState, Goto, TypeOK, PCs, Modes, Freed, lockVars, stateVars, bounds
<1>19. CASE ReturnCompile(t)
  BY <1>19 DEF ReturnCompile, Goto, TypeOK, PCs, Modes, Freed, lockVars, stateVars, bounds
<1>20. CASE EnterError(t)
  BY <1>20 DEF EnterError, Goto, TypeOK, PCs, Modes, Freed, lockVars, stateVars, bounds
<1>21. CASE ErrorLeaveState(t)
  BY <1>21 DEF ErrorLeaveState, Goto, TypeOK, PCs, Modes, Freed, lockVars, stateVars, bounds
<1>22. CASE ErrorPost(t)
  BY <1>22 DEF ErrorPost, Goto, TypeOK, PCs, Modes, Freed, lockVars, stateVars, bounds
<1>23. CASE FilterWarning(t)
  BY <1>23 DEF FilterWarning, Goto, WarningMode, Resume, TypeOK, PCs, Modes, Freed, lockVars, stateVars, bounds
<1>24. CASE NotAWarning(t)
  BY <1>24 DEF NotAWarning, Goto, TypeOK, PCs, Modes, Freed, lockVars, stateVars, bounds
<1>25. CASE Report(t)
  <2>1. nb_errors' \in [Threads -> Nat] /\ errors' \in [Threads -> Nat]
    <3>1. CASE mode[t] # "WARN" /\ s1[t] # NULL
      <4>1. s1[t] \in Threads
        BY <3>1 DEF TypeOK
      <4>2. nb_errors \in [Threads -> Nat] /\ errors \in [Threads -> Nat]
        BY DEF TypeOK
      <4>3. nb_errors' \in [Threads -> Nat]
        BY <1>25, <3>1, <4>1, <4>2 DEF Report
      <4>4. errors' \in [Threads -> Nat]
        BY <1>25, <3>1, <4>1, <4>2 DEF Report
      <4>5. QED BY <4>3, <4>4
    <3>2. CASE ~(mode[t] # "WARN" /\ s1[t] # NULL)
      BY <1>25, <3>2 DEF Report, TypeOK
    <3>3. QED BY <3>1, <3>2
  <2>2. pc' \in [Threads -> PCs] /\ mode' \in [Threads -> Modes]
    BY <1>25 DEF Report, Resume, TypeOK, PCs, Modes
  <2>3. exitedBy' \in Threads \cup {NULL}
    BY <1>25 DEF Report, TypeOK
  <2>4. QED BY <1>25, <2>1, <2>2, <2>3 DEF Report, TypeOK, PCs, Modes, Freed, lockVars, stateVars, bounds
<1> QED BY <1>1, <1>2, <1>3, <1>4, <1>5, <1>6, <1>7, <1>8, <1>9, <1>10, <1>11, <1>12, <1>13, <1>14, <1>15, <1>16, <1>17, <1>18, <1>19, <1>20, <1>21, <1>22, <1>23, <1>24, <1>25 DEF Call, Step


\* Every action keeps the lock invariant.
LEMMA LockStep ==
    ASSUME NEW t \in Threads, TypeOK, LockInv, ~MallocFails,
           Call(t) \/ MallocFailure(t) \/ Step(t)
    PROVE  LockInv'
<1> USE NullAssumption DEF LockInv, NoOom, JmpInv, StateInv, SemInv, MutualExclusion, Inside, ErrPc
<1>1. /\ pc \in [Threads -> PCs] /\ mode \in [Threads -> Modes]
      /\ jmp \in [Threads -> BOOLEAN] /\ s1 \in [Threads -> Threads \cup {NULL}]
  BY DEF TypeOK
<1>2. CASE CallCompile(t)
  BY <1>1, <1>2 DEF CallCompile, Goto, lockVars, stateVars
<1>3. CASE CallReport(t)
  BY <1>1, <1>3 DEF CallReport, Goto, lockVars, stateVars
<1>4. CASE CallSplitPath(t)
  BY <1>1, <1>4 DEF CallSplitPath, Goto, lockVars, stateVars
<1>5. CASE MallocFailure(t)
  BY <1>1, <1>5 DEF MallocFailure, Goto, lockVars, stateVars
<1>6. CASE TestInit(t)
  BY <1>1, <1>6 DEF TestInit, Goto, lockVars, stateVars
<1>7. CASE SemInit(t)
  BY <1>1, <1>7 DEF SemInit, Goto, lockVars, stateVars
<1>8. CASE MarkInit(t)
  BY <1>1, <1>8 DEF MarkInit, Goto, lockVars, stateVars
<1>9. CASE SemWait(t)
  BY <1>1, <1>9 DEF SemWait, Goto, lockVars, stateVars
<1>10. CASE SetState(t)
  BY <1>1, <1>10 DEF SetState, Goto, NameOption, lockVars, stateVars
<1>11. CASE SplitPathDone(t)
  BY <1>1, <1>11 DEF SplitPathDone, Goto, lockVars, stateVars
<1>12. CASE StartCompile(t)
  BY <1>1, <1>12 DEF StartCompile, Goto, lockVars, stateVars
<1>13. CASE OpenInclude(t)
  BY <1>1, <1>13 DEF OpenInclude, Goto, lockVars, stateVars
<1>14. CASE CloseInclude(t)
  BY <1>1, <1>14 DEF CloseInclude, Goto, lockVars, stateVars
<1>15. CASE ReportInBody(t)
  BY <1>1, <1>15 DEF ReportInBody, Goto, NameOption, lockVars, stateVars
<1>16. CASE EndBody(t)
  BY <1>1, <1>16 DEF EndBody, Goto, lockVars, stateVars
<1>17. CASE CloseAll(t)
  BY <1>1, <1>17 DEF CloseAll, Goto, lockVars, stateVars
<1>18. CASE ClearJmp(t)
  BY <1>1, <1>18 DEF ClearJmp, Goto, lockVars, stateVars
<1>19. CASE LeaveState(t)
  BY <1>1, <1>19 DEF LeaveState, Goto, lockVars, stateVars
<1>20. CASE ReturnCompile(t)
  BY <1>1, <1>20 DEF ReturnCompile, Goto, lockVars, stateVars
<1>21. CASE EnterError(t)
  BY <1>1, <1>21 DEF EnterError, Goto, lockVars, stateVars
<1>22. CASE ErrorLeaveState(t)
  BY <1>1, <1>22 DEF ErrorLeaveState, Goto, lockVars, stateVars
<1>23. CASE ErrorPost(t)
  BY <1>1, <1>23 DEF ErrorPost, Goto, lockVars, stateVars
<1>24. CASE FilterWarning(t)
  BY <1>1, <1>24 DEF FilterWarning, Goto, WarningMode, Resume, lockVars, stateVars
<1>25. CASE NotAWarning(t)
  BY <1>1, <1>25 DEF NotAWarning, Goto, lockVars, stateVars
<1>26. CASE Report(t)
  BY <1>1, <1>26 DEF Report, Goto, Resume, lockVars, stateVars
<1> QED BY <1>2, <1>3, <1>4, <1>5, <1>6, <1>7, <1>8, <1>9, <1>10, <1>11, <1>12, <1>13, <1>14, <1>15, <1>16, <1>17, <1>18, <1>19, <1>20, <1>21, <1>22, <1>23, <1>24, <1>25, <1>26 DEF Call, Step

\* Every action keeps the invariant on the open files.
LEMMA FileStep ==
    ASSUME NEW t \in Threads, TypeOK, LockInv, FileInv, ~MallocFails,
           Call(t) \/ MallocFailure(t) \/ Step(t)
    PROVE  FileInv'
<1> USE NullAssumption DEF LockInv, NoOom, JmpInv, StateInv, MutualExclusion, Inside, ErrPc,
        FileInv, Parsing
<1>1. /\ pc \in [Threads -> PCs] /\ jmp \in [Threads -> BOOLEAN]
      /\ file \in Seq(Threads)
  BY DEF TypeOK
<1>2. CASE CallCompile(t)
  BY <1>1, <1>2 DEF CallCompile, Goto, lockVars, stateVars
<1>3. CASE CallReport(t)
  BY <1>1, <1>3 DEF CallReport, Goto, lockVars, stateVars
<1>4. CASE CallSplitPath(t)
  BY <1>1, <1>4 DEF CallSplitPath, Goto, lockVars, stateVars
<1>5. CASE MallocFailure(t)
  BY <1>1, <1>5 DEF MallocFailure, Goto, lockVars, stateVars
<1>6. CASE TestInit(t)
  BY <1>1, <1>6 DEF TestInit, Goto, lockVars, stateVars
<1>7. CASE SemInit(t)
  BY <1>1, <1>7 DEF SemInit, Goto, lockVars, stateVars
<1>8. CASE MarkInit(t)
  BY <1>1, <1>8 DEF MarkInit, Goto, lockVars, stateVars
<1>9. CASE SemWait(t)
  BY <1>1, <1>9 DEF SemWait, Goto, lockVars, stateVars
<1>10. CASE SetState(t)
  BY <1>1, <1>10 DEF SetState, Goto, lockVars, stateVars
<1>11. CASE SplitPathDone(t)
  BY <1>1, <1>11 DEF SplitPathDone, Goto, lockVars, stateVars
<1>12. CASE StartCompile(t)
  BY <1>1, <1>12 DEF StartCompile, Goto, OpenFirst, lockVars, stateVars
<1>13. CASE OpenInclude(t)
  BY <1>1, <1>13 DEF OpenInclude, Goto, Open, lockVars, stateVars
<1>14. CASE CloseInclude(t)
  <2>1. CASE file = <<>>
    <3>1. \A i \in 1..Len(file') : FALSE
      BY <1>14, <2>1 DEF CloseInclude, Close
    <3>2. QED BY <1>1, <1>14, <3>1 DEF CloseInclude, Goto, lockVars
  <2>2. CASE file # <<>>
    <3>1. \A i \in 1..Len(file') : i \in 1..Len(file) /\ file'[i] = file[i]
      BY <1>1, <1>14, <2>2, CloseKeeps DEF CloseInclude
    <3>2. QED BY <1>1, <1>14, <3>1 DEF CloseInclude, Goto, lockVars
  <2>3. QED BY <2>1, <2>2
<1>15. CASE ReportInBody(t)
  BY <1>1, <1>15 DEF ReportInBody, Goto, lockVars, stateVars
<1>16. CASE EndBody(t)
  BY <1>1, <1>16 DEF EndBody, Goto, lockVars, stateVars
<1>17. CASE CloseAll(t)
  <2>1. CASE file = <<>>
    BY <1>1, <1>17, <2>1 DEF CloseAll, Goto, lockVars, stateVars
  <2>2. CASE file # <<>>
    <3>1. \A i \in 1..Len(file') : i \in 1..Len(file) /\ file'[i] = file[i]
      BY <1>1, <1>17, <2>2, CloseKeeps DEF CloseAll
    <3>2. QED BY <1>1, <1>17, <2>2, <3>1 DEF CloseAll, Goto, lockVars, stateVars
  <2>3. QED BY <2>1, <2>2
<1>18. CASE ClearJmp(t)
  BY <1>1, <1>18 DEF ClearJmp, Goto, lockVars, stateVars
<1>19. CASE LeaveState(t)
  BY <1>1, <1>19 DEF LeaveState, Goto, lockVars, stateVars
<1>20. CASE ReturnCompile(t)
  BY <1>1, <1>20 DEF ReturnCompile, Goto, lockVars, stateVars
<1>21. CASE EnterError(t)
  BY <1>1, <1>21 DEF EnterError, Goto, lockVars, stateVars
<1>22. CASE ErrorLeaveState(t)
  BY <1>1, <1>22 DEF ErrorLeaveState, Goto, lockVars, stateVars
<1>23. CASE ErrorPost(t)
  BY <1>1, <1>23 DEF ErrorPost, Goto, lockVars, stateVars
<1>24. CASE FilterWarning(t)
  BY <1>1, <1>24 DEF FilterWarning, Goto, WarningMode, Resume, lockVars, stateVars
<1>25. CASE NotAWarning(t)
  BY <1>1, <1>25 DEF NotAWarning, Goto, lockVars, stateVars
<1>26. CASE Report(t)
  BY <1>1, <1>26 DEF Report, Goto, Resume, lockVars, stateVars
<1> QED BY <1>2, <1>3, <1>4, <1>5, <1>6, <1>7, <1>8, <1>9, <1>10, <1>11, <1>12, <1>13, <1>14, <1>15, <1>16, <1>17, <1>18, <1>19, <1>20, <1>21, <1>22, <1>23, <1>24, <1>25, <1>26 DEF Call, Step

\* Every action keeps the invariant on the option of a warning.
LEMMA WarnStep ==
    ASSUME NEW t \in Threads, TypeOK, LockInv, WarnInv, ~MallocFails,
           Call(t) \/ MallocFailure(t) \/ Step(t)
    PROVE  WarnInv'
<1> USE NullAssumption DEF LockInv, NoOom, JmpInv, StateInv, MutualExclusion, Inside, ErrPc, WarnInv
<1>1. /\ pc \in [Threads -> PCs] /\ mode \in [Threads -> Modes]
      /\ warn_num \in [Threads -> BOOLEAN]
  BY DEF TypeOK
<1>2. CASE CallCompile(t)
  BY <1>1, <1>2 DEF CallCompile, Goto, lockVars, stateVars
<1>3. CASE CallReport(t)
  BY <1>1, <1>3 DEF CallReport, Goto, lockVars, stateVars
<1>4. CASE CallSplitPath(t)
  BY <1>1, <1>4 DEF CallSplitPath, Goto, lockVars, stateVars
<1>5. CASE MallocFailure(t)
  BY <1>1, <1>5 DEF MallocFailure, Goto, lockVars, stateVars
<1>6. CASE TestInit(t)
  BY <1>1, <1>6 DEF TestInit, Goto, lockVars, stateVars
<1>7. CASE SemInit(t)
  BY <1>1, <1>7 DEF SemInit, Goto, lockVars, stateVars
<1>8. CASE MarkInit(t)
  BY <1>1, <1>8 DEF MarkInit, Goto, lockVars, stateVars
<1>9. CASE SemWait(t)
  BY <1>1, <1>9 DEF SemWait, Goto, lockVars, stateVars
<1>10. CASE SetState(t)
  <2>1. \A u \in Threads : u # t => warn_num'[u] = warn_num[u]
    BY <1>1, <1>10 DEF SetState, Goto, NameOption
  <2>2. warn_num'[t] => mode'[t] = "WARN" \/ warn_num[t]
    BY <1>1, <1>10 DEF SetState, Goto, NameOption
  <2>3. QED BY <1>1, <1>10, <2>1, <2>2 DEF SetState, Goto
<1>11. CASE SplitPathDone(t)
  BY <1>1, <1>11 DEF SplitPathDone, Goto, lockVars, stateVars
<1>12. CASE StartCompile(t)
  BY <1>1, <1>12 DEF StartCompile, Goto, lockVars, stateVars
<1>13. CASE OpenInclude(t)
  BY <1>1, <1>13 DEF OpenInclude, Goto, lockVars, stateVars
<1>14. CASE CloseInclude(t)
  BY <1>1, <1>14 DEF CloseInclude, Goto, lockVars, stateVars
<1>15. CASE ReportInBody(t)
  <2>0. tcc_state = t
    BY <1>1, <1>15 DEF ReportInBody, Goto
  <2>1. \A u \in Threads : u # t => warn_num'[u] = warn_num[u]
    BY <1>1, <1>15, <2>0 DEF ReportInBody, NameOption
  <2>2. warn_num'[t] => mode'[t] = "WARN" \/ warn_num[t]
    BY <1>1, <1>15 DEF ReportInBody, Goto, NameOption
  <2>3. QED BY <1>1, <1>15, <2>1, <2>2 DEF ReportInBody, Goto
<1>16. CASE EndBody(t)
  BY <1>1, <1>16 DEF EndBody, Goto, lockVars, stateVars
<1>17. CASE CloseAll(t)
  BY <1>1, <1>17 DEF CloseAll, Goto, lockVars, stateVars
<1>18. CASE ClearJmp(t)
  BY <1>1, <1>18 DEF ClearJmp, Goto, lockVars, stateVars
<1>19. CASE LeaveState(t)
  BY <1>1, <1>19 DEF LeaveState, Goto, lockVars, stateVars
<1>20. CASE ReturnCompile(t)
  BY <1>1, <1>20 DEF ReturnCompile, Goto, lockVars, stateVars
<1>21. CASE EnterError(t)
  BY <1>1, <1>21 DEF EnterError, Goto, lockVars, stateVars
<1>22. CASE ErrorLeaveState(t)
  BY <1>1, <1>22 DEF ErrorLeaveState, Goto, lockVars, stateVars
<1>23. CASE ErrorPost(t)
  BY <1>1, <1>23 DEF ErrorPost, Goto, lockVars, stateVars
<1>24. CASE FilterWarning(t)
  BY <1>1, <1>24 DEF FilterWarning, Goto, WarningMode, Resume, lockVars, stateVars
<1>25. CASE NotAWarning(t)
  BY <1>1, <1>25 DEF NotAWarning, Goto, lockVars, stateVars
<1>26. CASE Report(t)
  BY <1>1, <1>26 DEF Report, Goto, Resume, lockVars, stateVars
<1> QED BY <1>2, <1>3, <1>4, <1>5, <1>6, <1>7, <1>8, <1>9, <1>10, <1>11, <1>12, <1>13, <1>14, <1>15, <1>16, <1>17, <1>18, <1>19, <1>20, <1>21, <1>22, <1>23, <1>24, <1>25, <1>26 DEF Call, Step

\* Every action keeps the count of errors and the result it gives.
LEMMA CountStep ==
    ASSUME NEW t \in Threads, TypeOK, LockInv, CountInv, ResultMatchesErrors, ~MallocFails,
           Call(t) \/ MallocFailure(t) \/ Step(t)
    PROVE  CountInv' /\ ResultMatchesErrors'
<1> USE NullAssumption DEF LockInv, NoOom, JmpInv, StateInv, ErrPc, CountInv, Entering,
        ResultMatchesErrors
<1>1. /\ pc \in [Threads -> PCs] /\ mode \in [Threads -> Modes]
      /\ jmp \in [Threads -> BOOLEAN] /\ ret \in [Threads -> {"none", "0", "-1"}]
      /\ errors \in [Threads -> Nat] /\ nb_errors \in [Threads -> Nat]
  BY DEF TypeOK
<1>2. CASE CallCompile(t)
  BY <1>1, <1>2 DEF CallCompile, Goto, lockVars, stateVars
<1>3. CASE CallReport(t)
  BY <1>1, <1>3 DEF CallReport, Goto, lockVars, stateVars
<1>4. CASE CallSplitPath(t)
  BY <1>1, <1>4 DEF CallSplitPath, Goto, lockVars, stateVars
<1>5. CASE MallocFailure(t)
  BY <1>1, <1>5 DEF MallocFailure, Goto, lockVars, stateVars
<1>6. CASE TestInit(t)
  BY <1>1, <1>6 DEF TestInit, Goto, lockVars, stateVars
<1>7. CASE SemInit(t)
  BY <1>1, <1>7 DEF SemInit, Goto, lockVars, stateVars
<1>8. CASE MarkInit(t)
  BY <1>1, <1>8 DEF MarkInit, Goto, lockVars, stateVars
<1>9. CASE SemWait(t)
  BY <1>1, <1>9 DEF SemWait, Goto, lockVars, stateVars
<1>10. CASE SetState(t)
  BY <1>1, <1>10 DEF SetState, Goto, NameOption, lockVars, stateVars
<1>11. CASE SplitPathDone(t)
  BY <1>1, <1>11 DEF SplitPathDone, Goto, lockVars, stateVars
<1>12. CASE StartCompile(t)
  BY <1>1, <1>12 DEF StartCompile, Goto, lockVars, stateVars
<1>13. CASE OpenInclude(t)
  BY <1>1, <1>13 DEF OpenInclude, Goto, lockVars, stateVars
<1>14. CASE CloseInclude(t)
  BY <1>1, <1>14 DEF CloseInclude, Goto, lockVars, stateVars
<1>15. CASE ReportInBody(t)
  BY <1>1, <1>15 DEF ReportInBody, Goto, NameOption, lockVars, stateVars
<1>16. CASE EndBody(t)
  BY <1>1, <1>16 DEF EndBody, Goto, lockVars, stateVars
<1>17. CASE CloseAll(t)
  BY <1>1, <1>17 DEF CloseAll, Goto, lockVars, stateVars
<1>18. CASE ClearJmp(t)
  BY <1>1, <1>18 DEF ClearJmp, Goto, lockVars, stateVars
<1>19. CASE LeaveState(t)
  BY <1>1, <1>19 DEF LeaveState, Goto, lockVars, stateVars
<1>20. CASE ReturnCompile(t)
  BY <1>1, <1>20 DEF ReturnCompile, Goto, lockVars, stateVars
<1>21. CASE EnterError(t)
  BY <1>1, <1>21 DEF EnterError, Goto, lockVars, stateVars
<1>22. CASE ErrorLeaveState(t)
  BY <1>1, <1>22 DEF ErrorLeaveState, Goto, lockVars, stateVars
<1>23. CASE ErrorPost(t)
  BY <1>1, <1>23 DEF ErrorPost, Goto, lockVars, stateVars
<1>24. CASE FilterWarning(t)
  BY <1>1, <1>24 DEF FilterWarning, Goto, WarningMode, Resume, lockVars, stateVars
<1>25. CASE NotAWarning(t)
  BY <1>1, <1>25 DEF NotAWarning, Goto, lockVars, stateVars
<1>26. CASE Report(t)
  BY <1>1, <1>26 DEF Report, Goto, Resume, lockVars, stateVars
<1> QED BY <1>2, <1>3, <1>4, <1>5, <1>6, <1>7, <1>8, <1>9, <1>10, <1>11, <1>12, <1>13, <1>14, <1>15, <1>16, <1>17, <1>18, <1>19, <1>20, <1>21, <1>22, <1>23, <1>24, <1>25, <1>26 DEF Call, Step

-----------------------------------------------------------------------------
(* The theorems. *)

\* All that holds in every reachable state.
AllInv == TypeOK /\ LockInv /\ FileInv /\ WarnInv /\ CountInv /\ ResultMatchesErrors

\* The warm process starts with the invariant.
LEMMA InitAll == WarmInit => AllInv
<1> USE NullAssumption DEF WarmInit, InitThreads
<1>1. WarmInit => TypeOK
  BY DEF TypeOK, PCs, Modes, Freed
<1>2. WarmInit => LockInv
  BY DEF LockInv, NoOom, JmpInv, StateInv, SemInv, MutualExclusion, Inside, ErrPc
<1>3. WarmInit => FileInv /\ WarnInv /\ CountInv /\ ResultMatchesErrors
  BY DEF FileInv, Parsing, WarnInv, CountInv, Entering, ResultMatchesErrors, ErrPc
<1>4. QED BY <1>1, <1>2, <1>3 DEF AllInv

\* Every step of the process, and every stuttering step, keeps it.
LEMMA NextAll == ASSUME ~MallocFails, AllInv, [Next]_vars PROVE AllInv'
<1>1. CASE UNCHANGED vars
  BY <1>1 DEF AllInv, TypeOK, LockInv, NoOom, JmpInv, StateInv, SemInv, MutualExclusion, Inside,
     FileInv, Parsing, WarnInv, CountInv, Entering, ResultMatchesErrors,
     vars, lockVars, stateVars, bounds
<1>2. CASE \E t \in Threads : Call(t) \/ MallocFailure(t) \/ Step(t)
  <2>1. PICK t \in Threads : Call(t) \/ MallocFailure(t) \/ Step(t)
    BY <1>2
  <2>2. QED BY <2>1, TypeStep, LockStep, FileStep, WarnStep, CountStep DEF AllInv
<1>3. QED BY <1>1, <1>2 DEF Next

\* A warm process in which no allocation fails keeps the invariant.
THEOREM AllCorrect == ASSUME ~MallocFails PROVE WarmSpec => []AllInv
<1>1. WarmInit => AllInv
  BY InitAll
<1>2. AllInv /\ [Next]_vars => AllInv'
  BY NextAll
<1>3. QED BY <1>1, <1>2, PTL DEF WarmSpec

\* Every variable of the lock and of the states keeps its type.
THEOREM TypeCorrect == ASSUME ~MallocFails PROVE WarmSpec => []TypeOK
<1>1. AllInv => TypeOK
  BY DEF AllInv
<1>2. QED BY <1>1, AllCorrect, PTL

\* tcc_enter_state and tcc_exit_state exclude: once the semaphore is initialised,
\* no two threads are between them.
THEOREM ExclusionCorrect == ASSUME ~MallocFails PROVE WarmSpec => []MutualExclusion
<1>1. AllInv => MutualExclusion
  BY DEF AllInv, LockInv
<1>2. QED BY <1>1, AllCorrect, PTL

\* While t compiles, the globals tcc_state and file are its own.
THEOREM GlobalsCorrect == ASSUME ~MallocFails PROVE WarmSpec => []GlobalsOwned
<1>1. AllInv => GlobalsOwned
  <2> SUFFICES ASSUME AllInv, NEW t \in Threads, pc[t] \in {"body", "finish", "clear", "leave"}
               PROVE  tcc_state = t /\ \A i \in 1..Len(file) : file[i] = t
    BY DEF GlobalsOwned
  <2>1. tcc_state = t
    BY DEF AllInv, LockInv, StateInv, Inside
  <2>2. CASE pc[t] \in {"body", "finish"}
    BY <2>1, <2>2 DEF AllInv, FileInv, Parsing
  <2>3. CASE pc[t] \in {"clear", "leave"}
    <3>1. \A u \in Threads : ~Parsing(u)
      BY <2>3 DEF AllInv, LockInv, MutualExclusion, Inside, Parsing, ErrPc, JmpInv
    <3>2. file = <<>>
      BY <3>1 DEF AllInv, FileInv
    <3>3. QED BY <2>1, <3>2
  <2>4. QED BY <2>2, <2>3
<1>2. QED BY <1>1, AllCorrect, PTL

\* When nobody is inside, no compilation has left anything in the globals.
THEOREM CleanCorrect == ASSUME ~MallocFails PROVE WarmSpec => []CleanWhenFree
<1>1. AllInv => CleanWhenFree
  <2> SUFFICES ASSUME AllInv, \A t \in Threads : ~Inside(t)
               PROVE  tcc_state = NULL /\ file = <<>> /\ sem = 1
    BY DEF CleanWhenFree
  <2>1. tcc_state = NULL
    BY DEF AllInv, TypeOK, LockInv, StateInv
  <2>2. file = <<>>
    BY DEF AllInv, FileInv, Parsing, Inside
  <2>3. sem = 1
    BY DEF AllInv, LockInv, SemInv
  <2>4. QED BY <2>1, <2>2, <2>3
<1>2. QED BY <1>1, AllCorrect, PTL

\* tcc_compile returns -1 exactly when an error was delivered while it ran.
THEOREM ResultCorrect == ASSUME ~MallocFails PROVE WarmSpec => []ResultMatchesErrors
<1>1. AllInv => ResultMatchesErrors
  BY DEF AllInv
<1>2. QED BY <1>1, AllCorrect, PTL

\* The option of a conditional warning never outlives the warning.
THEOREM WarnOptionCorrect == ASSUME ~MallocFails PROVE WarmSpec => []WarnOptionConsumed
<1>1. AllInv => WarnOptionConsumed
  BY DEF AllInv, WarnInv, WarnOptionConsumed
<1>2. QED BY <1>1, AllCorrect, PTL
=============================================================================
