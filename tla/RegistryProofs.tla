--------------------------- MODULE RegistryProofs ---------------------------
(***************************************************************************)
(* Proofs about ExecutorRegistry, for any set of executors.                *)
(***************************************************************************)
EXTENDS ExecutorRegistry, TLAPS

\* Type correctness: every step of every thread keeps the atomics of the
\* handles and of the registry within their enumerations.
THEOREM TypeCorrect == Spec => []TypeOK
<1>1. Init => TypeOK
  BY RegistryAssumption
     DEF Init, TypeOK, States, Requests, ActivePcs, ParkedPcs, OutPcs,
         PauserPcs, Pausers, NoOne, NoStore
<1>2. TypeOK /\ [Next]_vars => TypeOK'
  <2> SUFFICES ASSUME TypeOK, [Next]_vars PROVE TypeOK'
    OBVIOUS
  <2> USE RegistryAssumption
      DEF TypeOK, States, Requests, ActivePcs, ParkedPcs, OutPcs, PauserPcs,
          Pausers, NoOne, NoStore, Goto, PGoto, Fence, SetState, handleVars,
          execVars, scanVars
  <2>1. ASSUME NEW e \in Executors, TrapLoad(e) PROVE TypeOK'
    BY <2>1 DEF TrapLoad
  <2>2. ASSUME NEW e \in Executors, TrapPause(e) PROVE TypeOK'
    BY <2>2 DEF TrapPause
  <2>3. ASSUME NEW e \in Executors, TrapSpin(e) PROVE TypeOK'
    BY <2>3 DEF TrapSpin
  <2>4. ASSUME NEW e \in Executors, TrapResume(e) PROVE TypeOK'
    BY <2>4 DEF TrapResume
  <2>5. ASSUME NEW e \in Executors, TrapAbort(e) PROVE TypeOK'
    BY <2>5 DEF TrapAbort
  <2>6. ASSUME NEW e \in Executors, Register(e) PROVE TypeOK'
    BY <2>6 DEF Register
  <2>7. ASSUME NEW e \in Executors, Setup(e) PROVE TypeOK'
    BY <2>7 DEF Setup
  <2>8. ASSUME NEW e \in Executors, SafePoint(e) PROVE TypeOK'
    BY <2>8 DEF SafePoint
  <2>9. ASSUME NEW e \in Executors, Block(e) PROVE TypeOK'
    BY <2>9 DEF Block
  <2>10. ASSUME NEW e \in Executors, Unblock(e) PROVE TypeOK'
    BY <2>10 DEF Unblock
  <2>11. ASSUME NEW e \in Executors, ForkDone(e) PROVE TypeOK'
    BY <2>11 DEF ForkDone
  <2>12. ASSUME NEW e \in Executors, Finish(e) PROVE TypeOK'
    BY <2>12 DEF Finish
  <2>13. ASSUME NEW e \in Executors, Unregister(e) PROVE TypeOK'
    BY <2>13 DEF Unregister
  <2>14. ASSUME NEW e \in Executors, Drain(e) PROVE TypeOK'
    BY <2>14 DEF Drain
  <2>15. ASSUME NEW e \in Executors, NEW c \in Executors, Fork(e, c)
         PROVE  TypeOK'
    BY <2>15 DEF Fork
  <2>16. ASSUME NEW p \in Pausers, PauseLock(p) PROVE TypeOK'
    BY <2>16 DEF PauseLock
  <2>17. ASSUME NEW p \in Pausers, PauseRequest(p) PROVE TypeOK'
    BY <2>17 DEF PauseRequest
  <2>18. ASSUME NEW p \in Pausers, PauseLoad(p) PROVE TypeOK'
    BY <2>18 DEF PauseLoad
  <2>19. ASSUME NEW p \in Pausers, PausePassEnd(p) PROVE TypeOK'
    BY <2>19 DEF PausePassEnd
  <2>20. ASSUME NEW p \in Pausers, PauseDone(p) PROVE TypeOK'
    BY <2>20 DEF PauseDone
  <2>21. CASE CollectBegin
    BY <2>21 DEF CollectBegin
  <2>22. CASE ResumeBegin
    BY <2>22 DEF ResumeBegin
  <2>23. CASE ResumeLock
    BY <2>23 DEF ResumeLock
  <2>24. CASE ResumeHandle
    BY <2>24 DEF ResumeHandle
  <2>25. CASE ResumeEnd
    BY <2>25 DEF ResumeEnd
  <2>26. CASE CollectorExit
    BY <2>26 DEF CollectorExit
  <2>27. CASE TerminateCollector
    BY <2>27 DEF TerminateCollector
  <2>28. CASE AbortBegin
    BY <2>28 DEF AbortBegin
  <2>29. CASE AbortLock
    BY <2>29 DEF AbortLock
  <2>30. CASE AbortHandle
    BY <2>30 DEF AbortHandle
  <2>31. CASE AbortUnlock
    BY <2>31 DEF AbortUnlock
  <2>32. CASE AbortDone
    BY <2>32 DEF AbortDone
  <2>33. CASE Halted \/ UNCHANGED vars
    BY <2>33 DEF Halted, vars
  <2>34. QED
    BY <2>1, <2>2, <2>3, <2>4, <2>5, <2>6, <2>7, <2>8, <2>9, <2>10,
       <2>11, <2>12, <2>13, <2>14, <2>15, <2>16, <2>17, <2>18, <2>19,
       <2>20, <2>21, <2>22, <2>23, <2>24, <2>25, <2>26, <2>27, <2>28,
       <2>29, <2>30, <2>31, <2>32, <2>33
       DEF Next, ExecutorStep, Trap, Pause, Pausers, Collector, Shutdown
<1>3. QED
  BY <1>1, <1>2, PTL DEF Spec

LEMMA HandleStep ==
  ASSUME ~BufferedStores, ~EarlyCollection
  PROVE  RegistryInv /\ TypeOK' /\ [Next]_vars => HandleInv'
<1> SUFFICES ASSUME RegistryInv, TypeOK', [Next]_vars PROVE HandleInv'
  OBVIOUS
<1> USE RegistryAssumption
    DEF RegistryInv, TypeOK, HandleInv, ForkInv, TurnInv, ScanInv,
        NoStrayRequest, AllParked, Parked, States, Requests, ActivePcs,
        ParkedPcs, OutPcs, PauserPcs, Pausers, NoOne, NoStore, Goto, PGoto,
        Fence, SetState, handleVars, execVars, scanVars
<1>1. ASSUME NEW e \in Executors, TrapLoad(e) PROVE HandleInv'
  BY <1>1 DEF TrapLoad
<1>2. ASSUME NEW e \in Executors, TrapPause(e) PROVE HandleInv'
  BY <1>2 DEF TrapPause
<1>3. ASSUME NEW e \in Executors, TrapSpin(e) PROVE HandleInv'
  BY <1>3 DEF TrapSpin
<1>4. ASSUME NEW e \in Executors, TrapResume(e) PROVE HandleInv'
  BY <1>4 DEF TrapResume
<1>5. ASSUME NEW e \in Executors, TrapAbort(e) PROVE HandleInv'
  BY <1>5 DEF TrapAbort
<1>6. ASSUME NEW e \in Executors, Register(e) PROVE HandleInv'
  BY <1>6 DEF Register
<1>7. ASSUME NEW e \in Executors, Setup(e) PROVE HandleInv'
  BY <1>7 DEF Setup
<1>8. ASSUME NEW e \in Executors, SafePoint(e) PROVE HandleInv'
  BY <1>8 DEF SafePoint
<1>9. ASSUME NEW e \in Executors, Block(e) PROVE HandleInv'
  BY <1>9 DEF Block
<1>10. ASSUME NEW e \in Executors, Unblock(e) PROVE HandleInv'
  BY <1>10 DEF Unblock
<1>11. ASSUME NEW e \in Executors, ForkDone(e) PROVE HandleInv'
  BY <1>11 DEF ForkDone
<1>12. ASSUME NEW e \in Executors, Finish(e) PROVE HandleInv'
  BY <1>12 DEF Finish
<1>13. ASSUME NEW e \in Executors, Unregister(e) PROVE HandleInv'
  BY <1>13 DEF Unregister
<1>14. ASSUME NEW e \in Executors, Drain(e) PROVE HandleInv'
  BY <1>14 DEF Drain
<1>15. ASSUME NEW e \in Executors, NEW c \in Executors, Fork(e, c)
       PROVE  HandleInv'
  BY <1>15 DEF Fork
<1>16. ASSUME NEW p \in Pausers, PauseLock(p) PROVE HandleInv'
  BY <1>16 DEF PauseLock
<1>17. ASSUME NEW p \in Pausers, PauseRequest(p) PROVE HandleInv'
  BY <1>17 DEF PauseRequest
<1>18. ASSUME NEW p \in Pausers, PauseLoad(p) PROVE HandleInv'
  BY <1>18 DEF PauseLoad
<1>19. ASSUME NEW p \in Pausers, PausePassEnd(p) PROVE HandleInv'
  BY <1>19 DEF PausePassEnd
<1>20. ASSUME NEW p \in Pausers, PauseDone(p) PROVE HandleInv'
  BY <1>20 DEF PauseDone
<1>21. CASE CollectBegin
  BY <1>21 DEF CollectBegin
<1>22. CASE ResumeBegin
  BY <1>22 DEF ResumeBegin
<1>23. CASE ResumeLock
  BY <1>23 DEF ResumeLock
<1>24. CASE ResumeHandle
  BY <1>24 DEF ResumeHandle
<1>25. CASE ResumeEnd
  BY <1>25 DEF ResumeEnd
<1>26. CASE CollectorExit
  BY <1>26 DEF CollectorExit
<1>27. CASE TerminateCollector
  BY <1>27 DEF TerminateCollector
<1>28. CASE AbortBegin
  BY <1>28 DEF AbortBegin
<1>29. CASE AbortLock
  BY <1>29 DEF AbortLock
<1>30. CASE AbortHandle
  BY <1>30 DEF AbortHandle
<1>31. CASE AbortUnlock
  BY <1>31 DEF AbortUnlock
<1>32. CASE AbortDone
  BY <1>32 DEF AbortDone
<1>33. CASE Halted \/ UNCHANGED vars
  BY <1>33 DEF Halted, vars
<1>34. QED
  BY <1>1, <1>2, <1>3, <1>4, <1>5, <1>6, <1>7, <1>8, <1>9, <1>10,
     <1>11, <1>12, <1>13, <1>14, <1>15, <1>16, <1>17, <1>18, <1>19,
     <1>20, <1>21, <1>22, <1>23, <1>24, <1>25, <1>26, <1>27, <1>28,
     <1>29, <1>30, <1>31, <1>32, <1>33
     DEF Next, ExecutorStep, Trap, Pause, Pausers, Collector, Shutdown

LEMMA ForkStep ==
  ASSUME ~BufferedStores, ~EarlyCollection
  PROVE  RegistryInv /\ TypeOK' /\ [Next]_vars => ForkInv'
<1> SUFFICES ASSUME RegistryInv, TypeOK', [Next]_vars PROVE ForkInv'
  OBVIOUS
<1> USE RegistryAssumption
    DEF RegistryInv, TypeOK, HandleInv, ForkInv, TurnInv, ScanInv,
        NoStrayRequest, AllParked, Parked, States, Requests, ActivePcs,
        ParkedPcs, OutPcs, PauserPcs, Pausers, NoOne, NoStore, Goto, PGoto,
        Fence, SetState, handleVars, execVars, scanVars
<1>1. ASSUME NEW e \in Executors, TrapLoad(e) PROVE ForkInv'
  BY <1>1 DEF TrapLoad
<1>2. ASSUME NEW e \in Executors, TrapPause(e) PROVE ForkInv'
  BY <1>2 DEF TrapPause
<1>3. ASSUME NEW e \in Executors, TrapSpin(e) PROVE ForkInv'
  BY <1>3 DEF TrapSpin
<1>4. ASSUME NEW e \in Executors, TrapResume(e) PROVE ForkInv'
  BY <1>4 DEF TrapResume
<1>5. ASSUME NEW e \in Executors, TrapAbort(e) PROVE ForkInv'
  BY <1>5 DEF TrapAbort
<1>6. ASSUME NEW e \in Executors, Register(e) PROVE ForkInv'
  BY <1>6 DEF Register
<1>7. ASSUME NEW e \in Executors, Setup(e) PROVE ForkInv'
  BY <1>7 DEF Setup
<1>8. ASSUME NEW e \in Executors, SafePoint(e) PROVE ForkInv'
  BY <1>8 DEF SafePoint
<1>9. ASSUME NEW e \in Executors, Block(e) PROVE ForkInv'
  BY <1>9 DEF Block
<1>10. ASSUME NEW e \in Executors, Unblock(e) PROVE ForkInv'
  BY <1>10 DEF Unblock
<1>11. ASSUME NEW e \in Executors, ForkDone(e) PROVE ForkInv'
  BY <1>11 DEF ForkDone
<1>12. ASSUME NEW e \in Executors, Finish(e) PROVE ForkInv'
  BY <1>12 DEF Finish
<1>13. ASSUME NEW e \in Executors, Unregister(e) PROVE ForkInv'
  BY <1>13 DEF Unregister
<1>14. ASSUME NEW e \in Executors, Drain(e) PROVE ForkInv'
  BY <1>14 DEF Drain
<1>15. ASSUME NEW e \in Executors, NEW c \in Executors, Fork(e, c)
       PROVE  ForkInv'
  <2>1. pc[e] = "run" /\ pc[c] = "absent" /\ pc'[c] = "register"
        /\ pc'[e] = "forkWait" /\ kid'[e] = c /\ e # c
    BY <1>15 DEF Fork
  <2>2. ASSUME NEW x \in Executors, x # c, pc'[x] = "register"
        PROVE  x = Main \/ \E q \in Executors : pc'[q] = "forkWait" /\ kid'[q] = x
    <3>1. pc[x] = "register"
      BY <1>15, <2>1, <2>2 DEF Fork
    <3>2. CASE \E q \in Executors : pc[q] = "forkWait" /\ kid[q] = x
      <4>1. PICK q \in Executors : pc[q] = "forkWait" /\ kid[q] = x
        BY <3>2
      <4>2. pc'[q] = "forkWait" /\ kid'[q] = x
        BY <1>15, <2>1, <4>1 DEF Fork
      <4>3. QED
        BY <4>2
    <3>3. QED
      BY <3>1, <3>2
  <2>3. pc'[Main] = "register" => \A p \in Pausers : ppc'[p] = "idle"
    BY <1>15, <2>1 DEF Fork
  <2>4. QED
    BY <1>15, <2>1, <2>2, <2>3 DEF Fork
<1>16. ASSUME NEW p \in Pausers, PauseLock(p) PROVE ForkInv'
  BY <1>16 DEF PauseLock
<1>17. ASSUME NEW p \in Pausers, PauseRequest(p) PROVE ForkInv'
  BY <1>17 DEF PauseRequest
<1>18. ASSUME NEW p \in Pausers, PauseLoad(p) PROVE ForkInv'
  BY <1>18 DEF PauseLoad
<1>19. ASSUME NEW p \in Pausers, PausePassEnd(p) PROVE ForkInv'
  BY <1>19 DEF PausePassEnd
<1>20. ASSUME NEW p \in Pausers, PauseDone(p) PROVE ForkInv'
  BY <1>20 DEF PauseDone
<1>21. CASE CollectBegin
  BY <1>21 DEF CollectBegin
<1>22. CASE ResumeBegin
  BY <1>22 DEF ResumeBegin
<1>23. CASE ResumeLock
  BY <1>23 DEF ResumeLock
<1>24. CASE ResumeHandle
  BY <1>24 DEF ResumeHandle
<1>25. CASE ResumeEnd
  BY <1>25 DEF ResumeEnd
<1>26. CASE CollectorExit
  BY <1>26 DEF CollectorExit
<1>27. CASE TerminateCollector
  BY <1>27 DEF TerminateCollector
<1>28. CASE AbortBegin
  BY <1>28 DEF AbortBegin
<1>29. CASE AbortLock
  BY <1>29 DEF AbortLock
<1>30. CASE AbortHandle
  BY <1>30 DEF AbortHandle
<1>31. CASE AbortUnlock
  BY <1>31 DEF AbortUnlock
<1>32. CASE AbortDone
  BY <1>32 DEF AbortDone
<1>33. CASE Halted \/ UNCHANGED vars
  BY <1>33 DEF Halted, vars
<1>34. QED
  BY <1>1, <1>2, <1>3, <1>4, <1>5, <1>6, <1>7, <1>8, <1>9, <1>10,
     <1>11, <1>12, <1>13, <1>14, <1>15, <1>16, <1>17, <1>18, <1>19,
     <1>20, <1>21, <1>22, <1>23, <1>24, <1>25, <1>26, <1>27, <1>28,
     <1>29, <1>30, <1>31, <1>32, <1>33
     DEF Next, ExecutorStep, Trap, Pause, Pausers, Collector, Shutdown

LEMMA TurnStep ==
  ASSUME ~BufferedStores, ~EarlyCollection
  PROVE  RegistryInv /\ TypeOK' /\ [Next]_vars => TurnInv'
<1> SUFFICES ASSUME RegistryInv, TypeOK', [Next]_vars PROVE TurnInv'
  OBVIOUS
<1> USE RegistryAssumption
    DEF RegistryInv, TypeOK, HandleInv, ForkInv, TurnInv, ScanInv,
        NoStrayRequest, AllParked, Parked, States, Requests, ActivePcs,
        ParkedPcs, OutPcs, PauserPcs, Pausers, NoOne, NoStore, Goto, PGoto,
        Fence, SetState, handleVars, execVars, scanVars
<1>1. ASSUME NEW e \in Executors, TrapLoad(e) PROVE TurnInv'
  BY <1>1 DEF TrapLoad
<1>2. ASSUME NEW e \in Executors, TrapPause(e) PROVE TurnInv'
  BY <1>2 DEF TrapPause
<1>3. ASSUME NEW e \in Executors, TrapSpin(e) PROVE TurnInv'
  BY <1>3 DEF TrapSpin
<1>4. ASSUME NEW e \in Executors, TrapResume(e) PROVE TurnInv'
  BY <1>4 DEF TrapResume
<1>5. ASSUME NEW e \in Executors, TrapAbort(e) PROVE TurnInv'
  BY <1>5 DEF TrapAbort
<1>6. ASSUME NEW e \in Executors, Register(e) PROVE TurnInv'
  BY <1>6 DEF Register
<1>7. ASSUME NEW e \in Executors, Setup(e) PROVE TurnInv'
  BY <1>7 DEF Setup
<1>8. ASSUME NEW e \in Executors, SafePoint(e) PROVE TurnInv'
  BY <1>8 DEF SafePoint
<1>9. ASSUME NEW e \in Executors, Block(e) PROVE TurnInv'
  BY <1>9 DEF Block
<1>10. ASSUME NEW e \in Executors, Unblock(e) PROVE TurnInv'
  BY <1>10 DEF Unblock
<1>11. ASSUME NEW e \in Executors, ForkDone(e) PROVE TurnInv'
  BY <1>11 DEF ForkDone
<1>12. ASSUME NEW e \in Executors, Finish(e) PROVE TurnInv'
  BY <1>12 DEF Finish
<1>13. ASSUME NEW e \in Executors, Unregister(e) PROVE TurnInv'
  BY <1>13 DEF Unregister
<1>14. ASSUME NEW e \in Executors, Drain(e) PROVE TurnInv'
  BY <1>14 DEF Drain
<1>15. ASSUME NEW e \in Executors, NEW c \in Executors, Fork(e, c)
       PROVE  TurnInv'
  BY <1>15 DEF Fork
<1>16. ASSUME NEW p \in Pausers, PauseLock(p) PROVE TurnInv'
  BY <1>16 DEF PauseLock
<1>17. ASSUME NEW p \in Pausers, PauseRequest(p) PROVE TurnInv'
  BY <1>17 DEF PauseRequest
<1>18. ASSUME NEW p \in Pausers, PauseLoad(p) PROVE TurnInv'
  BY <1>18 DEF PauseLoad
<1>19. ASSUME NEW p \in Pausers, PausePassEnd(p) PROVE TurnInv'
  BY <1>19 DEF PausePassEnd
<1>20. ASSUME NEW p \in Pausers, PauseDone(p) PROVE TurnInv'
  BY <1>20 DEF PauseDone
<1>21. CASE CollectBegin
  BY <1>21 DEF CollectBegin
<1>22. CASE ResumeBegin
  BY <1>22 DEF ResumeBegin
<1>23. CASE ResumeLock
  BY <1>23 DEF ResumeLock
<1>24. CASE ResumeHandle
  BY <1>24 DEF ResumeHandle
<1>25. CASE ResumeEnd
  BY <1>25 DEF ResumeEnd
<1>26. CASE CollectorExit
  BY <1>26 DEF CollectorExit
<1>27. CASE TerminateCollector
  BY <1>27 DEF TerminateCollector
<1>28. CASE AbortBegin
  BY <1>28 DEF AbortBegin
<1>29. CASE AbortLock
  BY <1>29 DEF AbortLock
<1>30. CASE AbortHandle
  BY <1>30 DEF AbortHandle
<1>31. CASE AbortUnlock
  BY <1>31 DEF AbortUnlock
<1>32. CASE AbortDone
  BY <1>32 DEF AbortDone
<1>33. CASE Halted \/ UNCHANGED vars
  BY <1>33 DEF Halted, vars
<1>34. QED
  BY <1>1, <1>2, <1>3, <1>4, <1>5, <1>6, <1>7, <1>8, <1>9, <1>10,
     <1>11, <1>12, <1>13, <1>14, <1>15, <1>16, <1>17, <1>18, <1>19,
     <1>20, <1>21, <1>22, <1>23, <1>24, <1>25, <1>26, <1>27, <1>28,
     <1>29, <1>30, <1>31, <1>32, <1>33
     DEF Next, ExecutorStep, Trap, Pause, Pausers, Collector, Shutdown

LEMMA ScanStep ==
  ASSUME ~BufferedStores, ~EarlyCollection
  PROVE  RegistryInv /\ TypeOK' /\ [Next]_vars => ScanInv'
<1> SUFFICES ASSUME RegistryInv, TypeOK', [Next]_vars PROVE ScanInv'
  OBVIOUS
<1> USE RegistryAssumption
    DEF RegistryInv, TypeOK, HandleInv, ForkInv, TurnInv, ScanInv,
        NoStrayRequest, AllParked, Parked, States, Requests, ActivePcs,
        ParkedPcs, OutPcs, PauserPcs, Pausers, NoOne, NoStore, Goto, PGoto,
        Fence, SetState, handleVars, execVars, scanVars
<1>1. ASSUME NEW e \in Executors, TrapLoad(e) PROVE ScanInv'
  BY <1>1 DEF TrapLoad
<1>2. ASSUME NEW e \in Executors, TrapPause(e) PROVE ScanInv'
  BY <1>2 DEF TrapPause
<1>3. ASSUME NEW e \in Executors, TrapSpin(e) PROVE ScanInv'
  BY <1>3 DEF TrapSpin
<1>4. ASSUME NEW e \in Executors, TrapResume(e) PROVE ScanInv'
  BY <1>4 DEF TrapResume
<1>5. ASSUME NEW e \in Executors, TrapAbort(e) PROVE ScanInv'
  BY <1>5 DEF TrapAbort
<1>6. ASSUME NEW e \in Executors, Register(e) PROVE ScanInv'
  BY <1>6 DEF Register
<1>7. ASSUME NEW e \in Executors, Setup(e) PROVE ScanInv'
  BY <1>7 DEF Setup
<1>8. ASSUME NEW e \in Executors, SafePoint(e) PROVE ScanInv'
  BY <1>8 DEF SafePoint
<1>9. ASSUME NEW e \in Executors, Block(e) PROVE ScanInv'
  BY <1>9 DEF Block
<1>10. ASSUME NEW e \in Executors, Unblock(e) PROVE ScanInv'
  BY <1>10 DEF Unblock
<1>11. ASSUME NEW e \in Executors, ForkDone(e) PROVE ScanInv'
  BY <1>11 DEF ForkDone
<1>12. ASSUME NEW e \in Executors, Finish(e) PROVE ScanInv'
  BY <1>12 DEF Finish
<1>13. ASSUME NEW e \in Executors, Unregister(e) PROVE ScanInv'
  BY <1>13 DEF Unregister
<1>14. ASSUME NEW e \in Executors, Drain(e) PROVE ScanInv'
  BY <1>14 DEF Drain
<1>15. ASSUME NEW e \in Executors, NEW c \in Executors, Fork(e, c)
       PROVE  ScanInv'
  BY <1>15 DEF Fork
<1>16. ASSUME NEW p \in Pausers, PauseLock(p) PROVE ScanInv'
  BY <1>16 DEF PauseLock
<1>17. ASSUME NEW p \in Pausers, PauseRequest(p) PROVE ScanInv'
  BY <1>17 DEF PauseRequest
<1>18. ASSUME NEW p \in Pausers, PauseLoad(p) PROVE ScanInv'
  BY <1>18 DEF PauseLoad
<1>19. ASSUME NEW p \in Pausers, PausePassEnd(p) PROVE ScanInv'
  BY <1>19 DEF PausePassEnd
<1>20. ASSUME NEW p \in Pausers, PauseDone(p) PROVE ScanInv'
  BY <1>20 DEF PauseDone
<1>21. CASE CollectBegin
  BY <1>21 DEF CollectBegin
<1>22. CASE ResumeBegin
  BY <1>22 DEF ResumeBegin
<1>23. CASE ResumeLock
  BY <1>23 DEF ResumeLock
<1>24. CASE ResumeHandle
  BY <1>24 DEF ResumeHandle
<1>25. CASE ResumeEnd
  BY <1>25 DEF ResumeEnd
<1>26. CASE CollectorExit
  BY <1>26 DEF CollectorExit
<1>27. CASE TerminateCollector
  BY <1>27 DEF TerminateCollector
<1>28. CASE AbortBegin
  BY <1>28 DEF AbortBegin
<1>29. CASE AbortLock
  BY <1>29 DEF AbortLock
<1>30. CASE AbortHandle
  BY <1>30 DEF AbortHandle
<1>31. CASE AbortUnlock
  BY <1>31 DEF AbortUnlock
<1>32. CASE AbortDone
  BY <1>32 DEF AbortDone
<1>33. CASE Halted \/ UNCHANGED vars
  BY <1>33 DEF Halted, vars
<1>34. QED
  BY <1>1, <1>2, <1>3, <1>4, <1>5, <1>6, <1>7, <1>8, <1>9, <1>10,
     <1>11, <1>12, <1>13, <1>14, <1>15, <1>16, <1>17, <1>18, <1>19,
     <1>20, <1>21, <1>22, <1>23, <1>24, <1>25, <1>26, <1>27, <1>28,
     <1>29, <1>30, <1>31, <1>32, <1>33
     DEF Next, ExecutorStep, Trap, Pause, Pausers, Collector, Shutdown

LEMMA NoStrayRequestStep ==
  ASSUME ~BufferedStores, ~EarlyCollection
  PROVE  RegistryInv /\ TypeOK' /\ [Next]_vars => NoStrayRequest'
<1> SUFFICES ASSUME RegistryInv, TypeOK', [Next]_vars PROVE NoStrayRequest'
  OBVIOUS
<1> USE RegistryAssumption
    DEF RegistryInv, TypeOK, HandleInv, ForkInv, TurnInv, ScanInv,
        NoStrayRequest, AllParked, Parked, States, Requests, ActivePcs,
        ParkedPcs, OutPcs, PauserPcs, Pausers, NoOne, NoStore, Goto, PGoto,
        Fence, SetState, handleVars, execVars, scanVars
<1>1. ASSUME NEW e \in Executors, TrapLoad(e) PROVE NoStrayRequest'
  BY <1>1 DEF TrapLoad
<1>2. ASSUME NEW e \in Executors, TrapPause(e) PROVE NoStrayRequest'
  BY <1>2 DEF TrapPause
<1>3. ASSUME NEW e \in Executors, TrapSpin(e) PROVE NoStrayRequest'
  BY <1>3 DEF TrapSpin
<1>4. ASSUME NEW e \in Executors, TrapResume(e) PROVE NoStrayRequest'
  BY <1>4 DEF TrapResume
<1>5. ASSUME NEW e \in Executors, TrapAbort(e) PROVE NoStrayRequest'
  BY <1>5 DEF TrapAbort
<1>6. ASSUME NEW e \in Executors, Register(e) PROVE NoStrayRequest'
  BY <1>6 DEF Register
<1>7. ASSUME NEW e \in Executors, Setup(e) PROVE NoStrayRequest'
  BY <1>7 DEF Setup
<1>8. ASSUME NEW e \in Executors, SafePoint(e) PROVE NoStrayRequest'
  BY <1>8 DEF SafePoint
<1>9. ASSUME NEW e \in Executors, Block(e) PROVE NoStrayRequest'
  BY <1>9 DEF Block
<1>10. ASSUME NEW e \in Executors, Unblock(e) PROVE NoStrayRequest'
  BY <1>10 DEF Unblock
<1>11. ASSUME NEW e \in Executors, ForkDone(e) PROVE NoStrayRequest'
  BY <1>11 DEF ForkDone
<1>12. ASSUME NEW e \in Executors, Finish(e) PROVE NoStrayRequest'
  BY <1>12 DEF Finish
<1>13. ASSUME NEW e \in Executors, Unregister(e) PROVE NoStrayRequest'
  BY <1>13 DEF Unregister
<1>14. ASSUME NEW e \in Executors, Drain(e) PROVE NoStrayRequest'
  BY <1>14 DEF Drain
<1>15. ASSUME NEW e \in Executors, NEW c \in Executors, Fork(e, c)
       PROVE  NoStrayRequest'
  BY <1>15 DEF Fork
<1>16. ASSUME NEW p \in Pausers, PauseLock(p) PROVE NoStrayRequest'
  BY <1>16 DEF PauseLock
<1>17. ASSUME NEW p \in Pausers, PauseRequest(p) PROVE NoStrayRequest'
  BY <1>17 DEF PauseRequest
<1>18. ASSUME NEW p \in Pausers, PauseLoad(p) PROVE NoStrayRequest'
  BY <1>18 DEF PauseLoad
<1>19. ASSUME NEW p \in Pausers, PausePassEnd(p) PROVE NoStrayRequest'
  BY <1>19 DEF PausePassEnd
<1>20. ASSUME NEW p \in Pausers, PauseDone(p) PROVE NoStrayRequest'
  BY <1>20 DEF PauseDone
<1>21. CASE CollectBegin
  BY <1>21 DEF CollectBegin
<1>22. CASE ResumeBegin
  BY <1>22 DEF ResumeBegin
<1>23. CASE ResumeLock
  BY <1>23 DEF ResumeLock
<1>24. CASE ResumeHandle
  BY <1>24 DEF ResumeHandle
<1>25. CASE ResumeEnd
  BY <1>25 DEF ResumeEnd
<1>26. CASE CollectorExit
  BY <1>26 DEF CollectorExit
<1>27. CASE TerminateCollector
  BY <1>27 DEF TerminateCollector
<1>28. CASE AbortBegin
  BY <1>28 DEF AbortBegin
<1>29. CASE AbortLock
  BY <1>29 DEF AbortLock
<1>30. CASE AbortHandle
  BY <1>30 DEF AbortHandle
<1>31. CASE AbortUnlock
  BY <1>31 DEF AbortUnlock
<1>32. CASE AbortDone
  BY <1>32 DEF AbortDone
<1>33. CASE Halted \/ UNCHANGED vars
  BY <1>33 DEF Halted, vars
<1>34. QED
  BY <1>1, <1>2, <1>3, <1>4, <1>5, <1>6, <1>7, <1>8, <1>9, <1>10,
     <1>11, <1>12, <1>13, <1>14, <1>15, <1>16, <1>17, <1>18, <1>19,
     <1>20, <1>21, <1>22, <1>23, <1>24, <1>25, <1>26, <1>27, <1>28,
     <1>29, <1>30, <1>31, <1>32, <1>33
     DEF Next, ExecutorStep, Trap, Pause, Pausers, Collector, Shutdown

\* The invariant of the registry holds in every state the threads can reach,
\* on a machine that does not delay stores.
THEOREM Inductive ==
  ASSUME ~BufferedStores, ~EarlyCollection
  PROVE  Spec => []RegistryInv
<1>1. Init => RegistryInv
  <2> SUFFICES ASSUME Init PROVE RegistryInv
    OBVIOUS
  <2> USE RegistryAssumption
      DEF Init, ActivePcs, ParkedPcs, OutPcs, PauserPcs, Pausers, NoOne, NoStore
  <2>1. TypeOK /\ NoStrayRequest
    BY DEF TypeOK, NoStrayRequest, States, Requests
  <2>2. HandleInv /\ ForkInv
    BY DEF HandleInv, ForkInv
  <2>3. TurnInv /\ ScanInv
    BY DEF TurnInv, ScanInv
  <2>4. QED
    BY <2>1, <2>2, <2>3 DEF RegistryInv
<1>2. RegistryInv /\ TypeOK' /\ [Next]_vars => RegistryInv'
  BY HandleStep, ForkStep, TurnStep, ScanStep, NoStrayRequestStep
     DEF RegistryInv
<1>3. QED
  BY <1>1, <1>2, TypeCorrect, PTL DEF Spec

\* While the registry is paused or aborted no executor touches shared memory:
\* the guarantee collect() and run() rely on.
THEOREM WorldStoppedHolds ==
  ASSUME ~BufferedStores, ~EarlyCollection
  PROVE  Spec => []WorldStopped
<1>1. RegistryInv => WorldStopped
  BY DEF RegistryInv, TypeOK, TurnInv, ScanInv, AllParked, Parked,
         WorldStopped, ActivePcs, ParkedPcs, OutPcs, Pausers
<1>2. QED
  BY <1>1, Inductive, PTL

\* While the collector marks it sees the stack of every executor that can
\* continue.
THEOREM AllStacksVisibleHolds ==
  ASSUME ~BufferedStores, ~EarlyCollection
  PROVE  Spec => []AllStacksVisible
<1>1. RegistryInv => AllStacksVisible
  BY DEF RegistryInv, TypeOK, HandleInv, TurnInv, ScanInv, AllParked, Parked,
         AllStacksVisible, ActivePcs, ParkedPcs, OutPcs, Pausers
<1>2. QED
  BY <1>1, Inductive, PTL

\* No assert of the registry or of resume() fails.
THEOREM AssertsHold ==
  ASSUME ~BufferedStores, ~EarlyCollection
  PROVE  Spec => []RegistryAsserts
<1>1. RegistryInv => WorldStopped
  BY DEF RegistryInv, TypeOK, TurnInv, ScanInv, AllParked, Parked,
         WorldStopped, ActivePcs, ParkedPcs, OutPcs, Pausers
<1>2. WorldStopped => RegisterAsserts
  BY DEF WorldStopped, RegisterAsserts, ActivePcs
<1>3. RegistryInv => RegistryAsserts
  BY <1>1, <1>2 DEF RegistryInv, TypeOK, TurnInv, ScanInv, Parked,
     RegistryAsserts, Pausers
<1>4. QED
  BY <1>3, Inductive, PTL

\* A pause request never outlives the collection that placed it.
THEOREM NoStrayRequestHolds ==
  ASSUME ~BufferedStores, ~EarlyCollection
  PROVE  Spec => []NoStrayRequest
<1>1. RegistryInv => NoStrayRequest
  BY DEF RegistryInv
<1>2. QED
  BY <1>1, Inductive, PTL

\* The list of executors does not change while the collector walks it
\* without the mutex.
THEOREM ListStableHolds ==
  ASSUME ~BufferedStores, ~EarlyCollection
  PROVE  Spec => ListStable
<1>1. RegistryInv /\ [Next]_vars
        => [ppc["collector"] = "stopped" => UNCHANGED registered]_vars
  <2> SUFFICES ASSUME RegistryInv, [Next]_vars, ppc["collector"] = "stopped"
               PROVE  UNCHANGED registered
    OBVIOUS
  <2>1. \A e \in Executors : pc[e] \notin ActivePcs
    BY DEF RegistryInv, TypeOK, ScanInv, AllParked, Parked, ActivePcs,
           ParkedPcs, OutPcs, Pausers
  <2>2. ppc["vm"] \in {"idle", "terminating"}
    BY DEF RegistryInv, TurnInv
  <2>3. QED
    BY <2>1, <2>2
       DEF Next, ExecutorStep, Trap, Collector, Shutdown, Pause, vars,
           ActivePcs, TrapLoad, TrapPause, TrapSpin, TrapResume, TrapAbort,
           Register, Setup, SafePoint, Block, Unblock, ForkDone, Finish,
           Unregister, Drain, Fork, PauseLock, PauseRequest, PauseLoad,
           PausePassEnd, PauseDone, CollectBegin, ResumeBegin, ResumeLock,
           ResumeHandle, ResumeEnd, CollectorExit, TerminateCollector,
           AbortBegin, AbortLock, AbortHandle, AbortUnlock, AbortDone, Halted
<1>2. QED
  BY <1>1, Inductive, PTL DEF Spec, ListStable

\* Moving one executor's program counter moves its abstract mode.
LEMMA ModeMove ==
  ASSUME pc \in [Executors -> ActivePcs \cup ParkedPcs \cup OutPcs],
         NEW e \in Executors, NEW l, Goto(e, l)
  PROVE  [x \in Executors |-> ModeOf(pc[x])]'
           = [[x \in Executors |-> ModeOf(pc[x])] EXCEPT ![e] = ModeOf(l)]
BY DEF Goto

LEMMA ModeValues ==
  /\ \A l \in ActivePcs : ModeOf(l) = "active"
  /\ \A l \in ParkedPcs : ModeOf(l) = "parked"
  /\ ModeOf("absent") = "absent"
  /\ ModeOf("exited") = "gone"
  /\ ModeOf("aborted") = "gone"
BY DEF ModeOf, ActivePcs, ParkedPcs

\* The registry implements StopTheWorld: every step of a thread is a step of
\* the abstract protocol or leaves it unchanged.
THEOREM Refinement ==
  ASSUME ~BufferedStores, ~EarlyCollection
  PROVE  Spec => ImplementsWorld
<1> DEFINE mode == [x \in Executors |-> ModeOf(pc[x])]
<1>1. Init => World!WorldInit
  BY ModeValues, RegistryAssumption
     DEF Init, World!WorldInit, ActivePcs
<1>2. RegistryInv /\ [Next]_vars => [World!WorldNext]_(World!worldVars)
  <2> SUFFICES ASSUME RegistryInv, [Next]_vars
               PROVE  World!WorldNext \/ UNCHANGED <<regState, mode>>
    BY DEF World!worldVars
  <2>t. pc \in [Executors -> ActivePcs \cup ParkedPcs \cup OutPcs]
    BY DEF RegistryInv, TypeOK
  <2>a. ASSUME NEW e \in Executors, NEW l, Goto(e, l), UNCHANGED regState,
               \/ pc[e] \in ActivePcs /\ l \in ActivePcs
               \/ pc[e] \in ParkedPcs /\ l \in ParkedPcs
        PROVE  UNCHANGED <<regState, mode>>
    BY <2>t, <2>a, ModeMove, ModeValues
  <2>b. ASSUME NEW e \in Executors, NEW l, Goto(e, l), UNCHANGED regState,
               pc[e] \in ActivePcs, l \in ParkedPcs
        PROVE  World!WorldNext
    <3>1. World!WorldPark(e)
      BY <2>t, <2>b, ModeMove, ModeValues DEF World!WorldPark
    <3>2. QED
      BY <3>1 DEF World!WorldNext
  <2>1. ASSUME NEW e \in Executors, TrapLoad(e)
        PROVE  World!WorldNext \/ UNCHANGED <<regState, mode>>
    <3>1. CASE Goto(e, "trapPause") \/ Goto(e, "trapAbort")
      BY <3>1, <2>1, <2>a DEF TrapLoad, ParkedPcs
    <3>2. CASE request[e] = "None" /\ Goto(e, "run")
      <4>1. regState = "Running"
        BY <3>2, <2>1 DEF TrapLoad, RegistryInv, TypeOK, TurnInv, ScanInv,
                          AllParked, Parked, OutPcs, Pausers
      <4>2. World!WorldUnpark(e)
        BY <2>t, <2>1, <3>2, <4>1, ModeMove, ModeValues
           DEF TrapLoad, World!WorldUnpark, ActivePcs, ParkedPcs
      <4>3. QED
        BY <4>2 DEF World!WorldNext
    <3>3. QED
      BY <2>1, <3>1, <3>2 DEF TrapLoad
  <2>2. ASSUME NEW e \in Executors, TrapPause(e) \/ TrapSpin(e) \/ TrapResume(e)
        PROVE  UNCHANGED <<regState, mode>>
    BY <2>2, <2>a DEF TrapPause, TrapSpin, TrapResume, ParkedPcs
  <2>3. ASSUME NEW e \in Executors, TrapAbort(e) PROVE World!WorldNext
    <3>1. regState # "Running"
      BY <2>3 DEF TrapAbort, RegistryInv, TypeOK, HandleInv, TurnInv
    <3>2. World!WorldUnwind(e)
      BY <2>t, <2>3, <3>1, ModeMove, ModeValues
         DEF TrapAbort, World!WorldUnwind, ParkedPcs
    <3>3. QED
      BY <3>2 DEF World!WorldNext
  <2>4. ASSUME NEW e \in Executors,
               Register(e) \/ ForkDone(e) \/ Finish(e) \/ Unblock(e)
        PROVE  UNCHANGED <<regState, mode>>
    BY <2>4, <2>a
       DEF Register, ForkDone, Finish, Unblock, ActivePcs, ParkedPcs
  <2>5. ASSUME NEW e \in Executors, Setup(e) \/ SafePoint(e) \/ Block(e)
        PROVE  World!WorldNext
    BY <2>5, <2>b DEF Setup, SafePoint, Block, ActivePcs, ParkedPcs
  <2>6. ASSUME NEW e \in Executors, Unregister(e) PROVE World!WorldNext
    <3>1. World!WorldExit(e)
      BY <2>t, <2>6, ModeMove, ModeValues
         DEF Unregister, World!WorldExit, ActivePcs
    <3>2. QED
      BY <3>1 DEF World!WorldNext
  <2>7. ASSUME NEW e \in Executors, NEW c \in Executors, Fork(e, c)
        PROVE  World!WorldNext
    <3>1. World!WorldFork(e, c)
      BY <2>t, <2>7, ModeValues DEF Fork, World!WorldFork, ActivePcs
    <3>2. QED
      BY <3>1 DEF World!WorldNext
  <2>8. ASSUME NEW p \in Pausers, PauseDone(p) PROVE World!WorldNext
    <3>1. regState = "Running" /\ \A e \in Executors : pc[e] \notin ActivePcs
      BY <2>8 DEF PauseDone, RegistryInv, TypeOK, TurnInv, ScanInv, AllParked,
                  Parked, ActivePcs, ParkedPcs, OutPcs, Pausers
    <3>2. \A e \in Executors : ModeOf(pc[e]) # "active"
      BY <2>t, <3>1, ModeValues DEF OutPcs
    <3>3. World!WorldStop
      BY <2>8, <3>1, <3>2 DEF PauseDone, World!WorldStop, execVars
    <3>4. QED
      BY <3>3 DEF World!WorldNext
  <2>9. CASE ResumeBegin
    <3>1. World!WorldResume
      BY <2>9 DEF ResumeBegin, World!WorldResume, RegistryInv, TurnInv, execVars
    <3>2. QED
      BY <3>1 DEF World!WorldNext
  <2>10. CASE AbortDone
    <3>1. World!WorldAbort
      BY <2>10 DEF AbortDone, World!WorldAbort, RegistryInv, TurnInv, execVars
    <3>2. QED
      BY <3>1 DEF World!WorldNext
  <2>11. ASSUME NEW p \in Pausers,
                \/ PauseLock(p) \/ PauseRequest(p) \/ PauseLoad(p)
                \/ PausePassEnd(p)
         PROVE  UNCHANGED <<regState, mode>>
    BY <2>11 DEF PauseLock, PauseRequest, PauseLoad, PausePassEnd, execVars
  <2>12. CASE \/ CollectBegin \/ ResumeLock \/ ResumeHandle \/ ResumeEnd
              \/ CollectorExit \/ TerminateCollector \/ AbortBegin
              \/ AbortLock \/ AbortHandle \/ AbortUnlock \/ Halted
              \/ UNCHANGED vars \/ \E e \in Executors : Drain(e)
    BY <2>12 DEF CollectBegin, ResumeLock, ResumeHandle, ResumeEnd,
                 CollectorExit, TerminateCollector, AbortBegin, AbortLock,
                 AbortHandle, AbortUnlock, Halted, Drain, vars, execVars
  <2>13. QED
    BY <2>1, <2>2, <2>3, <2>4, <2>5, <2>6, <2>7, <2>8, <2>9, <2>10, <2>11,
       <2>12
       DEF Next, ExecutorStep, Trap, Pause, Pausers, Collector, Shutdown
<1>3. QED
  BY <1>1, <1>2, Inductive, PTL DEF Spec, ImplementsWorld, World!WorldSpec
=============================================================================
