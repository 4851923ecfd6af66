------------------------- MODULE WorkerProtocolProofs -------------------------
(***************************************************************************)
(* Proofs about WorkerProtocol for every set of entry points, with and     *)
(* without userfaultfd, and with a worker that may die at any moment.      *)
(***************************************************************************)
EXTENDS WorkerProtocol, TLAPS

(* The initial state: no worker process exists. *)
LEMMA InitCoordination == Init => TypeOK /\ Coordination
BY DEF Init, TypeOK, FutexStates, GuestReplies, Entries, HostPcs, WorkerPcs,
       Coordination, Published

(* Every action keeps every variable in its type. *)
LEMMA TypeStep == TypeOK /\ Coordination /\ [Next]_vars => TypeOK'
<1> SUFFICES ASSUME TypeOK, Coordination, [Next]_vars PROVE TypeOK'
  OBVIOUS
<1> USE DEF TypeOK, FutexStates, GuestReplies, Entries, HostPcs, WorkerPcs,
            WakeWorker, WakeHost, ReceiveReply, hostVars, workerVars
<1>1. CASE SpawnNewWorker
  BY <1>1 DEF SpawnNewWorker
<1>2. CASE HostAwaitBoot
  BY <1>2 DEF HostAwaitBoot, WaitForFutex
<1>3. CASE HostAwaitInit
  BY <1>3 DEF HostAwaitInit, WaitForFutex
<1>4. CASE HostInitStore
  BY <1>4 DEF HostInitStore
<1>5. CASE HostInitWake
  BY <1>5 DEF HostInitWake
<1>6. CASE HostRecvFd
  BY <1>6 DEF HostRecvFd
<1>7. CASE HostExitLowLatency
  BY <1>7 DEF HostExitLowLatency
<1>8. CASE HostLongjumpSpin
  <2>1. call \in Entries
    BY <1>8 DEF HostLongjumpSpin, Coordination
  <2>2. low_latency' \in BOOLEAN
    BY <1>8, Zenon DEF HostLongjumpSpin
  <2>3. jump_into' \in Entries \cup {"none"}
    BY <1>8, <2>1 DEF HostLongjumpSpin
  <2>4. QED
    BY <1>8, <2>2, <2>3 DEF HostLongjumpSpin
<1>9. CASE HostStore
  BY <1>9 DEF HostStore
<1>10. CASE HostWake
  BY <1>10 DEF HostWake
<1>11. CASE HostSpin
  BY <1>11 DEF HostSpin
<1>12. CASE HostWait
  <2>1. low_latency' \in BOOLEAN
    BY <1>12, Zenon DEF HostWait
  <2>2. QED
    BY <1>12, <2>1 DEF HostWait
<1>13. CASE HostFutexWait
  BY <1>13 DEF HostFutexWait
<1>14. CASE HostTimeout
  BY <1>14 DEF HostTimeout
<1>15. CASE HostInterrupted
  BY <1>15 DEF HostInterrupted
<1>16. CASE HostCheckStatus
  BY <1>16 DEF HostCheckStatus
<1>17. CASE SpawnCached
  BY <1>17 DEF SpawnCached
<1>18. CASE HostDrop
  BY <1>18 DEF HostDrop
<1>19. CASE HostResume
  <2>1. low_latency' \in BOOLEAN
    BY <1>19, Zenon DEF HostResume
  <2>2. QED
    BY <1>19, <2>1 DEF HostResume
<1>20. CASE HostEnter
  BY <1>20 DEF HostEnter
<1>21. CASE WorkerBoot
  BY <1>21 DEF WorkerBoot
<1>22. CASE WorkerInitialize
  BY <1>22 DEF WorkerInitialize
<1>23. CASE WorkerInitDone
  BY <1>23 DEF WorkerInitDone
<1>24. CASE WorkerLoad
  BY <1>24 DEF WorkerLoad
<1>25. CASE WorkerFutexWait
  BY <1>25 DEF WorkerFutexWait
<1>26. CASE WorkerInterrupted
  BY <1>26 DEF WorkerInterrupted
<1>27. CASE WorkerJump
  BY <1>27 DEF WorkerJump
<1>28. CASE WorkerSignalHost
  BY <1>28 DEF WorkerSignalHost
<1>29. CASE GuestEcalli
  BY <1>29 DEF GuestEcalli
<1>30. CASE GuestEcalliSpin
  BY <1>30 DEF GuestEcalliSpin
<1>31. CASE WorkerAbortHostcall
  BY <1>31 DEF WorkerAbortHostcall
<1>32. CASE WorkerDies
  BY <1>32 DEF WorkerDies
<1>33. ASSUME NEW entry \in Oneshots \cup {"ext_recycle"}, HostOneshot(entry)
       PROVE  TypeOK'
  BY <1>33 DEF HostOneshot
<1>34. ASSUME NEW value \in GuestReplies, WorkerReply(value)
       PROVE  TypeOK'
  BY <1>34 DEF WorkerReply
<1>35. CASE UNCHANGED vars
  BY <1>35 DEF vars
<1>36. QED
  BY <1>1, <1>2, <1>3, <1>4, <1>5, <1>6, <1>7, <1>8, <1>9, <1>10, <1>11,
     <1>12, <1>13, <1>14, <1>15, <1>16, <1>17, <1>18, <1>19, <1>20, <1>21,
     <1>22, <1>23, <1>24, <1>25, <1>26, <1>27, <1>28, <1>29, <1>30, <1>31,
     <1>32, <1>33, <1>34, <1>35
     DEF Next, HostProgress, HostCalls, WorkerProgress

(* Every action preserves the coordination of the two processes. *)
LEMMA CoordinationStep == TypeOK /\ Coordination /\ [Next]_vars => Coordination'
<1> SUFFICES ASSUME TypeOK, Coordination, [Next]_vars PROVE Coordination'
  OBVIOUS
<1> USE OneshotsAssumption
    DEF TypeOK, FutexStates, GuestReplies, Entries, HostPcs, WorkerPcs,
        WakeWorker, WakeHost, ReceiveReply, hostVars, workerVars,
        Coordination, Published, Booting, Waiting, Quiet, Calling
<1>1. CASE SpawnNewWorker
  BY <1>1 DEF SpawnNewWorker
<1>2. CASE HostAwaitBoot
  BY <1>2 DEF HostAwaitBoot, WaitForFutex
<1>3. CASE HostAwaitInit
  BY <1>3 DEF HostAwaitInit, WaitForFutex
<1>4. CASE HostInitStore
  BY <1>4 DEF HostInitStore
<1>5. CASE HostInitWake
  BY <1>5 DEF HostInitWake
<1>6. CASE HostRecvFd
  BY <1>6 DEF HostRecvFd
<1>7. CASE HostExitLowLatency
  BY <1>7 DEF HostExitLowLatency
<1>8. CASE HostLongjumpSpin
  BY <1>8 DEF HostLongjumpSpin
<1>9. CASE HostStore
  BY <1>9 DEF HostStore
<1>10. CASE HostWake
  BY <1>10 DEF HostWake
<1>11. CASE HostSpin
  BY <1>11 DEF HostSpin
<1>12. CASE HostWait
  BY <1>12 DEF HostWait
<1>13. CASE HostFutexWait
  BY <1>13 DEF HostFutexWait
<1>14. CASE HostTimeout
  BY <1>14 DEF HostTimeout
<1>15. CASE HostInterrupted
  BY <1>15 DEF HostInterrupted
<1>16. CASE HostCheckStatus
  BY <1>16 DEF HostCheckStatus
<1>17. CASE SpawnCached
  BY <1>17 DEF SpawnCached
<1>18. CASE HostDrop
  BY <1>18 DEF HostDrop
<1>19. CASE HostResume
  BY <1>19 DEF HostResume
<1>20. CASE HostEnter
  BY <1>20 DEF HostEnter
<1>21. CASE WorkerBoot
  BY <1>21 DEF WorkerBoot
<1>22. CASE WorkerInitialize
  BY <1>22 DEF WorkerInitialize
<1>23. CASE WorkerInitDone
  BY <1>23 DEF WorkerInitDone
<1>24. CASE WorkerLoad
  BY <1>24 DEF WorkerLoad
<1>25. CASE WorkerFutexWait
  BY <1>25 DEF WorkerFutexWait
<1>26. CASE WorkerInterrupted
  BY <1>26 DEF WorkerInterrupted
<1>27. CASE WorkerJump
  BY <1>27 DEF WorkerJump
<1>28. CASE WorkerSignalHost
  BY <1>28 DEF WorkerSignalHost
<1>29. CASE GuestEcalli
  BY <1>29 DEF GuestEcalli
<1>30. CASE GuestEcalliSpin
  BY <1>30 DEF GuestEcalliSpin
<1>31. CASE WorkerAbortHostcall
  BY <1>31 DEF WorkerAbortHostcall
<1>32. CASE WorkerDies
  BY <1>32 DEF WorkerDies
<1>33. ASSUME NEW entry \in Oneshots \cup {"ext_recycle"}, HostOneshot(entry)
       PROVE  Coordination'
  BY <1>33 DEF HostOneshot
<1>34. ASSUME NEW value \in GuestReplies, WorkerReply(value)
       PROVE  Coordination'
  BY <1>34 DEF WorkerReply
<1>35. CASE UNCHANGED vars
  BY <1>35 DEF vars
<1>36. QED
  BY <1>1, <1>2, <1>3, <1>4, <1>5, <1>6, <1>7, <1>8, <1>9, <1>10, <1>11,
     <1>12, <1>13, <1>14, <1>15, <1>16, <1>17, <1>18, <1>19, <1>20, <1>21,
     <1>22, <1>23, <1>24, <1>25, <1>26, <1>27, <1>28, <1>29, <1>30, <1>31,
     <1>32, <1>33, <1>34, <1>35
     DEF Next, HostProgress, HostCalls, WorkerProgress

(* Type correctness and the coordination invariant of every behaviour. *)
THEOREM CoordinationTheorem == Spec => [](TypeOK /\ Coordination)
<1>1. Init => TypeOK /\ Coordination
  BY InitCoordination
<1>2. (TypeOK /\ Coordination) /\ [Next]_vars => (TypeOK /\ Coordination)'
  BY TypeStep, CoordinationStep
<1>3. QED
  BY <1>1, <1>2, PTL DEF Spec

(* No wakeup is lost: a process of the pair never sleeps on a futex value that
   should wake it unless the peer is about to issue the wake.  In particular
   the two wake-free stores (ECALLI and the low latency resume) only happen
   while the peer spins. *)
THEOREM NoLostWakeupTheorem == Spec => []NoLostWakeup
<1>1. TypeOK /\ Coordination => NoLostWakeup
  BY OneshotsAssumption
     DEF TypeOK, HostPcs, Coordination, NoLostWakeup, Published, Booting, Waiting, Quiet, Calling, GuestReplies
<1>2. QED
  BY <1>1, CoordinationTheorem, PTL

(* While the owner of the sandbox may touch VmCtx, the worker executes nothing. *)
THEOREM ExclusiveVmCtxTheorem == Spec => []ExclusiveVmCtx
<1>1. TypeOK /\ Coordination => ExclusiveVmCtx
  BY DEF TypeOK, Coordination, ExclusiveVmCtx, Published, Booting, Waiting, Quiet, Calling, GuestReplies
<1>2. QED
  BY <1>1, CoordinationTheorem, PTL

(* The debug assertions of run and exit_low_latency_mode cannot fail. *)
THEOREM DebugAssertsTheorem == Spec => []DebugAssertsHold
<1>1. TypeOK /\ Coordination => DebugAssertsHold
  BY DEF TypeOK, Coordination, DebugAssertsHold, Waiting, Quiet, GuestReplies
<1>2. QED
  BY <1>1, CoordinationTheorem, PTL
=============================================================================
