\* The worker may die at any step, after which the two processes may stop for
\* good (StuckOnlySpinning says where).
SPECIFICATION FairSpec
CONSTANTS
  Oneshots <- MCOneshots
  UffdAvailable = TRUE
  WorkerMayDie = TRUE
INVARIANTS TypeOK NoLostWakeup ExclusiveVmCtx DebugAssertsHold Coordination StuckOnlySpinning
PROPERTIES ImplementsRpc CallsReturn DeathIsNoticed
CHECK_DEADLOCK FALSE
