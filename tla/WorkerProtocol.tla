--------------------------- MODULE WorkerProtocol ---------------------------
(***************************************************************************)
(* The host process and one sandbox worker process of the Linux sandbox.   *)
(* The two share a VmCtx page.  Every call of the host is a store to       *)
(* VmCtx.jump_into, a store of BUSY to VmCtx.futex and a futex wake; every *)
(* answer is a store of another futex value by the worker.  While a guest  *)
(* waits inside a hostcall the worker spins on the futex instead of        *)
(* sleeping, and the host remembers that in Sandbox.low_latency.           *)
(*                                                                         *)
(* Each load, store and futex system call on VmCtx.futex is one step.  The *)
(* kernel's futex queue is the pair of control points "asleep": a FUTEX_   *)
(* WAIT compares and sleeps atomically, a FUTEX_WAKE releases a sleeper.   *)
(***************************************************************************)
EXTENDS Naturals

CONSTANTS Oneshots,        \* entry points called through wake_oneshot_and_expect_idle
          UffdAvailable,   \* GlobalState.uffd_available
          WorkerMayDie     \* whether the kernel may take the worker away

ASSUME OneshotsAssumption == {"sysenter", "resume", "ext_recycle", "none"} \cap Oneshots = {}
ASSUME FlagsAssumption == UffdAvailable \in BOOLEAN /\ WorkerMayDie \in BOOLEAN

VARIABLES
  futex,         \* VmCtx.futex
  jump_into,     \* VmCtx.jump_into
  low_latency,   \* Sandbox.low_latency
  hpc,           \* where the thread owning the sandbox is
  call,          \* the operation that thread is performing
  result,        \* the futex value the last operation returned
  wpc,           \* where the worker is
  wstate,        \* `state` in futex_wait_until
  callback,      \* `callback` in main_loop
  booted,        \* whether the worker has left initialize()
  socket         \* the socket pair: whether the userfaultfd was sent

hostVars == <<low_latency, hpc, call, result>>
workerVars == <<wpc, wstate, callback, booted, socket>>
vars == <<futex, jump_into, hostVars, workerVars>>

(* What a guest's run can end with, each answered through signal_host_and_longjmp. *)
GuestReplies == {"IDLE", "TRAP", "SIGNAL", "STEP", "NOT_ENOUGH_GAS", "PAGEFAULT"}
FutexStates == GuestReplies \cup {"BUSY", "ECALLI", "LONGJUMP"}
Entries == Oneshots \cup {"sysenter", "ext_recycle"}

(* linux_raw::sys_futex_wake_one: the only sleeper the caller can release is its peer. *)
WakeWorker == wpc' = IF wpc = "asleep" THEN "load" ELSE wpc
WakeHost == hpc' = IF hpc = "asleep" THEN "wait" ELSE hpc

Init ==
  /\ futex = "BUSY" /\ jump_into = "none" /\ low_latency = FALSE
  /\ hpc = "none" /\ call = "none" /\ result = "none"
  /\ wpc = "none" /\ wstate = "BUSY" /\ callback = "none"
  /\ booted = FALSE /\ socket = "empty"

-----------------------------------------------------------------------------
(* Spawning: spawn_new_worker and the worker's initialize().               *)

SpawnNewWorker ==
  /\ hpc = "none"
  /\ hpc' = "await_boot" /\ call' = "none" /\ result' = "none"
  /\ futex' = "BUSY" /\ jump_into' = "none" /\ low_latency' = FALSE
  /\ wpc' = "boot" /\ wstate' = "BUSY" /\ callback' = "none"
  /\ booted' = FALSE /\ socket' = "empty"

(* wait_for_futex(BUSY, IDLE): polls with a 100ms futex timeout, so that the
   sleep itself never decides anything; gives up on a dead child, on any other
   futex state and after ten seconds. *)
WaitForFutex(at, next) ==
  /\ hpc = at
  /\ \/ futex = "IDLE" /\ hpc' = next
     \/ futex # "IDLE" /\ hpc' = "failed"
  /\ UNCHANGED <<futex, jump_into, low_latency, call, result, workerVars>>

HostAwaitBoot == WaitForFutex("await_boot", "init_store")
HostAwaitInit == WaitForFutex("await_init", "owned")

HostInitStore ==
  /\ hpc = "init_store"
  /\ futex' = "BUSY" /\ hpc' = "init_wake"
  /\ UNCHANGED <<jump_into, low_latency, call, result, workerVars>>

HostInitWake ==
  /\ hpc = "init_wake"
  /\ WakeWorker
  /\ hpc' = IF UffdAvailable THEN "recvfd" ELSE "await_init"
  /\ UNCHANGED <<futex, jump_into, low_latency, call, result, wstate, callback, booted, socket>>

(* recvfd blocks until the worker sends the descriptor or its end is closed. *)
HostRecvFd ==
  /\ hpc = "recvfd"
  /\ \/ socket = "sent" /\ hpc' = "await_init"
     \/ socket = "empty" /\ wpc = "dead" /\ hpc' = "failed"
  /\ UNCHANGED <<futex, jump_into, low_latency, call, result, workerVars>>

WorkerBoot ==
  /\ wpc = "boot"
  /\ futex' = "IDLE" /\ wpc' = "load"
  /\ UNCHANGED <<jump_into, hostVars, wstate, callback, booted, socket>>

WorkerInitialize ==
  /\ wpc = "initialize"
  /\ wpc' = "init_done"
  /\ socket' = IF UffdAvailable THEN "sent" ELSE socket
  /\ UNCHANGED <<futex, jump_into, hostVars, wstate, callback, booted>>

WorkerInitDone ==
  /\ wpc = "init_done"
  /\ futex' = "IDLE" /\ booted' = TRUE /\ wpc' = "signal_host"
  /\ UNCHANGED <<jump_into, hostVars, wstate, callback, socket>>
-----------------------------------------------------------------------------
(* The host's calls.  "owned" is the only point where the caller of the    *)
(* sandbox has control; it may then read and write VmCtx at will.          *)

(* Mutant: the entry point is not stored, a stale one is executed. *)
HostOneshotKeepsEntry(entry) ==
  /\ hpc = "owned"
  /\ call' = entry
  /\ hpc' = IF low_latency THEN "exit_low_latency" ELSE "store"
  /\ UNCHANGED <<futex, jump_into, low_latency, result, workerVars>>

(* ext_sbrk, ext_reset_memory, ... : jump_into is stored before wake_worker. *)
HostOneshot(entry) ==
  /\ hpc = "owned"
  /\ jump_into' = entry /\ call' = entry
  /\ hpc' = IF low_latency THEN "exit_low_latency" ELSE "store"
  /\ UNCHANGED <<futex, low_latency, result, workerVars>>

(* Mutant: low_latency is not reset by the resume. *)
HostResumeKeepsMode ==
  /\ hpc = "owned" /\ low_latency
  /\ futex' = "BUSY" /\ call' = "resume" /\ hpc' = "spin"
  /\ UNCHANGED <<jump_into, low_latency, result, workerVars>>

(* run() when the next program counter was not changed during a hostcall:
   wake_worker_low_latency is a bare store. *)
HostResume ==
  /\ hpc = "owned" /\ low_latency
  /\ futex' = "BUSY" /\ low_latency' = FALSE
  /\ call' = "resume" /\ hpc' = "spin"
  /\ UNCHANGED <<jump_into, result, workerVars>>

(* run() otherwise: handle_next_program_counter_changed leaves low latency
   mode first if needed, then set_sysenter_and_wake_worker. *)
HostEnter ==
  /\ hpc = "owned"
  /\ call' = "sysenter"
  /\ IF low_latency
       THEN hpc' = "exit_low_latency" /\ UNCHANGED jump_into
       ELSE hpc' = "store" /\ jump_into' = "sysenter"
  /\ UNCHANGED <<futex, low_latency, result, workerVars>>

HostExitLowLatency ==
  /\ hpc = "exit_low_latency"
  /\ futex' = "LONGJUMP" /\ hpc' = "longjump"
  /\ UNCHANGED <<jump_into, low_latency, call, result, workerVars>>

(* Mutant: the host does not wait for the worker to leave the hostcall. *)
HostLongjumpNoSpin ==
  /\ hpc = "longjump"
  /\ low_latency' = FALSE /\ jump_into' = call /\ hpc' = "store"
  /\ UNCHANGED <<futex, call, result, workerVars>>

HostLongjumpSpin ==
  /\ hpc = "longjump" /\ futex # "LONGJUMP"
  /\ low_latency' = FALSE /\ jump_into' = call /\ hpc' = "store"
  /\ UNCHANGED <<futex, call, result, workerVars>>

HostStore ==
  /\ hpc = "store"
  /\ futex' = "BUSY" /\ hpc' = "wake"
  /\ UNCHANGED <<jump_into, low_latency, call, result, workerVars>>

(* Mutant: BUSY is stored but the worker is not woken. *)
HostNoWake ==
  /\ hpc = "wake"
  /\ \/ call = "sysenter" /\ hpc' = "spin"
     \/ call = "ext_recycle" /\ hpc' \in {"cached", "dropped"}
     \/ call \in Oneshots /\ hpc' = "wait"
  /\ UNCHANGED <<futex, jump_into, low_latency, call, result, workerVars>>

(* A recycled sandbox is not waited for: it is pushed to the worker cache, or
   dropped when the cache filled up in the meantime. *)
HostWake ==
  /\ hpc = "wake"
  /\ WakeWorker
  /\ \/ call = "sysenter" /\ hpc' = "spin"
     \/ call = "ext_recycle" /\ hpc' \in {"cached", "dropped"}
     \/ call \in Oneshots /\ hpc' = "wait"
  /\ UNCHANGED <<futex, jump_into, low_latency, call, result, wstate, callback, booted, socket>>

(* Mutant: a cached worker is used without waiting for its recycling. *)
SpawnCachedNoWait ==
  /\ hpc = "cached" /\ hpc' = "owned" /\ call' = "none"
  /\ UNCHANGED <<futex, jump_into, low_latency, result, workerVars>>

(* spawn() reusing a cached worker: worker.wait().and_then(expect_idle). *)
SpawnCached ==
  /\ hpc = "cached" /\ hpc' = "wait"
  /\ UNCHANGED <<futex, jump_into, low_latency, call, result, workerVars>>

(* Mutant: the caller gets the request back instead of the futex state. *)
ReceiveRequest ==
  /\ futex # "BUSY"
  /\ result' = call /\ call' = "none"
  /\ low_latency' = (low_latency \/ futex = "ECALLI")
  /\ hpc' = "owned"

(* The part of wait_impl that handles a state other than BUSY, with
   expect_idle for the calls that use it. *)
ReceiveReply ==
  /\ futex # "BUSY"
  /\ result' = futex /\ call' = "none"
  /\ low_latency' = (low_latency \/ futex = "ECALLI")
  /\ hpc' = IF futex = "LONGJUMP" \/ (call \notin {"sysenter", "resume"} /\ futex # "IDLE")
              THEN "failed" ELSE "owned"

(* wait_impl::<true>: never sleeps and never looks at the child. *)
HostSpin ==
  /\ hpc = "spin"
  /\ ReceiveReply
  /\ UNCHANGED <<futex, jump_into, workerVars>>

(* Mutant: wait() only polls, as wait_low_latency does. *)
HostWaitPolls ==
  /\ hpc = "wait"
  /\ ReceiveReply
  /\ UNCHANGED <<futex, jump_into, workerVars>>

(* wait_impl::<false>: load, then FUTEX_WAIT on BUSY for at most a second. *)
HostWait ==
  /\ hpc = "wait"
  /\ \/ ReceiveReply
     \/ futex = "BUSY" /\ hpc' = "futex_wait" /\ UNCHANGED <<low_latency, call, result>>
  /\ UNCHANGED <<futex, jump_into, workerVars>>

HostFutexWait ==
  /\ hpc = "futex_wait"
  /\ hpc' = IF futex = "BUSY" THEN "asleep" ELSE "wait"
  /\ UNCHANGED <<futex, jump_into, low_latency, call, result, workerVars>>

(* ETIMEDOUT leads to child.check_status, EINTR straight back to the loop. *)
HostTimeout ==
  /\ hpc = "asleep" /\ hpc' = "check_status"
  /\ UNCHANGED <<futex, jump_into, low_latency, call, result, workerVars>>

HostInterrupted ==
  /\ hpc = "asleep" /\ hpc' = "wait"
  /\ UNCHANGED <<futex, jump_into, low_latency, call, result, workerVars>>

(* Mutants: a timeout is taken for a death; a death is overlooked. *)
HostCheckStatusAlwaysDead ==
  /\ hpc = "check_status" /\ hpc' = "failed"
  /\ UNCHANGED <<futex, jump_into, low_latency, call, result, workerVars>>
HostCheckStatusNeverDead ==
  /\ hpc = "check_status" /\ hpc' = "wait"
  /\ UNCHANGED <<futex, jump_into, low_latency, call, result, workerVars>>

HostCheckStatus ==
  /\ hpc = "check_status"
  /\ hpc' = IF wpc = "dead" THEN "failed" ELSE "wait"
  /\ UNCHANGED <<futex, jump_into, low_latency, call, result, workerVars>>

(* Dropping the sandbox: ChildProcess::drop kills the worker and reaps it. *)
HostDrop ==
  /\ hpc \in {"owned", "failed", "cached", "dropped"}
  /\ hpc' = "none" /\ call' = "none" /\ result' = "none" /\ wpc' = "none"
  /\ UNCHANGED <<futex, jump_into, low_latency, wstate, callback, booted, socket>>
-----------------------------------------------------------------------------
(* The worker: futex_wait_until, main_loop and its callbacks.              *)

(* The load at the head of the loop and those between the yields. *)
WorkerLoad ==
  /\ wpc = "load"
  /\ wstate' = futex
  /\ wpc' = IF futex # "BUSY" THEN "futex_wait" ELSE IF booted THEN "main_loop" ELSE "initialize"
  /\ UNCHANGED <<futex, jump_into, hostVars, callback, booted, socket>>

(* Mutant: the sleep does not compare the futex with the state seen before. *)
WorkerSleepNoCompare ==
  /\ wpc = "futex_wait" /\ wpc' = "asleep"
  /\ UNCHANGED <<futex, jump_into, hostVars, wstate, callback, booted, socket>>

WorkerFutexWait ==
  /\ wpc = "futex_wait"
  /\ wpc' = IF futex = wstate THEN "asleep" ELSE "load"
  /\ UNCHANGED <<futex, jump_into, hostVars, wstate, callback, booted, socket>>

WorkerInterrupted ==
  /\ wpc = "asleep" /\ wpc' = "load"
  /\ UNCHANGED <<futex, jump_into, hostVars, wstate, callback, booted, socket>>

WorkerJump ==
  /\ wpc = "main_loop"
  /\ callback' = jump_into /\ wpc' = "run"
  /\ UNCHANGED <<futex, jump_into, hostVars, wstate, booted, socket>>

(* signal_host_and_longjmp up to its store; WorkerSignalHost is the wake. *)
WorkerReply(value) ==
  /\ wpc = "run"
  /\ value = "IDLE" \/ callback = "sysenter"
  /\ futex' = value /\ wpc' = "signal_host"
  /\ UNCHANGED <<jump_into, hostVars, wstate, callback, booted, socket>>

WorkerSignalHost ==
  /\ wpc = "signal_host"
  /\ WakeHost /\ wpc' = "load"
  /\ UNCHANGED <<futex, jump_into, low_latency, call, result, wstate, callback, booted, socket>>

(* The ecall trampoline: publish the hostcall without a wake, then spin. *)
GuestEcalli ==
  /\ wpc = "run" /\ callback = "sysenter"
  /\ futex' = "ECALLI" /\ wpc' = "ecall"
  /\ UNCHANGED <<jump_into, hostVars, wstate, callback, booted, socket>>

GuestEcalliSpin ==
  /\ wpc = "ecall" /\ futex # "ECALLI"
  /\ wpc' = IF futex = "LONGJUMP" THEN "syscall_hostcall" ELSE "run"
  /\ UNCHANGED <<futex, jump_into, hostVars, wstate, callback, booted, socket>>

WorkerAbortHostcall ==
  /\ wpc = "syscall_hostcall"
  /\ futex' = "IDLE" /\ wpc' = "signal_host"
  /\ UNCHANGED <<jump_into, hostVars, wstate, callback, booted, socket>>

(* External: an out-of-memory kill, or abort_with_message/graceful_abort. *)
WorkerDies ==
  /\ WorkerMayDie
  /\ wpc \notin {"none", "dead"}
  /\ wpc' = "dead"
  /\ UNCHANGED <<futex, jump_into, hostVars, wstate, callback, booted, socket>>
-----------------------------------------------------------------------------
HostProgress ==
  \/ HostAwaitBoot \/ HostInitStore \/ HostInitWake \/ HostRecvFd \/ HostAwaitInit
  \/ HostExitLowLatency \/ HostLongjumpSpin \/ HostStore \/ HostWake
  \/ HostSpin \/ HostWait \/ HostFutexWait \/ HostTimeout \/ HostCheckStatus

HostCalls ==
  \/ SpawnNewWorker \/ SpawnCached \/ HostDrop \/ HostResume \/ HostEnter
  \/ \E entry \in Oneshots \cup {"ext_recycle"} : HostOneshot(entry)

WorkerProgress ==
  \/ WorkerBoot \/ WorkerInitialize \/ WorkerInitDone
  \/ WorkerLoad \/ WorkerFutexWait \/ WorkerJump
  \/ GuestEcalli \/ (\E value \in GuestReplies : WorkerReply(value))
  \/ WorkerSignalHost \/ GuestEcalliSpin \/ WorkerAbortHostcall

Next == HostProgress \/ HostCalls \/ WorkerProgress
        \/ HostInterrupted \/ WorkerInterrupted \/ WorkerDies

Spec == Init /\ [][Next]_vars

(* Both processes keep being scheduled, the guest reaches its next interrupt,
   and signals do not interrupt every one of the host's one second sleeps; the
   caller owes nothing. *)
FairSpec == Spec /\ WF_vars(HostProgress) /\ WF_vars(WorkerProgress) /\ SF_vars(HostTimeout)
-----------------------------------------------------------------------------
HostPcs == {"none", "await_boot", "init_store", "init_wake", "recvfd", "await_init",
            "owned", "exit_low_latency", "longjump", "store", "wake", "cached", "dropped",
            "spin", "wait", "futex_wait", "asleep", "check_status", "failed"}
WorkerPcs == {"none", "boot", "load", "futex_wait", "asleep", "initialize", "init_done",
              "main_loop", "run", "ecall", "syscall_hostcall", "signal_host", "dead"}

(* Type correctness of the shared page and of both control states. *)
TypeOK ==
  /\ futex \in FutexStates
  /\ jump_into \in Entries \cup {"none"}
  /\ low_latency \in BOOLEAN
  /\ hpc \in HostPcs
  /\ call \in Entries \cup {"resume", "none"}
  /\ result \in FutexStates \cup {"none"}
  /\ wpc \in WorkerPcs
  /\ wstate \in FutexStates
  /\ callback \in Entries \cup {"none"}
  /\ booted \in BOOLEAN
  /\ socket \in {"empty", "sent"}

(* The two halves of "no lost wakeup".  Neither process sleeps on the futex
   when the value it waits for is there, unless its peer is between the store
   and the FUTEX_WAKE that follows it: the ECALLI store has no wake after it
   and the low latency resume has none either, so both must only happen when
   the other side is spinning. *)
NoLostWakeup ==
  /\ wpc = "asleep" /\ futex = "BUSY" => hpc \in {"wake", "init_wake"}
  /\ hpc = "asleep" /\ futex # "BUSY" => wpc \in {"signal_host", "dead"}

(* The caller of the sandbox reads and writes VmCtx, the guest's registers and
   its memory whenever it has control; the worker must not be executing a
   callback or its initialization then. *)
ExclusiveVmCtx ==
  hpc \in {"owned", "init_store", "cached"} /\ (hpc = "cached" => futex # "BUSY")
    => wpc \notin {"initialize", "init_done", "main_loop", "run", "syscall_hostcall"}

(* The debug_assert of exit_low_latency_mode (futex == GUEST_ECALLI) and that
   of run (futex & 1 == IDLE: every state but BUSY is odd), at every point
   where the caller could reach them. *)
DebugAssertsHold ==
  hpc \in {"owned", "exit_low_latency"} =>
    /\ low_latency => futex = "ECALLI" /\ wpc \in {"ecall", "dead"}
    /\ futex # "BUSY"
-----------------------------------------------------------------------------
(* The inductive invariant behind the properties above: which points of the  *)
(* two processes, and which futex values, can occur together.                *)

(* Inside futex_wait_until, or on the way there; the last known state is not BUSY. *)
Waiting == wpc \in {"signal_host", "load", "futex_wait", "asleep", "dead"}

(* The host has not yet given the worker anything to do. *)
Quiet ==
  IF low_latency THEN futex = "ECALLI" /\ wpc \in {"ecall", "dead"}
                 ELSE futex \in GuestReplies /\ Waiting

Booting ==
  /\ ~low_latency /\ call = "none"
  /\ hpc = "await_boot" =>
       /\ ~booted
       /\ \/ futex = "BUSY" /\ wpc \in {"boot", "dead"}
          \/ futex = "IDLE" /\ Waiting /\ wpc # "signal_host"
  /\ hpc = "init_store" => ~booted /\ futex = "IDLE" /\ Waiting /\ wpc # "signal_host"
  /\ hpc \in {"init_wake", "recvfd", "await_init"} =>
       \/ futex = "IDLE" /\ booted /\ Waiting
       \/ /\ futex = "BUSY" /\ ~booted
          /\ \/ wpc \in {"load", "futex_wait", "initialize", "init_done", "dead"}
             \/ wpc = "asleep" /\ hpc = "init_wake"

(* The call has been published with the store of BUSY. *)
Published == hpc \in {"wake", "spin", "wait", "futex_wait", "asleep", "check_status", "cached", "dropped"}
Calling ==
  /\ booted /\ ~low_latency
  /\ \/ hpc = "wake" /\ call \in Entries
     \/ hpc = "spin" /\ call \in {"sysenter", "resume"}
     \/ hpc \in {"cached", "dropped"} /\ call = "ext_recycle"
     \/ hpc \in {"wait", "futex_wait", "asleep", "check_status"} /\ call \in Oneshots \cup {"ext_recycle"}
  /\ \/ /\ futex = "BUSY"
        /\ \/ call # "resume" /\ jump_into = call /\ wpc \in {"signal_host", "load", "futex_wait", "main_loop"}
           \/ call # "resume" /\ jump_into = call /\ wpc = "asleep" /\ hpc = "wake"
           \/ call # "resume" /\ wpc = "run" /\ callback = call
           \/ call = "resume" /\ wpc \in {"ecall", "run"} /\ callback = "sysenter"
           \/ wpc = "dead"
     \/ /\ futex = "ECALLI" /\ call \in {"sysenter", "resume"} /\ wpc \in {"ecall", "dead"}
        /\ callback = "sysenter"
     \/ /\ futex = "IDLE" \/ (futex \in GuestReplies /\ call \in {"sysenter", "resume"})
        /\ Waiting
        /\ hpc = "asleep" => wpc \in {"signal_host", "dead"}

(* The coordination of host and worker, at every point of the host: when it
   has control the worker is quiet, once it has published a call the worker is
   either on its way to exactly that call, executing it, or has answered it. *)
Coordination ==
  /\ hpc = "none" <=> wpc = "none"
  /\ wpc \in {"futex_wait", "asleep"} => wstate # "BUSY"
  /\ wpc = "ecall" => callback = "sysenter"
  /\ hpc \in {"await_boot", "init_store", "init_wake", "recvfd", "await_init"} => Booting
  /\ hpc = "owned" => booted /\ call = "none" /\ Quiet
  /\ hpc \in {"exit_low_latency", "store"} =>
       /\ booted /\ call \in Entries /\ Quiet
       /\ low_latency <=> hpc = "exit_low_latency"
       /\ hpc = "store" => jump_into = call
  /\ hpc = "longjump" =>
       /\ booted /\ call \in Entries /\ low_latency
       /\ \/ futex = "LONGJUMP" /\ wpc \in {"ecall", "syscall_hostcall", "dead"}
          \/ futex = "IDLE" /\ Waiting
  /\ Published => Calling
  /\ hpc = "failed" => ~(wpc = "asleep" /\ futex = "BUSY")

-----------------------------------------------------------------------------
(* The refinement mapping to SandboxRpc.                                   *)

Answered == Published /\ futex # "BUSY"
rpcPhase ==
  IF hpc \in {"none", "await_boot", "init_store", "init_wake", "recvfd", "await_init"} THEN "down"
  ELSE IF hpc = "owned" THEN "idle"
  ELSE IF hpc = "failed" THEN "failed"
  ELSE IF Answered THEN "answered"
  ELSE IF wpc = "dead" THEN "lost"
  ELSE IF wpc = "run" THEN "executing"
  ELSE "requested"

Rpc == INSTANCE SandboxRpc WITH
  phase <- rpcPhase,
  alive <- wpc \notin {"none", "dead"},
  request <- call,
  serving <- IF wpc = "run" THEN callback ELSE "none",
  reply <- IF hpc = "failed" THEN "none" ELSE IF Answered THEN futex ELSE result

(* The futex protocol implements exactly-once remote calls. *)
ImplementsRpc == Rpc!Spec

(* Where no call is outstanding. *)
AtRest == hpc \in {"none", "owned", "failed", "cached", "dropped"}

(* With both processes alive and scheduled, every call comes back, whatever
   the order of sleeps, wakes, interrupts and timeouts. *)
CallsReturn == ~AtRest ~> (AtRest \/ wpc = "dead")

(* A worker that dies under wait() is noticed through the futex timeout and
   check_status; spawning notices it as well. *)
DeathIsNoticed ==
  hpc \in {"await_boot", "init_store", "init_wake", "recvfd", "await_init",
           "wait", "futex_wait", "asleep", "check_status"} ~> AtRest

(* The only way for the host never to get out of a call is a worker that died
   while the host was in one of its two unconditional spin loops. *)
StuckOnlySpinning ==
  ~ENABLED Next => wpc = "dead" /\ hpc \in {"spin", "longjump"}
=============================================================================
