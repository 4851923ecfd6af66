----------------------------- MODULE WorkerPool -----------------------------
(***************************************************************************)
(* Spawning and recycling of sandbox workers: which CPU cores the host     *)
(* thread and the worker process of an instance get, how often each core   *)
(* is in use, which idle workers are kept per core, and the pinning of the *)
(* host threads.  Every section under a lock (THREAD_PIN's, the engine's   *)
(* `mutable`) is one step.  Which of several cached workers is reused is   *)
(* left open; the handshake with it is the subject of WorkerProtocol.      *)
(***************************************************************************)
EXTENDS Naturals, FiniteSets, Sequences

CONSTANTS Engines, Threads, Workers,
          None,
          Cores,          \* 0..(core_count - 1)
          Enabled,        \* the cores in the threads' original affinity
          CcxCores,       \* for each CCX (0, 1...) the sequence of its cores
          Hyperthreads,   \* for each core the sequence of its other hyperthreads
          CcxSiblings,    \* for each core its CCX's other cores, without hyperthreads
          CorePinnings,   \* the settings of Config.core_pinning to consider
          max_cached_workers

Ccxs == DOMAIN CcxCores
Members(seq) == {seq[i] : i \in DOMAIN seq}
ccx_id(core) == CHOOSE x \in Ccxs : core \in Members(CcxCores[x])
ccx_mask(x) == Members(CcxCores[x]) \cap Enabled
unused_cores(x) == Cardinality(ccx_mask(x))   \* set up once and never updated

ASSUME PoolAssumption ==
  /\ Enabled \subseteq Cores /\ Enabled # {} /\ max_cached_workers \in Nat
  /\ Cores = UNION {Members(CcxCores[x]) : x \in Ccxs}
  /\ CorePinnings \subseteq {"PinToCore", "PinToCcx", "Disabled"}

VARIABLES core_pinning,   \* chosen once, when the engines are configured
          core,       \* per_core: host_count and worker_count, per engine
          ccx,        \* per_ccx: host_count and worker_count, per engine
          cache,      \* per_core: worker_cache
          thread,     \* ThreadState of each thread
          affinity,   \* the cores the kernel lets each thread run on
          sandbox,    \* the Sandbox of each worker process, None when there is none
          job         \* what each thread is doing, with its locals

vars == <<core_pinning, core, ccx, cache, thread, affinity, sandbox, job>>

Idle == [pc |-> "idle"]
Unpinned == [instances_alive |-> 0, pinned_to_core |-> None, pinned_to_ccx |-> None, engine |-> None]

Init ==
  /\ core_pinning \in CorePinnings
  /\ core = [e \in Engines |-> [c \in Cores |-> [host_count |-> 0, worker_count |-> 0]]]
  /\ ccx = [e \in Engines |-> [x \in Ccxs |-> [host_count |-> 0, worker_count |-> 0]]]
  /\ cache = [e \in Engines |-> [c \in Cores |-> {}]]
  /\ thread = [t \in Threads |-> Unpinned]
  /\ affinity = [t \in Threads |-> Enabled]
  /\ sandbox = [w \in Workers |-> None]
  /\ job = [t \in Threads |-> Idle]

Live == {w \in Workers : sandbox[w] # None /\ sandbox[w].live}
-----------------------------------------------------------------------------
(* spawn, first section: the thread is assigned to the engine, unless it is
   another engine's, and its pinning is read. *)
SpawnPin(t, e, outer) ==
  LET mine == core_pinning # "Disabled" /\ thread[t].engine \in {None, e}
      start(pin, c, x) == [pc |-> "pick", engine |-> e, outer |-> outer, pin |-> pin,
                           pinned_to_core |-> c, pinned_to_ccx |-> x]
  IN /\ job[t].pc = "idle"
     /\ outer = None \/ (outer \in Live /\ sandbox[outer].engine = e)
     /\ IF mine
          THEN /\ thread' = [thread EXCEPT ![t].engine = e, ![t].instances_alive = @ + 1]
               /\ job' = [job EXCEPT ![t] = start(t, thread[t].pinned_to_core, thread[t].pinned_to_ccx)]
          ELSE /\ UNCHANGED thread
               /\ job' = [job EXCEPT ![t] = start(None, None, None)]
     /\ UNCHANGED <<core, ccx, cache, affinity, sandbox>>

CoreUnused(per_core, c) == c \in Enabled /\ per_core[c].worker_count = 0 /\ per_core[c].host_count = 0
CcxUnused(e, x) == ccx[e][x].worker_count = 0 /\ ccx[e][x].host_count = 0 /\ unused_cores(x) > 0

(* core_cost, compared as the code's tuple is *)
CostLeq(per_core, c, d) ==
  LET busy(x) == IF CoreUnused(per_core, x) THEN 0 ELSE 1
      key(x) == <<busy(x), per_core[x].worker_count, per_core[x].host_count>>
      differ == {i \in 1..3 : key(c)[i] # key(d)[i]}
  IN \A i \in differ : (\A j \in differ : i <= j) => key(c)[i] < key(d)[i]

UnusedIn(per_core, seq) == SelectSeq(seq, LAMBDA c : CoreUnused(per_core, c))
LeastLoaded(per_core, seq) ==
  LET enabled == SelectSeq(seq, LAMBDA c : c \in Enabled)
  IN SelectSeq(enabled, LAMBDA c : \A d \in Members(enabled) : CostLeq(per_core, c, d))

FirstOr(seq, default) == IF seq = <<>> THEN default ELSE Head(seq)

(* The CCX an outer VM moves to when there is something running on its own:
   an idle one, else the one with the most `unused_cores`, then the least loaded. *)
AlternativeCcx(e) ==
  LET load(x) == ccx[e][x].host_count + ccx[e][x].worker_count
      better(x, y) == \/ unused_cores(x) > unused_cores(y)
                      \/ unused_cores(x) = unused_cores(y) /\ load(x) < load(y)
                      \/ unused_cores(x) = unused_cores(y) /\ load(x) = load(y) /\ x <= y
      idle == {x \in Ccxs : CcxUnused(e, x)}
      usable == {x \in Ccxs : unused_cores(x) > 0}
  IN IF idle # {} THEN CHOOSE x \in idle : \A y \in idle : x <= y
     ELSE CHOOSE x \in usable : \A y \in usable : better(x, y)

(* The host core PinToCore picks there: the first one of an idle CCX, else an
   unused core with an unused hyperthread, else the least loaded. *)
HostCoreOn(e, x) ==
  LET paired == SelectSeq(UnusedIn(core[e], CcxCores[x]),
                          LAMBDA c : UnusedIn(core[e], Hyperthreads[c]) # <<>>)
  IN IF CcxUnused(e, x) THEN CcxCores[x][1]
     ELSE Head(paired \o LeastLoaded(core[e], CcxCores[x]))

(* Where the host of job j may end up when it runs on `here`, and the CCX it
   is pinned to on the way (None for no pinning). *)
HostChoices(e, j, here) ==
  LET stay == {[core |-> here, ccx |-> None]}
      anywhereOn(x) == {[core |-> c, ccx |-> x] : c \in ccx_mask(x)}
      outer_host_core == sandbox[j.outer].host_core
  IN IF j.outer # None
       THEN IF j.pin = None \/ j.pinned_to_core # None THEN stay
            ELSE IF core_pinning = "PinToCore" THEN {[core |-> outer_host_core, ccx |-> None]}
            ELSE IF ccx_id(outer_host_core) # ccx_id(here) THEN anywhereOn(ccx_id(outer_host_core))
            ELSE stay
     ELSE IF j.pin = None \/ CcxUnused(e, ccx_id(here)) THEN stay
     ELSE IF core_pinning = "PinToCcx" THEN anywhereOn(AlternativeCcx(e))
     ELSE {[core |-> HostCoreOn(e, AlternativeCcx(e)), ccx |-> None]}

OtherCores(host_core) ==
  SelectSeq([i \in 1..Cardinality(Cores) |-> i - 1], LAMBDA c : c # host_core)

(* The core of the worker, with the host already counted: near the host, or
   for an inner VM near the worker of the outer one. *)
WorkerCore(e, outer, host_core) ==
  LET counted == [core[e] EXCEPT ![host_core].host_count = @ + 1]
      near == sandbox[outer].worker_core
  IN IF outer # None
       THEN FirstOr(UnusedIn(counted, CcxSiblings[near]) \o LeastLoaded(counted, CcxSiblings[near]),
                    near)
       ELSE FirstOr(UnusedIn(counted, Hyperthreads[host_core])
                      \o UnusedIn(counted, CcxSiblings[host_core])
                      \o LeastLoaded(counted, OtherCores(host_core)), host_core)

(* Mutant: the worker is charged to the host's core. *)
AcquireHostCore(e, h, w) ==
  /\ core' = [core EXCEPT ![e][h].host_count = @ + 1, ![e][h].worker_count = @ + 1]
  /\ ccx' = [ccx EXCEPT ![e][ccx_id(h)].host_count = @ + 1, ![e][ccx_id(w)].worker_count = @ + 1]

Acquire(e, h, w) ==
  /\ core' = [core EXCEPT ![e][h].host_count = @ + 1, ![e][w].worker_count = @ + 1]
  /\ ccx' = [ccx EXCEPT ![e][ccx_id(h)].host_count = @ + 1, ![e][ccx_id(w)].worker_count = @ + 1]

(* Mutant: the two cores are given back the wrong way round. *)
ReleaseSwapped(e, h, w) ==
  /\ core' = [core EXCEPT ![e][w].host_count = @ - 1, ![e][h].worker_count = @ - 1]
  /\ ccx' = [ccx EXCEPT ![e][ccx_id(h)].host_count = @ - 1, ![e][ccx_id(w)].worker_count = @ - 1]

(* MutableState::release *)
Release(e, h, w) ==
  /\ core' = [core EXCEPT ![e][h].host_count = @ - 1, ![e][w].worker_count = @ - 1]
  /\ ccx' = [ccx EXCEPT ![e][ccx_id(h)].host_count = @ - 1, ![e][ccx_id(w)].worker_count = @ - 1]

(* spawn, second section: both cores are picked and counted, and a cached
   worker of the worker's core is taken if there is one. *)
SpawnPick(t) ==
  LET j == job[t]
      e == j.engine
  IN /\ j.pc = "pick"
     /\ \E here \in IF j.pinned_to_core # None THEN {j.pinned_to_core} ELSE affinity[t] :
        \E host \in HostChoices(e, j, here) :
          LET worker_core == WorkerCore(e, j.outer, host.core)
              cached == cache[e][worker_core]
          IN /\ Acquire(e, host.core, worker_core)
             /\ IF host.ccx = None THEN UNCHANGED <<affinity, thread>>
                ELSE /\ affinity' = [affinity EXCEPT ![t] = ccx_mask(host.ccx)]
                     /\ thread' = [thread EXCEPT ![t].pinned_to_ccx = host.ccx]
             /\ \E w \in IF cached = {} THEN {None} ELSE cached :
                  /\ cache' = [cache EXCEPT ![e][worker_core] = @ \ {w}]
                  /\ job' = [job EXCEPT ![t] =
                       [pc |-> "finish", engine |-> e, outer |-> j.outer, pin |-> j.pin,
                        pinned_to_core |-> j.pinned_to_core, pinned_to_ccx |-> j.pinned_to_ccx,
                        host_core |-> host.core, worker_core |-> worker_core, worker |-> w]]
     /\ UNCHANGED sandbox

(* spawn, last part, with a worker that answered or a new one.  Pinning to a
   core outside the original affinity may be refused. *)
SpawnFinish(t) ==
  LET j == job[t]
      x == ccx_id(j.host_core)
      pinCore == j.pin # None /\ core_pinning = "PinToCore" /\ j.pinned_to_core # j.host_core
      pinCcx == j.pin # None /\ core_pinning = "PinToCcx" /\ j.pinned_to_ccx # x
  IN /\ j.pc = "finish"
     /\ \E w \in IF j.worker # None THEN {j.worker} ELSE {v \in Workers : sandbox[v] = None} :
          sandbox' = [sandbox EXCEPT ![w] =
            [engine |-> j.engine, host_core |-> j.host_core, worker_core |-> j.worker_core,
             pin |-> j.pin, live |-> TRUE]]
     /\ \/ /\ pinCore
           /\ affinity' = [affinity EXCEPT ![t] = {j.host_core}]
           /\ thread' = [thread EXCEPT ![t].pinned_to_core = j.host_core]
        \/ /\ pinCcx
           /\ affinity' = [affinity EXCEPT ![t] = ccx_mask(x)]
           /\ thread' = [thread EXCEPT ![t].pinned_to_ccx = x]
        \/ /\ (~pinCore /\ ~pinCcx) \/ (pinCore /\ j.host_core \notin Enabled)
           /\ UNCHANGED <<affinity, thread>>
     /\ job' = [job EXCEPT ![t] = Idle]
     /\ UNCHANGED <<core, ccx, cache>>

(* spawn's error path: the worker did not answer, or none could be created;
   the sandbox is gone, and the thread_pin is dropped next. *)
SpawnFail(t) ==
  LET j == job[t] IN
  /\ j.pc = "finish"
  /\ Release(j.engine, j.host_core, j.worker_core)
  /\ sandbox' = [w \in Workers |-> IF w = j.worker THEN None ELSE sandbox[w]]
  /\ job' = [job EXCEPT ![t] = [pc |-> "unpin", pin |-> j.pin, worker |-> None]]
  /\ UNCHANGED <<cache, thread, affinity>>

(* SandboxInstance::drop, or a load_module that failed: recycle begins by
   dropping the thread_pin.  Any thread may drop any instance that no spawn
   in progress borrows. *)
Recycle(t, w) ==
  /\ job[t].pc = "idle" /\ w \in Live
  /\ \A u \in Threads : job[u].pc \in {"pick", "finish"} => job[u].outer # w
  /\ sandbox' = [sandbox EXCEPT ![w].live = FALSE, ![w].pin = None]
  /\ job' = [job EXCEPT ![t] = [pc |-> "unpin", pin |-> sandbox[w].pin, worker |-> w]]
  /\ UNCHANGED <<core, ccx, cache, thread, affinity>>

(* Mutant: the affinity is restored by the first instance that goes. *)
UnpinThreadAlways(p) ==
  /\ thread' = [thread EXCEPT ![p] = [Unpinned EXCEPT !.instances_alive = thread[p].instances_alive - 1]]
  /\ affinity' = [affinity EXCEPT ![p] = Enabled]

(* ThreadPin::drop *)
UnpinThread(p) ==
  /\ thread' = [thread EXCEPT ![p] = [Unpinned EXCEPT !.instances_alive = thread[p].instances_alive - 1]]
  /\ affinity' = [affinity EXCEPT ![p] = IF thread[p].instances_alive = 1 THEN Enabled ELSE @]

Unpin(t) ==
  LET j == job[t] IN
  /\ j.pc = "unpin"
  /\ IF j.pin = None THEN UNCHANGED <<thread, affinity>> ELSE UnpinThread(j.pin)
  /\ job' = [job EXCEPT ![t] = IF j.worker = None THEN Idle
                               ELSE [pc |-> "release", worker |-> j.worker]]
  /\ UNCHANGED <<core, ccx, cache, sandbox>>

(* recycle, first section under `mutable`.  A worker that is not to be cached,
   is borked, or cannot be reset is dropped, which kills its process. *)
RecycleRelease(t) ==
  LET w == job[t].worker
      s == sandbox[w]
      should_cache == Cardinality(cache[s.engine][s.worker_core]) < max_cached_workers
  IN /\ job[t].pc = "release"
     /\ Release(s.engine, s.host_core, s.worker_core)
     /\ \/ /\ should_cache
           /\ job' = [job EXCEPT ![t] = [pc |-> "push", worker |-> w]]
           /\ UNCHANGED sandbox
        \/ /\ job' = [job EXCEPT ![t] = Idle]
           /\ sandbox' = [sandbox EXCEPT ![w] = None]
     /\ UNCHANGED <<cache, thread, affinity>>

(* Mutant: the room in the cache is not checked again. *)
RecyclePushUnchecked(t) ==
  LET w == job[t].worker
      s == sandbox[w]
  IN /\ job[t].pc = "push"
     /\ cache' = [cache EXCEPT ![s.engine][s.worker_core] = @ \cup {w}]
     /\ job' = [job EXCEPT ![t] = Idle]
     /\ UNCHANGED <<core, ccx, thread, affinity, sandbox>>

(* recycle, second section: the cache may have filled up in the meantime.  The
   host_core of a cached worker is set again before it is read. *)
RecyclePush(t) ==
  LET w == job[t].worker
      s == sandbox[w]
  IN /\ job[t].pc = "push"
     /\ \/ /\ Cardinality(cache[s.engine][s.worker_core]) < max_cached_workers
           /\ cache' = [cache EXCEPT ![s.engine][s.worker_core] = @ \cup {w}]
           /\ sandbox' = [sandbox EXCEPT ![w].host_core = None]
        \/ /\ Cardinality(cache[s.engine][s.worker_core]) >= max_cached_workers
           /\ sandbox' = [sandbox EXCEPT ![w] = None]
           /\ UNCHANGED cache
     /\ job' = [job EXCEPT ![t] = Idle]
     /\ UNCHANGED <<core, ccx, thread, affinity>>

Next ==
  /\ UNCHANGED core_pinning
  /\ \E t \in Threads :
    \/ \E e \in Engines, outer \in Workers \cup {None} : SpawnPin(t, e, outer)
    \/ SpawnPick(t) \/ SpawnFinish(t) \/ SpawnFail(t)
    \/ \E w \in Workers : Recycle(t, w)
    \/ Unpin(t) \/ RecycleRelease(t) \/ RecyclePush(t)

Spec == Init /\ [][Next]_vars
-----------------------------------------------------------------------------
(* Type correctness; in particular no count has been decremented below zero. *)
TypeOK ==
  /\ core_pinning \in CorePinnings
  /\ core \in [Engines -> [Cores -> [host_count : Nat, worker_count : Nat]]]
  /\ ccx \in [Engines -> [Ccxs -> [host_count : Nat, worker_count : Nat]]]
  /\ cache \in [Engines -> [Cores -> SUBSET Workers]]
  /\ thread \in [Threads -> [instances_alive : Nat, pinned_to_core : Cores \cup {None},
                             pinned_to_ccx : Ccxs \cup {None}, engine : Engines \cup {None}]]
  /\ affinity \in [Threads -> SUBSET Cores]
  /\ \A w \in Workers : sandbox[w] = None \/
       sandbox[w] \in [engine : Engines, host_core : Cores \cup {None}, worker_core : Cores,
                      pin : Threads \cup {None}, live : BOOLEAN]

(* The cores in use: by a live instance or one that is about to be released,
   or by a spawn between picking them and its end. *)
Uses(e) ==
  {[by |-> w, host_core |-> sandbox[w].host_core, worker_core |-> sandbox[w].worker_core] :
     w \in {v \in Workers : sandbox[v] # None /\ sandbox[v].engine = e /\
               (sandbox[v].live \/ \E t \in Threads :
                  job[t].pc \in {"unpin", "release"} /\ job[t].worker = v)}}
  \cup
  {[by |-> t, host_core |-> job[t].host_core, worker_core |-> job[t].worker_core] :
     t \in {u \in Threads : job[u].pc = "finish" /\ job[u].engine = e}}

(* The counts by which cores are picked are exactly the uses there are, on
   success, failure and recycling, whichever threads run them. *)
CountsAreExact ==
  \A e \in Engines :
    /\ \A c \in Cores :
         /\ core[e][c].host_count = Cardinality({u \in Uses(e) : u.host_core = c})
         /\ core[e][c].worker_count = Cardinality({u \in Uses(e) : u.worker_core = c})
    /\ \A x \in Ccxs :
         /\ ccx[e][x].host_count = Cardinality({u \in Uses(e) : ccx_id(u.host_core) = x})
         /\ ccx[e][x].worker_count = Cardinality({u \in Uses(e) : ccx_id(u.worker_core) = x})

(* A worker has one owner: one instance, one cache or one thread handling it;
   a cached worker sits on the core it is cached for
   (debug_assert_eq!(sandbox.worker_core, worker_core)), and no core caches
   more than max_cached_workers. *)
WorkersHaveOneOwner ==
  /\ \A w \in Workers :
       LET caches == {<<e, c>> \in Engines \X Cores : w \in cache[e][c]}
           handlers == {t \in Threads : job[t].pc \in {"finish", "unpin", "release", "push"}
                                       /\ job[t].worker = w}
       IN Cardinality(caches) + Cardinality(handlers) + (IF w \in Live THEN 1 ELSE 0)
            = IF sandbox[w] = None THEN 0 ELSE 1
  /\ \A e \in Engines, c \in Cores :
       /\ Cardinality(cache[e][c]) <= max_cached_workers
       /\ \A w \in cache[e][c] : sandbox[w].worker_core = c /\ sandbox[w].engine = e

(* While a pinned instance of a thread lives the thread is confined to a single
   core (or CCX), not always the same one: another outer spawn may move it.
   Once the last instance is gone the thread has its original affinity back, even
   if instances are dropped by other threads in the middle of a spawn. *)
AffinityFollowsInstances ==
  \A t \in Threads :
    /\ \A w \in Live : sandbox[w].pin = t =>
         IF core_pinning = "PinToCore"
           THEN Cardinality(affinity[t]) = 1 \/ Enabled # Cores   \* pinning may be refused
           ELSE \E x \in Ccxs : affinity[t] = ccx_mask(x)
    /\ thread[t].instances_alive = 0 => affinity[t] = Enabled
=============================================================================
