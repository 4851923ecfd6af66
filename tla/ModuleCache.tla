---------------------------- MODULE ModuleCache ----------------------------
(***************************************************************************)
(* The engine's cache of compiled modules: a map of weak references to the *)
(* modules in use, and a bounded cache of strong references to modules     *)
(* nobody uses any more.  Each section under the cache's mutex is one      *)
(* step; compiling, and giving up a reference after the mutex was left,    *)
(* happen outside of it.  Threads stand for single Module handles: a       *)
(* cloned handle is held by another element of Threads.                    *)
(*                                                                         *)
(* schnellru's recency order is abstracted: any entry may be the victim.   *)
(***************************************************************************)
EXTENDS Naturals, FiniteSets

CONSTANTS Threads, Keys, Modules,
          None,         \* no module, and a map without the key
          Dangling,     \* a Weak whose module has been freed
          LruSize       \* Config::lru_cache_size

ASSUME CacheAssumption ==
  /\ None \notin Keys \cup Modules /\ Dangling \notin Modules /\ Dangling # None
  /\ LruSize \in Nat
  /\ IsFiniteSet(Modules)

VARIABLES active,     \* ModuleCacheInner.active: a module, None or Dangling for each key
          inactive,   \* ModuleCacheInner.inactive: the modules in it
          key,        \* the key of each allocated ModulePrivate, None when it is free
          pc,         \* where each thread is
          ref,        \* the Arc each thread holds
          want        \* the key each thread asked for

vars == <<active, inactive, key, pc, ref, want>>

(* Drops the modules whose last Arc is gone; their Weak entries dangle. *)
Collect(weak) ==
  LET freed == {m \in Modules : m \notin inactive' /\ \A t \in Threads : ref'[t] # m}
  IN /\ key' = [m \in Modules |-> IF m \in freed THEN None ELSE key[m]]
     /\ active' = [k \in Keys |-> IF weak[k] \in freed THEN Dangling ELSE weak[k]]

Cached(k) == {m \in inactive : key[m] = k}

Init ==
  /\ active = [k \in Keys |-> None] /\ inactive = {}
  /\ key = [m \in Modules |-> None]
  /\ pc = [t \in Threads |-> "idle"]
  /\ ref = [t \in Threads |-> None] /\ want = [t \in Threads |-> None]

(* Mutant: a weak entry is taken as it is, without asking whether its module
   still exists. *)
GetNoUpgrade(t, k) ==
  /\ pc[t] = "idle" /\ want' = [want EXCEPT ![t] = k]
  /\ IF active[k] # None
       THEN ref' = [ref EXCEPT ![t] = active[k]] /\ pc' = [pc EXCEPT ![t] = "holding"]
       ELSE UNCHANGED ref /\ pc' = [pc EXCEPT ![t] = "compiling"]
  /\ UNCHANGED <<active, inactive, key>>

(* ModuleCache::get, from Module::from_blob or Module::from_cache. *)
Get(t, k) ==
  /\ pc[t] = "idle"
  /\ want' = [want EXCEPT ![t] = k]
  /\ \/ /\ active[k] \in Modules
        /\ ref' = [ref EXCEPT ![t] = active[k]]
        /\ pc' = [pc EXCEPT ![t] = "holding"]
        /\ UNCHANGED <<active, inactive, key>>
     \/ /\ active[k] \notin Modules
        /\ \E m \in Cached(k) :
             /\ inactive' = inactive \ {m}
             /\ active' = [active EXCEPT ![k] = m]
             /\ ref' = [ref EXCEPT ![t] = m]
        /\ pc' = [pc EXCEPT ![t] = "holding"]
        /\ UNCHANGED key
     \/ /\ active[k] \notin Modules /\ Cached(k) = {}
        /\ pc' = [pc EXCEPT ![t] = "compiling"]
        /\ UNCHANGED <<active, inactive, key, ref>>

(* The rest of Module::from_blob: compile, or fail. *)
Compile(t) ==
  /\ pc[t] = "compiling"
  /\ \/ \E m \in {n \in Modules : key[n] = None} :
          /\ key' = [key EXCEPT ![m] = want[t]]
          /\ ref' = [ref EXCEPT ![t] = m]
          /\ pc' = [pc EXCEPT ![t] = "inserting"]
     \/ pc' = [pc EXCEPT ![t] = "idle"] /\ UNCHANGED <<key, ref>>
  /\ UNCHANGED <<active, inactive, want>>

(* Mutant: an entry in use is overwritten with the newly compiled module. *)
InsertOverwrites(t) ==
  LET k == want[t] IN
  /\ pc[t] = "inserting"
  /\ pc' = [pc EXCEPT ![t] = "holding"]
  /\ IF Cached(k) # {}
       THEN \E m \in Cached(k) :
              /\ inactive' = inactive \ {m}
              /\ ref' = [ref EXCEPT ![t] = m]
              /\ Collect([active EXCEPT ![k] = m])
       ELSE /\ UNCHANGED <<inactive, ref>>
            /\ Collect([active EXCEPT ![k] = ref[t]])
  /\ UNCHANGED want

(* ModuleCache::insert: a module which somebody else compiled in the meantime
   wins, and the one just compiled is dropped. *)
Insert(t) ==
  LET k == want[t] IN
  /\ pc[t] = "inserting"
  /\ pc' = [pc EXCEPT ![t] = "holding"]
  /\ \/ \E m \in Cached(k) :
          /\ inactive' = inactive \ {m}
          /\ ref' = [ref EXCEPT ![t] = m]
          /\ Collect([active EXCEPT ![k] = m])
     \/ /\ Cached(k) = {} /\ active[k] \in Modules
        /\ ref' = [ref EXCEPT ![t] = active[k]] /\ UNCHANGED inactive
        /\ Collect(active)
     \/ /\ Cached(k) = {} /\ active[k] \notin Modules
        /\ UNCHANGED <<inactive, ref>>
        /\ Collect([active EXCEPT ![k] = ref[t]])
  /\ UNCHANGED want

(* Module::clone *)
Clone(t, u) ==
  /\ pc[t] = "holding" /\ pc[u] = "idle"
  /\ pc' = [pc EXCEPT ![u] = "holding"] /\ ref' = [ref EXCEPT ![u] = ref[t]]
  /\ UNCHANGED <<active, inactive, key, want>>

(* Arc::strong_count(&module) == 1 *)
SoleOwner(t) == ref[t] \notin inactive /\ \A u \in Threads \ {t} : ref[u] # ref[t]

(* inactive.get_or_insert: an entry with the key stays; a cache at its limit
   evicts one entry, a cache of size zero takes nothing. *)
IntoInactive(m) ==
  IF Cached(key[m]) # {} \/ LruSize = 0 THEN inactive' = inactive
  ELSE IF Cardinality(inactive) < LruSize THEN inactive' = inactive \cup {m}
  ELSE \E victim \in inactive : inactive' = (inactive \ {victim}) \cup {m}

(* Mutant: a module is retired although other handles to it exist. *)
OnDropAnyCount(t) ==
  LET m == ref[t] IN
  /\ pc[t] = "holding"
  /\ pc' = [pc EXCEPT ![t] = "idle"] /\ ref' = [ref EXCEPT ![t] = None]
  /\ IntoInactive(m)
  /\ Collect([active EXCEPT ![key[m]] = None])
  /\ UNCHANGED want

(* Mutant: the weak entry is not removed when a module is retired. *)
OnDropKeepsActive(t) ==
  LET m == ref[t] IN
  /\ pc[t] = "holding"
  /\ IF SoleOwner(t)
       THEN /\ pc' = [pc EXCEPT ![t] = "idle"] /\ ref' = [ref EXCEPT ![t] = None]
            /\ IntoInactive(m)
            /\ Collect(active)
       ELSE pc' = [pc EXCEPT ![t] = "returning"] /\ UNCHANGED <<active, inactive, key, ref>>
  /\ UNCHANGED want

(* Module::drop and ModuleCache::on_drop.  The guard is released before the
   argument `module` is, so a handle that was not the last one is given up in
   a step of its own. *)
OnDrop(t) ==
  LET m == ref[t] IN
  /\ pc[t] = "holding"
  /\ \/ /\ SoleOwner(t)
        /\ pc' = [pc EXCEPT ![t] = "idle"] /\ ref' = [ref EXCEPT ![t] = None]
        /\ IntoInactive(m)
        /\ Collect([active EXCEPT ![key[m]] = None])
     \/ /\ ~SoleOwner(t)
        /\ pc' = [pc EXCEPT ![t] = "returning"]
        /\ UNCHANGED <<active, inactive, key, ref>>
  /\ UNCHANGED want

ReleaseArc(t) ==
  /\ pc[t] = "returning"
  /\ pc' = [pc EXCEPT ![t] = "idle"] /\ ref' = [ref EXCEPT ![t] = None]
  /\ UNCHANGED <<inactive, want>>
  /\ Collect(active)

Next ==
  \E t \in Threads :
    \/ \E k \in Keys : Get(t, k)
    \/ Compile(t) \/ Insert(t) \/ OnDrop(t) \/ ReleaseArc(t)
    \/ \E u \in Threads : Clone(t, u)

Spec == Init /\ [][Next]_vars
-----------------------------------------------------------------------------
(* Type correctness of the maps and of the threads. *)
TypeOK ==
  /\ active \in [Keys -> Modules \cup {None, Dangling}]
  /\ inactive \in SUBSET Modules
  /\ key \in [Modules -> Keys \cup {None}]
  /\ pc \in [Threads -> {"idle", "compiling", "inserting", "holding", "returning"}]
  /\ ref \in [Threads -> Modules \cup {None}]
  /\ want \in [Threads -> Keys \cup {None}]

(* The modules get and insert have handed out, or will. *)
Published(m) ==
  m \in inactive \/ \E t \in Threads : pc[t] \in {"holding", "returning"} /\ ref[t] = m

(* However many threads compile the same program at once, all of the handles
   given out for a key, and the retired module of that key, are one module. *)
OneModulePerKey ==
  \A m, n \in Modules : Published(m) /\ Published(n) /\ key[m] = key[n] => m = n

(* As long as somebody holds a module, get finds it through `active`. *)
HeldModuleIsFound ==
  \A t \in Threads : pc[t] = "holding" => active[key[ref[t]]] = ref[t]

(* A retired module is owned by the cache alone and is no longer in `active`,
   and the cache never exceeds the configured size. *)
RetiredModulesUnowned ==
  /\ Cardinality(inactive) <= LruSize
  /\ \A m \in inactive : active[key[m]] \notin Modules /\ \A t \in Threads : ref[t] # m

(* "modules that are dropped will be added to the LRU cache": a module is only
   ever freed because the cache is full of others.  (A handle that was never
   given out, the loser of a race in insert, is not a dropped module.) *)
DroppedModulesAreCached ==
  [][\A m \in Modules :
       LruSize > 0 /\ Published(m) /\ key'[m] = None => Cardinality(inactive) = LruSize]_vars
=============================================================================
