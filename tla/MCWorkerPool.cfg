SPECIFICATION Spec
CONSTANTS
  Engines = {e1}
  Threads = {t1, t2}
  Workers = {w1, w2}
  None = None
  Cores <- MCCores
  Enabled <- MCCores
  CcxCores <- MCCcxCores
  Hyperthreads <- MCHyperthreads
  CcxSiblings <- MCCcxSiblings
  CorePinnings = {"PinToCore", "PinToCcx", "Disabled"}
  max_cached_workers = 1
SYMMETRY Symmetry
INVARIANTS TypeOK CountsAreExact WorkersHaveOneOwner AffinityFollowsInstances
