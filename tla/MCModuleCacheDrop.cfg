SPECIFICATION Spec
CONSTANTS
  Threads = {t1, t2}
  Keys = {k1, k2}
  Modules = {m1, m2, m3}
  None = None
  Dangling = Dangling
  LruSize = 1
PROPERTIES DroppedModulesAreCached
