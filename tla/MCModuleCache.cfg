SPECIFICATION Spec
CONSTANTS
  Threads = {t1, t2, t3}
  Keys = {k1, k2}
  Modules = {m1, m2, m3, m4}
  None = None
  Dangling = Dangling
  LruSize = 1
SYMMETRY Symmetry
INVARIANTS TypeOK OneModulePerKey HeldModuleIsFound RetiredModulesUnowned
