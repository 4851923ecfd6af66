SPECIFICATION Spec
CONSTANTS
  FirstPage = 1
  LastPage = 4
  FirstAux = 5
  Pages <- MCPages
  AuxPages <- MCAuxPages
  GroupSize = 2
  Values = {0, 1}
  Absent = Absent
  Failures = {}
INVARIANT ZeroProtectedSucceeds
