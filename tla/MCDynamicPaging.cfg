SPECIFICATION Spec
CONSTANTS
  FirstPage = 2
  LastPage = 4
  FirstAux = 4
  Pages <- MCPages
  AuxPages <- MCAuxPages
  GroupSize = 2
  Values = {0, 1}
  Absent = Absent
  Failures = {"madvise", "zeropage", "writeprotect"}
INVARIANTS TypeOK HostSetsSound
PROPERTIES GuestWithinSets 
