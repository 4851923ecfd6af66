\* Nine pages in three groups of three, the groups in one word.
SPECIFICATION Spec
CONSTANTS
  A = 3
  GROUP_COUNT = 3
INVARIANTS TypeOK RepresentsMembers QueriesAreSound
\* A failed assertion ends the program.
CHECK_DEADLOCK FALSE
