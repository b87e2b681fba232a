SPECIFICATION Spec
CONSTANTS
  Keys <- MCKeys
  MaxMembers = 7
  MaxDelete = 3
INVARIANTS
  HoldsMembersInOrder
  Balanced
  NeverFaults
\* With every node in the tree nothing is left to add.
CHECK_DEADLOCK FALSE
