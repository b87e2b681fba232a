SPECIFICATION Spec
CONSTANTS
  Keys <- MCFewKeys
  MaxMembers = 4
  MaxDelete = 4
INVARIANTS
  Balanced
\* With every node in the tree nothing is left to add.
CHECK_DEADLOCK FALSE
