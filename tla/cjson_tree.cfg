CONSTANTS
  n1 = n1
  n2 = n2
  n3 = n3
  n4 = n4
  Node <- MCNode
  NULL = NULL
  Client = Client
  MaxStrings = 3
  MaxRefs = 1
  Budgets <- MCBudgets
  Name <- MCName
  ConstName <- MCConstName
  Lower <- MCLower
  NoKey = NoKey
SPECIFICATION Spec
SYMMETRY Places
INVARIANTS TypeOK ListsIntact OwnedOnce StringsBalanced
PROPERTY Refines
