CONSTANTS
  Outputs   <- MCOutputs
  Addresses = {1, 2}
  NULL      = NULL
SPECIFICATION Spec
INVARIANTS ParentsCurrent ListRight
