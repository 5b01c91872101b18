\* A chained UNWIND_INFO with an odd number of code slots.
CONSTANTS
  Ops <- MCOps
  Parents <- MCParents
  CorruptBytes <- MCCorruptBytes
  MaxOps = 2
SPECIFICATION Spec
INVARIANT ChainedParentRead
\* The image is final once written (or overwritten): nothing is left to do.
CHECK_DEADLOCK FALSE
