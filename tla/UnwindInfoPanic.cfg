\* UNWIND_INFO bytes overwritten by the guest.
CONSTANTS
  Ops <- MCOps
  Parents <- MCParents
  CorruptBytes <- MCCorruptBytes
  MaxOps = 2
SPECIFICATION Spec
INVARIANT UnwindErrorsSurface
\* The image is final once written (or overwritten): nothing is left to do.
CHECK_DEADLOCK FALSE
