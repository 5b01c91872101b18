\* Decoding of UNWIND_INFO records written in the format's layout.
CONSTANTS
  Ops <- MCOps
  Parents <- MCParents
  CorruptBytes <- MCCorruptBytes
  MaxOps = 2
SPECIFICATION Spec
INVARIANT FrameSizeMatches
\* The image is final once written (or overwritten): nothing is left to do.
CHECK_DEADLOCK FALSE
