\* Stack walk over a sorted unwind table decoded from UNWIND_INFO bytes, with the guest rewriting its stack:
\* what each frame is, and that the walk ends.
CONSTANTS
  KernelStart = 16
  Vmas <- MCVmas
  Frames <- MCFrames
  StackWords <- MCStackWords
  StackValues <- MCStackValues
  StartFrames <- MCStartFrames
  MaxFrames = 2
SPECIFICATION Spec
INVARIANT VmaLookupExact
PROPERTY CallerFrameFromTable
PROPERTY WalkTerminates
