\* Number of frames one stack walk hands to its callback.
CONSTANTS
  KernelStart = 16
  Vmas <- MCVmas
  Frames <- MCFrames
  StackWords <- MCStackWords
  StackValues <- MCStackValues
  StartFrames <- MCStartFrames
  MaxFrames = 2
SPECIFICATION Spec

INVARIANT FrameCountBounded
