CONSTANTS
  OffsetBits = 2
  IndexBits = 1
  PageFrameBits = 3
  LargeFrameBits = 3
  HugeFrameBits = 2
  Cr3FrameBits = 3
  LargeBit = 1
  MemSize = 12
  Cr3 = 0
  EntryWords <- MCEntryWords
  ReadLens <- MCReadLens
  VcpuIds = {0, 1}
  VcpusCount = 1
  Cr3Values = {0, 4}
  CallbackSets <- MCCallbackSets
  ErrCodes <- MCErrCodes
  Std = TRUE
SPECIFICATION NativeSpec
INVARIANT ReadIsStitched
