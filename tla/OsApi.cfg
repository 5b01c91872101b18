\* The OS API over a running guest: two processes may be forked, exit and be
\* renamed while collect_processes / find_process_by_* walk the task list,
\* and the C API copies names into buffers of 0 or 3 bytes.
CONSTANTS
  h = h
  n1 = n1
  n2 = n2
  Nodes <- MCNodes
  InitTask = h
  Pids = {1, 2}
  Names <- MCNames
  MaxLens = {0, 3}
  BufCap = 4
  MaxIter = 3
  SymbolFiles <- MCSymbolFiles
SPECIFICATION Spec
INVARIANT CStringInBounds
INVARIANT FindNoneMeansAbsent
