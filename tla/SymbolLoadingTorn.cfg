\* A PDB file another process is still writing, or that a crashed or
\* failed write left truncated, is parsed and its symbols cached.
CONSTANTS
  p1 = p1
  p2 = p2
  w1 = w1
  w2 = w2
  m1 = m1
  Procs <- MCProcs
  Workers <- MCWorkers
  Modules <- MCModules
  DownloadPdb = TRUE
  MaxCalls = 2
  MaxRestarts = 1
SPECIFICATION Spec
INVARIANT CachedSymbolsComplete
\* Every thread eventually makes all of its MaxCalls calls and stops.
CHECK_DEADLOCK FALSE
