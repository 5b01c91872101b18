\* Insert-once sharing of loader results and return of every load_module
\* call, with two processes, a shared symbol directory and one restart.
CONSTANTS
  p1 = p1
  p2 = p2
  w1 = w1
  w2 = w2
  m1 = m1
  Procs <- MCProcs
  Workers <- MCWorkers
  Modules <- MCModules
  DownloadPdb = TRUE
  MaxCalls = 2
  MaxRestarts = 1
SPECIFICATION Spec
\* Every thread eventually makes all of its MaxCalls calls and stops.
CHECK_DEADLOCK FALSE
PROPERTY IndexerIsOnceMap
