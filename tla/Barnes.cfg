\* Two processes, four bodies, two time steps; leaves of two bodies, so that a
\* leaf can be divided between processes, and two mutexes for up to six cells.
SPECIFICATION Spec
CONSTANTS
  b1 = b1
  b2 = b2
  b3 = b3
  b4 = b4
  Bodies = {b1, b2, b3, b4}
  NPROC = 2
  NSUB = 2
  Levels = 4
  MAX_BODIES_PER_LEAF = 2
  MAXLOCK = 2
  maxmycell = 3
  Places <- MCPlaces
  Child_Sequence <- MCChildSequence
  Costs = {1, 2}
  Steps = 2
INVARIANTS
  TreeIsComplete
  EachBodyHasOneProcess
PROPERTIES
  Finishes
CHECK_DEADLOCK FALSE
