SPECIFICATION Spec
CONSTANTS
  NumProcessors = 2
  Detector = FALSE
  Associativity = 2
  NumSets = 1
  LineSize = 1
  Addrs = {1, 2, 3}
  Writable = {1, 2, 3}
  MaxLru = 3
PROPERTIES
  EvictionUpdatesDirectory
CHECK_DEADLOCK FALSE
