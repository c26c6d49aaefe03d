\* Two processors, two sets of two ways, lines of two bytes: the lines of 1, 5
\* and 8 compete for one set, and the tag of 5 is not its address.
SPECIFICATION Spec
CONSTANTS
  NumProcessors = 2
  Detector = TRUE
  Associativity = 2
  NumSets = 2
  LineSize = 2
  Addrs = {1, 5, 8}
  Writable = {5}
  MaxLru = 3
INVARIANTS
  LinesAreUnique
  DirectoryIsCoherent
PROPERTIES
  EachLineOneHandler
  LinesImplementCopySet
  FullBeforeEvict
  SharersLoseLinesByEviction
CHECK_DEADLOCK FALSE
