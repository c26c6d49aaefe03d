\* Ints of 6 bits hold the counters of three processors and no more.
SPECIFICATION Spec
CONSTANTS
  NumProcessors = 3
  IntBits = 6
  AddrBits = 5
  Configs <- MCConfigs
INVARIANTS
  AddressesAreSplit
PROPERTIES
  BitsImplementDirectoryLine
