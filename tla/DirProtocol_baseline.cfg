\* The write-invalidate protocol: three processors, the home node one of them.
SPECIFICATION Spec
CONSTANTS
  NumProcessors = 3
  Detector = FALSE
  Home = 1
INVARIANTS
  InvalidIffUnshared
  SingleOwner
PROPERTIES
  StoreHitMeansHeld
  OwnershipTransferIsCharged
