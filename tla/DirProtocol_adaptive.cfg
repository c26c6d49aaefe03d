\* The adaptive protocol: three processors, the home node one of them.
SPECIFICATION Spec
CONSTANTS
  NumProcessors = 3
  Detector = TRUE
  Home = 1
INVARIANTS
  TypeOK
  StaleIffModified
  SharersAreFresh
  ProducerHoldsCopy
  ConsumersHaveRead
PROPERTIES
  LeavingModifiedIsCharged
  ConsumersKeepTheirCopy
  ImplementsCopySet
