SPECIFICATION Spec
CONSTANTS
  NumProcessors = 3
  Detector = TRUE
  Home = 1
PROPERTIES
  StoreHitMeansHeld
