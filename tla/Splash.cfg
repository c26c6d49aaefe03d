SPECIFICATION Spec
VIEW View
CONSTANTS
  ThreadsOf <- CodeOf
  Programs <- MCPrograms
  KnownRaces <- MCKnownRaces
  KnownUndefined <- MCKnownUndefined
INVARIANTS
  NoOtherRace
  ReadsAreDefined
  MutexesAreInOrder
  NeverStuck
  RadixSorts
  WaterAddsAllForces
  PicturesAreComplete
