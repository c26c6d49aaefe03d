\* The program with the detector on.  Four rounds let a consumer miss once more
\* than QualifiedReadersHit allows.
SPECIFICATION Spec
CONSTANTS
  NumProcessors = 4
  Detector = TRUE
  ROUND = 4
  ROUND3 = 1
  MaxEvictions = 1
INVARIANTS
  ReportIsOfTheProgram
PROPERTIES
  QualifiedReadersHit
  Finishes
