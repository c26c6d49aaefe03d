\* Three boxes with a process each, or two for one process, one for another and
\* none for the third; two molecules, in all boxes.
SPECIFICATION Spec
CONSTANTS
  Proc = {1, 2, 3}
  Boxes = {"a", "b", "c"}
  Molecules = {m1, m2}
  Null = Null
  Schedules <- MCSchedules
INVARIANTS
  EveryMoleculeIsInItsBox
CHECK_DEADLOCK FALSE
