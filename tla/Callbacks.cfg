\* Two processors and two threads whose numbers are used again: the third
\* thread_attach finds no number.  lock_id wraps at 2 bits, counters at 1.
SPECIFICATION Spec
CONSTANTS
  Threads = {"t1", "t2"}
  NumProcessors = 2
  IdMax = 1
  CountMod = 2
INVARIANTS
  NothingFails
  SharingMeansUsedUp
  NoAccessIsLost
PROPERTIES
  EveryCallbackReturns
CHECK_DEADLOCK FALSE
