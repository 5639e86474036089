\* Two threads and two batches; one process end at any point, with the files
\* as the threads left them.  A checkpoint that does not parse stops the
\* service for good, so the system may come to a halt.
SPECIFICATION Spec
CONSTANTS
  Threads = {t1, t2}
  Batches = {b1, b2}
  NoBatch = none
  Missing = missing
  Empty = empty
  Torn = torn
  MaxRecords = 3
  MaxCrashes = 1
CHECK_DEADLOCK FALSE
INVARIANTS
  TypeOK CheckpointHasLines AnsweredIsKept
