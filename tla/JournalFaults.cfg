\* Either file write may raise StoreError, and processes end and resume.
SPECIFICATION Spec
CONSTANTS
  Kinds = {k}
  Values = {v1}
  Unset = Unset
  Tombstone = Tombstone
  MaxRecords = 4
  MaxCrashes = 2
  Starts = {"resume"}
  Faults = {"append", "save"}
INVARIANTS
  OneTombstonePerTarget
PROPERTIES
  WatermarkNeverFalls
\* The log fills up and the crashes run out.
CHECK_DEADLOCK FALSE
