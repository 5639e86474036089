\* A crash inside a rollback, then a restart.
SPECIFICATION Spec
CONSTANTS
  Kinds = {k}
  Values = {v1, v2}
  Unset = Unset
  Tombstone = Tombstone
  MaxRecords = 4
  MaxCrashes = 2
  Starts = {"resume"}
  Faults = {}
INVARIANT
  NoEffectOfRolledBack
CHECK_DEADLOCK FALSE
