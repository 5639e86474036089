\* A baseline that was recalibrated, and a rollback or a restart.
SPECIFICATION Spec
CONSTANTS
  Tanks = {process}
  Process = process
  StartAge = 1
  Ages = {1}
  MaxTime = 1
  MaxRecords = 2
  MaxSnapshots = 0
PROPERTIES
  RebuildKeepsBaselines
