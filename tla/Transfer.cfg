\* One request at a time, a restart and a rollback at any moment.
SPECIFICATION Spec
CONSTANTS
  Threads = {t1}
  Pumps = {pumpA, pumpB}
  New = New
  Old = Old
  Esd = Esd
  MaxGeneration = 2
  MaxRestarts = 1
  MaxFailures = 0
  MaxRollbacks = 1
INVARIANTS
  TypeOK RunsAtLastStage IdleIsSaved
PROPERTIES
  StartsOnCurrentEvidence StartsAlone NewOpensFirst EsdBeforeOff LatchOutlivesOpenEsd
SYMMETRY Interchangeable
