\* One thread; the line of a record may fail to be written.
SPECIFICATION Spec
CONSTANTS
  Threads = {t1}
  Pumps = {pumpA}
  New = New
  Old = Old
  Esd = Esd
  MaxGeneration = 2
  MaxRestarts = 0
  MaxFailures = 2
  MaxRollbacks = 0
PROPERTY
  StartsOnWrittenPositions
