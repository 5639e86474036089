\* Two requests at a time that persist, hand over and start.
SPECIFICATION SpecOfStarts
CONSTANTS
  Threads = {t1, t2}
  Pumps = {pumpA}
  New = New
  Old = Old
  Esd = Esd
  MaxGeneration = 2
  MaxRestarts = 0
  MaxFailures = 0
  MaxRollbacks = 0
INVARIANT
  SheetUsedOnce
SYMMETRY Interchangeable
