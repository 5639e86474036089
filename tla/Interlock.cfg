\* The process tank, both limits, both windows, restarts and rollbacks at any
\* moment.
SPECIFICATION Spec
CONSTANTS
  Tanks = {process}
  Process = process
  MaxReading = 3
  SeedReading = 1
  Limits <- MCLimits
  Pressures = {1, 2}
  SeedPressure = 2
  Windows <- MCWindows
INVARIANTS
  TypeOK AlarmIsLatched
PROPERTIES
  HighLevelLatched LatchReleasedSafely TripShuts NoFillInAlarm
