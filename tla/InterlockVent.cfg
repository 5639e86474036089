\* Two tanks in alarm, one cleared.
SPECIFICATION Spec
CONSTANTS
  Tanks = {process, other}
  Process = process
  MaxReading = 3
  SeedReading = 1
  Limits <- MCLimits
  Pressures = {1, 2}
  SeedPressure = 2
  Windows <- MCWindows
PROPERTY
  VentServesEveryAlarm
