\* Two threads and two pumps; two steps of two reach four of the five asked for,
\* and the way from one or from four to the target is a shortened step.
SPECIFICATION Spec
CONSTANTS
  Threads = {t1, t2}
  Pumps = {a, b}
  NoPump = none
  Targets = {0, 5}
  Step = 2
  MaxSteps = 2
  MaxOverlaps = 1
INVARIANTS
  TypeOK RampArrives HeaderIsLastWriters
PROPERTIES
  RampEnds
