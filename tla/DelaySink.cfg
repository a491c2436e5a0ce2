\* A day of four hours and two doublings, so that the ceiling is reached, and intervals of
\* one hour and three.
CONSTANTS
  s1 = s1
  s2 = s2
  Day = 4
  Doublings = 2
  Intervals = {1, 3}
  Default = 1
  MaxAge = 1
  Setters = {s1, s2}
  Torn = Torn
  None = None
SPECIFICATION Spec
INVARIANTS
  AttemptedDaily
  RestartKeepsTheSettings
PROPERTIES
  FirstRunIsOneIntervalOut
  ArmedJobKeepsRunning
