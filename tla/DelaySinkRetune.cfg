CONSTANTS
  s1 = s1
  Day = 4
  Doublings = 2
  Intervals = {1, 3}
  Default = 1
  MaxAge = 1
  Setters = {s1}
  Torn = Torn
  None = None
SPECIFICATION Spec
PROPERTY ArmingNeverRunsEarly
