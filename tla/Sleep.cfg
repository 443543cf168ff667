CONSTANTS
  Base = 4
  Tick = 3
  Durations = {0, 1, 4, 5}
  Horizon = 16
SPECIFICATION Spec
INVARIANTS
  TypeOK
  NeverTooEarly
  DeadlineNotTorn
PROPERTY
  SleepReturns
