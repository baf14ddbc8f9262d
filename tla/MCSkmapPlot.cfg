SPECIFICATION Spec
CONSTANTS
  Maps <- MCMaps
  Targets <- MCTargets
  Lengths = {0, 2, 9}
  Periods = {1, 2}
  LengthMax = 2
  PeriodMax = 2
  MaxTraces = 2
  MaxReports = 3
  MaxOptions = 1
  MaxEvents = 1
INVARIANTS CurvesInStep EventsPlottedOnce
PROPERTY SamplingGoesOn
CHECK_DEADLOCK FALSE
