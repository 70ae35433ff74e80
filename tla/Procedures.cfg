CONSTANTS
  Params <- MCParams
  Nows <- MCNows
SPECIFICATION Spec
INVARIANTS CapturesCover MeasurementsApart PlanFits StartsAhead
PROPERTIES ScheduleEnds
CHECK_DEADLOCK FALSE
