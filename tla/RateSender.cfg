SPECIFICATION GoSpec
CONSTANTS
  Params <- FourSegments
  Second = 2
  MaxBatch = 2
  Outer = 6
  MaxTime = 7
INVARIANTS RecordMatchesWire SegmentsRespected NeverPoisoned
PROPERTIES SenderEnds
