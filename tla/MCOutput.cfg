CONSTANTS
  BufferSize = 3
  MaxSend = 2
  MaxMetrics = 5
  Width = 2
  MaxGC = 4
  MaxSamples = 3
SPECIFICATION SelfMonSpec
INVARIANTS TypeOK Delivery NewestKept IntervalsAddUp
PROPERTIES OnlyOverflowDrops Drained
CHECK_DEADLOCK FALSE
