SPECIFICATION Spec
CONSTANTS
  Streams <- BothStreams
  Limit <- TwoUnits
  Pipe = 1
  MaxWrite = 2
  Deadline = 1
  Grace = 1
  Join = 1
CHECK_DEADLOCK FALSE
INVARIANT InterruptionReaps
