CONSTANTS
  Cap = 3
  PipeRoom = 2
  Timeout = 1
  Descendants = 1
  MaxOutput = 4
  MaxElapsed = 2
CHECK_DEADLOCK FALSE
SPECIFICATION FairReadSpec
INVARIANTS ReadSound
PROPERTIES ReadEnds
