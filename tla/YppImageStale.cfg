SPECIFICATION ImageSpec
CONSTANTS
  Proc = {"p"}
  Source = {"s", "t"}
  Document <- OneDocument
  Image = {"image"}
  ImageOf <- Named
  Broken = {"t"}
  Early = {}
  Killed = FALSE
  MaxRuns = 3
CHECK_DEADLOCK FALSE
INVARIANTS ReturnedImageIsCurrent
