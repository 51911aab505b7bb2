SPECIFICATION ImageSpec
CONSTANTS
  Proc = {"p", "q"}
  Source = {"s", "t", "u", "broken", "plantuml"}
  Document <- MixedDocument
  Image = {"image", "u", "broken", "plantuml"}
  ImageOf <- Mixed
  Broken = {"broken", "plantuml"}
  Early = {"u", "plantuml"}
  Killed = TRUE
  MaxRuns = 4
CHECK_DEADLOCK FALSE
INVARIANTS ReturnedImageIsCurrent SharedImagesComplete
PROPERTIES EveryRunEnds
