\* Four racing requests, one of an unwanted type, and one connection under every
\* injected fault; queue and history overflow.
CONSTANTS
  Events = {1, 2, 3, 4}
  Connections = {"c1"}
  Wants <- WantsFiltered
  Buffer = 1
  History = 2
  Faults = {"drop", "duplicate", "reorder"}
  Sequential = FALSE
SPECIFICATION FairSpec
INVARIANTS TypeOK CountersAddUp EveryEventByOneWay OvertakenByOneAtMost
PROPERTIES ReplayIsExact PublishNeverBlocks HeldIsReleased
