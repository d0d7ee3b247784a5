\* Five deliveries in any order and one restart.
CONSTANTS
  KnownRooms = {"room-office", "room-lab"}
  Config <- MinimalLoopPolicy
  Badges <- SomeBadges
  Observations <- SomeObservations
  States <- SomeStates
  SeenCapacity = 1
  Budget <- FiveDeliveries
SPECIFICATION Spec
INVARIANTS TypeOK CommandsFollowDecisions ViewIsNewest OccupancyIsNewest
PROPERTIES DuplicateNeverDecides
