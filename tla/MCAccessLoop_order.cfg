\* An unlock command overtaken by the lock command issued after it.
CONSTANTS
  Door = "door-1"
  Commands <- AllCommands
  KnownRooms = {"room-office", "room-lab"}
  Config <- LoopPolicy
  Badges <- ThreeBadges
  SeenCapacity = 2
  AgentBudget <- FourEach
  Retries = 1
  MaxInFlight = 0
  Budget <- NoFaults
SPECIFICATION LoopSpec
PROPERTIES NewestCommandWins
