\* Two deliveries to each service; restarts, lost calls, forgotten equipment.
CONSTANTS
  Door = "door-1"
  Commands <- AllCommands
  KnownRooms = {"room-office", "room-lab"}
  Config <- LoopPolicy
  Badges <- TwoDoors
  SeenCapacity = 2
  AgentBudget <- TwoEach
  Retries = 1
  MaxInFlight = 1
  Budget <- DoorFaults
SPECIFICATION LoopSpec
INVARIANTS AgentViewIsPast
PROPERTIES DoorOpensOnlyOnAllow LoopIsADoorLock
