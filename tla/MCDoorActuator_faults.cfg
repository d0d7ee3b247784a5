\* Lost, late and refused calls, forgotten equipment and a restart, during
\* two deliveries.
CONSTANTS
  Door = "door-1"
  Commands <- FaultCommands
  Retries = 1
  SeenCapacity = 1
  MaxInFlight = 1
  Budget <- FaultBudget
SPECIFICATION FairSpec
INVARIANTS TypeOK ReportsAreFacts
PROPERTIES VersionsNeverGoBack UnlocksOnlyOnCommand DuplicateNeverWrites HandlingEnds ImplementsDoorLock
