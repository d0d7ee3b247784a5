\* A write that took effect but whose answer was lost.
CONSTANTS
  Door = "door-1"
  Commands <- FaultCommands
  Retries = 1
  SeenCapacity = 2
  MaxInFlight = 1
  Budget <- CallBudget
SPECIFICATION Spec
PROPERTIES NoOpOnlyWhenInState
