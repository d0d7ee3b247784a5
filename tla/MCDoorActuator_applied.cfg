\* A redelivery of a command whose every attempt failed.
CONSTANTS
  Door = "door-1"
  Commands <- FaultCommands
  Retries = 1
  SeenCapacity = 2
  MaxInFlight = 0
  Budget <- CallBudget
SPECIFICATION Spec
INVARIANTS AppliedNeedsAnEffect
