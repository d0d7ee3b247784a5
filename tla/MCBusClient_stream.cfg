\* Three events of which the second is too long, a history of two, two troubles.
CONSTANTS
  Events = {1, 2, 3}
  DataBytes <- SecondTooLong
  MaxEventBytes = 4
  DefaultBuffer = 2
  DefaultHistory = 2
  DefaultHeartbeat = 1
  DefaultIdleTimeout = 2
  UnitsPerMs = 10
  DurationBits = 8
  BusEnvs <- SomeBusEnvs
  ServiceEnvs <- SomeServiceEnvs
  Troubles = 2
SPECIFICATION FairSpec
INVARIANTS TypeOK BackoffFollowsFailures OnlyStartUpFails RunningIsUsable
PROPERTIES ImplementsEventBus NoneSkipped WatchdogHasACause ResumedEventsArrive CancelEndsIt
