\* Every window over ten endpoints, well-formed or not.
CONSTANTS
  KnownRooms = {"room-office", "room-lab"}
  Configs <- SomeConfigs
  Requests <- SomeRequests
SPECIFICATION Spec
INVARIANTS UnlockIsEarned RestrictionOnlyEscalates WindowsOpenForTheirLength
