\* Four events published one after the other, one reconnection, a history
\* that is long enough for two of them.
CONSTANTS
  Events = {1, 2, 3, 4}
  Connections = {"c1", "c2"}
  Wants <- WantsAll
  Buffer = 1
  History = 2
  Faults = {}
  Sequential = TRUE
SPECIFICATION SubSpec
PROPERTIES ResumeLosesNothing ImplementsEventBus
