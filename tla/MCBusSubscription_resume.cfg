\* Publishers that do not wait for one another, no injected fault.
CONSTANTS
  Events = {1, 2, 3}
  Connections = {"c1", "c2"}
  Wants <- WantsAll
  Buffer = 2
  History = 3
  Faults = {}
  Sequential = FALSE
SPECIFICATION SubSpec
PROPERTIES ResumeLosesNothing
