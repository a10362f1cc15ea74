CONSTANTS
  Listener = L
  Fds = {f1, f2}
  MaxOutput = 1
  MaxInput = 0
  Chunk = 1
  Events = {"IN", "OUT", "HUP", "ERR"}
SPECIFICATION FairSpec
CHECK_DEADLOCK FALSE
PROPERTIES SweepEnds DoomedRemoved StopHonoured
