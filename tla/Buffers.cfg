CONSTANTS
  Listener = L
  Fds = {f1, f2}
  MaxOutput = 2
  MaxInput = 1
  Chunk = 2
  Events = {"IN", "OUT", "HUP", "ERR"}
SPECIFICATION Spec
SYMMETRY FdSymmetry
CHECK_DEADLOCK FALSE
INVARIANTS TypeOK PollOutExact LateLines QuitReaped BuffersBounded
