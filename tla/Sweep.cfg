CONSTANTS
  Listener = L
  Fds = {f1, f2, f3}
  MaxOutput = 1
  MaxInput = 0
  Chunk = 1
  Events = {"IN", "OUT", "HUP", "ERR"}
SPECIFICATION Spec
SYMMETRY FdSymmetry
CHECK_DEADLOCK FALSE
INVARIANTS TablesAgree DescriptorsOwned SweepExact
