CONSTANTS
  f1 = f1
  f2 = f2
  Fds = {f1, f2}
  Nicks = {al, bo}
  ChanNames = {"#c"}
  Fold <- MCFold
  Keys = {}
  Topics = {}
  SlowReaders = {f1, f2}
  ModeLines <- TwoChanges
  NoNick = NoNick
  NoKey = NoKey
  NoTopic = NoTopic
  Idle = Idle
  Listener = L
  MaxOutput = 1
  MaxInput = 0
  Chunk = 2
  Events = {"IN", "OUT"}
SPECIFICATION SystemSpec
SYMMETRY Symmetry
CHECK_DEADLOCK FALSE
INVARIANTS QuitLeavesNoTrace
PROPERTIES QuitIsLast
