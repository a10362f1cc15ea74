CONSTANTS
  f1 = f1
  f2 = f2
  f3 = f3
  Fds = {f1, f2, f3}
  Nicks = {"al", "bo", "cy"}
  ChanNames = {"#c", "#d"}
  Fold <- MCFold
  Keys = {}
  Topics = {}
  SlowReaders = {}
  ModeLines <- NoModeLines
  NoNick = NoNick
  NoKey = NoKey
  NoTopic = NoTopic
  Idle = Idle
SPECIFICATION Spec
SYMMETRY FdSymmetry
INVARIANTS ViewsConsistent
