CONSTANTS
  f1 = f1
  f2 = f2
  f3 = f3
  Fds = {f1, f2}
  Nicks = {"al", "AL", "bo"}
  ChanNames = {"#c", "#C"}
  Fold <- MCFold
  Keys = {"k1"}
  Topics = {"t1"}
  SlowReaders = {}
  ModeLines <- AllModeLines
  NoNick = NoNick
  NoKey = NoKey
  NoTopic = NoTopic
  Idle = Idle
SPECIFICATION Spec
SYMMETRY FdSymmetry
INVARIANTS MembershipSound
PROPERTIES PolicyKept
