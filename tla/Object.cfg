CONSTANTS
  f1 = f1
  f2 = f2
  f3 = f3
  Fds = {f1, f2, f3}
  Nicks = {"al", "bo", "cy"}
  ChanNames = {"#c"}
  Fold <- MCFold
  Keys = {"k1", "k2"}
  Topics = {}
  SlowReaders = {}
  ModeLines <- NoModeLines
  NoNick = NoNick
  NoKey = NoKey
  NoTopic = NoTopic
  Idle = Idle
  NickOf <- MCNickOf
  Name = "#c"
  Limits = {1, 2}
  NoChannel = NoChannel
SPECIFICATION Spec
INVARIANTS RecordFaithful
