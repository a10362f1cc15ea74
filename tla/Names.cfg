CONSTANTS
  f1 = f1
  f2 = f2
  f3 = f3
  Fds = {f1, f2, f3}
  Nicks = {"al", "AL", "bo", "cy"}
  ChanNames = {"#c"}
  Fold <- MCFold
  Keys = {}
  Topics = {}
  SlowReaders = {}
  ModeLines <- InviteModeLines
  NoNick = NoNick
  NoKey = NoKey
  NoTopic = NoTopic
  Idle = Idle
SPECIFICATION Spec
SYMMETRY FdSymmetry
INVARIANTS TypeOK RegistrationExact NicknameIndexExact InvitationsSound
PROPERTIES PolicyKept NicknamesNotStolen
