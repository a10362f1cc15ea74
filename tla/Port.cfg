CONSTANTS
  Upper <- MCUpper
  OtherCase <- MCOtherCase
  MaxParameters = 3
  MaxValue = 21
  MaxPort = 12
  Alphabet <- MCAlphabet
  MaxLength <- MCMaxLength
  Args = {"a", "b"}
SPECIFICATION Spec
CHECK_DEADLOCK FALSE
INVARIANTS PortExact
