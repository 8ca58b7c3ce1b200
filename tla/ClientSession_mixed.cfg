SPECIFICATION Spec
CONSTANTS
  Sessions = {s1, s2}
  Scripts <- PairScripts
  MAX_MESSAGE_SIZE = 2
CHECK_DEADLOCK FALSE
INVARIANT MessagesWhole
