SPECIFICATION Spec
CONSTANTS
  Sessions = {s1}
  Scripts <- MCScripts
  MAX_MESSAGE_SIZE = 2
CHECK_DEADLOCK FALSE
INVARIANT RepliesFramed
