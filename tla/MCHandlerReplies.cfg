CONSTANTS
  MaxMembers = 3
SPECIFICATION RepliesSpec
INVARIANTS
  ReplyIsOneDocument
  ValidationIsTold
CHECK_DEADLOCK FALSE
