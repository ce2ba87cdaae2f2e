SPECIFICATION WireSpec
CONSTANTS
  Values <- MCValues
  Noise = {"$", "=", "*", "|", ":", "0", "1", "+", "-", "t", "CR", "LF"}
  MaxNoise = 6
INVARIANT RoundTrips PartsAreIncomplete ReparsesToItself CodecsAgree
PROPERTY AnswerStands
CHECK_DEADLOCK FALSE
