SPECIFICATION WireSpec
CONSTANTS
  Values <- NoValues
  Noise = {"$", "0", "CR", "LF"}
  MaxNoise = 5
INVARIANT IncompleteCanBeAnswered
CHECK_DEADLOCK FALSE
