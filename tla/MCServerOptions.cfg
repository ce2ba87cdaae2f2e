SPECIFICATION OptionsSpec
CONSTANTS
  Builds = {b1, b2}
  Numbers <- MCNumbers
  Names = {gateway}
  MaxOptions = 2
INVARIANT LastOptionWins
CHECK_DEADLOCK FALSE
